-------------------------- MODULE DirectScanProofs --------------------------
(***************************************************************************)
(* Theorems about DirectScan for every set of threads and of queries: the  *)
(* files of a scan are accounted for between any two steps, and its rows   *)
(* are returned at most once, and all of them when nothing has failed.     *)
(***************************************************************************)
EXTENDS DirectScan, FiniteSetTheorems, TLAPS

\* The inductive invariant.  A thread that is about to claim, skip or open a file,
\* or to note a failure, has none open.
Between ==
    \A t \in Threads : pc[t] \in {"claim", "skip", "open", "failing"} => ~local[t].active

\* As much of the types as the count of the files needs.
Fields == {"active", "row", "end", "cached", "elem"}
Cursor(r) == DOMAIN r = Fields /\ r.active \in BOOLEAN

Shaped ==
    /\ query \in Queries
    /\ nextFile \in Nat
    /\ counts \in [Kinds -> Nat]
    /\ pc \in [Threads -> Steps]
    /\ local = [t \in Threads |-> local[t]] /\ \A t \in Threads : Cursor(local[t])

AccountInv == Shaped /\ Between /\ EveryFileIsAccounted

\* A thread has a file in its hands.
Holds(t) == local[t].active \/ pc[t] \in {"skip", "open"}

Total == counts["completed"] + counts["failed"] + counts["unavailable"] + counts["skipped"]

LEMMA FileCount == ASSUME query \in Queries PROVE Len(query.files) \in Nat
<1>1. query \in QuerySet
  BY DirectAssumption
<1>2. query.files \in Seq(Seq(Nat))
  BY <1>1 DEF QuerySet
<1>3. QED BY <1>2

LEMMA HandIsFinite == IsFiniteSet(InHand) /\ Cardinality(InHand) \in Nat
<1>1. InHand \subseteq Threads
  BY DEF InHand
<1>2. IsFiniteSet(InHand)
  BY <1>1, DirectAssumption, FS_Subset
<1>3. QED BY <1>2, FS_CardinalityType

\* Counting one file.
LEMMA CountAddsOne ==
    ASSUME counts \in [Kinds -> Nat], NEW k \in Kinds, Count(k)
    PROVE  counts' \in [Kinds -> Nat] /\ Total' = Total + 1
<1>1. /\ counts["completed"] \in Nat /\ counts["failed"] \in Nat
      /\ counts["unavailable"] \in Nat /\ counts["skipped"] \in Nat
  BY DEF Kinds
<1>2. counts' \in [Kinds -> Nat]
  BY <1>1 DEF Count, Kinds
<1>3. CASE k = "completed"
  BY <1>1, <1>3 DEF Count, Kinds, Total
<1>4. CASE k = "failed"
  BY <1>1, <1>4 DEF Count, Kinds, Total
<1>5. CASE k = "unavailable"
  BY <1>1, <1>5 DEF Count, Kinds, Total
<1>6. CASE k = "skipped"
  BY <1>1, <1>6 DEF Count, Kinds, Total
<1>7. QED BY <1>2, <1>3, <1>4, <1>5, <1>6 DEF Kinds

\* A step that changes what no thread but t holds.
Alone(t) == \A u \in Threads : u # t => (Holds(u)' <=> Holds(u))

LEMMA HandStays ==
    ASSUME NEW t \in Threads, Alone(t), Holds(t)' <=> Holds(t)
    PROVE  Cardinality(InHand') = Cardinality(InHand)
<1>1. InHand' = InHand
  BY DEF InHand, Holds, Alone
<1>2. QED BY <1>1

LEMMA HandGrows ==
    ASSUME NEW t \in Threads, Alone(t), ~Holds(t), Holds(t)'
    PROVE  Cardinality(InHand') = Cardinality(InHand) + 1
<1>1. InHand' = InHand \cup {t} /\ t \notin InHand
  BY DEF InHand, Holds, Alone
<1>2. QED BY <1>1, HandIsFinite, FS_AddElement

LEMMA HandShrinks ==
    ASSUME NEW t \in Threads, Alone(t), Holds(t), ~Holds(t)'
    PROVE  Cardinality(InHand') = Cardinality(InHand) - 1
<1>1. InHand' = InHand \ {t} /\ t \in InHand
  BY DEF InHand, Holds, Alone
<1>2. QED BY <1>1, HandIsFinite, FS_RemoveElement

\* A step of t: its next step is p and its cursor r.
Step(t, p, r) == pc' = [pc EXCEPT ![t] = p] /\ local' = [local EXCEPT ![t] = r]

LEMMA StepAlone ==
    ASSUME Shaped, NEW t \in Threads, NEW p \in Steps, NEW r, Cursor(r), Step(t, p, r)
    PROVE  /\ Alone(t)
           /\ pc' \in [Threads -> Steps] /\ pc'[t] = p /\ local'[t] = r
           /\ local' = [u \in Threads |-> local'[u]] /\ \A u \in Threads : Cursor(local'[u])
           /\ \A u \in Threads : u # t => pc'[u] = pc[u] /\ local'[u] = local[u]
<1>1. /\ pc' \in [Threads -> Steps] /\ pc'[t] = p
      /\ \A u \in Threads : u # t => pc'[u] = pc[u]
  BY DEF Shaped, Step
<1>2. /\ local' = [u \in Threads |-> local'[u]] /\ local'[t] = r
      /\ \A u \in Threads : u # t => local'[u] = local[u]
  BY DEF Shaped, Step
<1>3. \A u \in Threads : Cursor(local'[u])
  BY <1>2 DEF Shaped
<1>4. Alone(t)
  BY <1>1, <1>2 DEF Alone, Holds
<1>5. QED BY <1>1, <1>2, <1>3, <1>4

\* The same when the cursor of t is left alone, and when its next step is.
LEMMA GotoStep ==
    ASSUME Shaped, NEW t \in Threads, NEW p, Goto(t, p), local' = local
    PROVE  Step(t, p, local[t]) /\ Cursor(local[t])
BY DEF Shaped, Goto, Step

LEMMA CursorStep ==
    ASSUME Shaped, NEW t \in Threads, NEW r, local' = [local EXCEPT ![t] = r], pc' = pc
    PROVE  Step(t, pc[t], r) /\ pc[t] \in Steps
BY DEF Shaped, Step

LEMMA IdleCursor == Cursor(Idle) /\ Idle.active = FALSE
BY DEF Cursor, Fields, Idle

LEMMA AccountInit == Init => AccountInv
<1> SUFFICES ASSUME Init PROVE AccountInv
  OBVIOUS
<1>2. \A t \in Threads : local[t] = Idle /\ pc[t] = "idle"
  BY DEF Init
<1>3. Shaped
  <2>1. /\ counts \in [Kinds -> Nat] /\ pc \in [Threads -> Steps]
        /\ query \in Queries /\ nextFile \in Nat
    BY DEF Init, Steps
  <2>2. local = [t \in Threads |-> local[t]]
    BY DEF Init
  <2>3. \A t \in Threads : Cursor(local[t])
    BY <1>2, IdleCursor
  <2>4. QED BY <2>1, <2>2, <2>3 DEF Shaped
<1>4. \A t \in Threads : ~Holds(t)
  BY <1>2 DEF Holds, Idle
<1>5. Between
  BY <1>2 DEF Between
<1>6. InHand = {}
  BY <1>4 DEF InHand, Holds
<1>7. Cardinality(InHand) = 0
  BY <1>6, FS_EmptySet
<1>8. EveryFileIsAccounted
  <2>1. \A k \in Kinds : counts[k] = 0
    BY DEF Init
  <2>2. Total = 0
    BY <2>1 DEF Total, Kinds
  <2>3. Min2(nextFile, Len(query.files)) = 0
    BY <1>3, FileCount DEF Init, Shaped, Min2
  <2>4. QED BY <1>7, <2>2, <2>3 DEF EveryFileIsAccounted, Total
<1>9. QED BY <1>3, <1>5, <1>8 DEF AccountInv

-----------------------------------------------------------------------------
(* One lemma for each way a step changes the count of the files.           *)

\* The sum as the lemmas below use it.
LEMMA Sum == EveryFileIsAccounted <=> Total + Cardinality(InHand) = Min2(nextFile, Len(query.files))
BY DEF EveryFileIsAccounted, Total

\* A step of one thread that counts no file and takes none.
LEMMA KeepsAccount ==
    ASSUME AccountInv, NEW t \in Threads, UNCHANGED <<query, counts, nextFile>>,
           NEW p \in Steps, NEW r, Cursor(r), Step(t, p, r),
           p \in {"claim", "skip", "open", "failing"} => ~r.active,
           (r.active \/ p \in {"skip", "open"}) <=> Holds(t)
    PROVE  AccountInv'
<1>1. /\ Alone(t)
      /\ pc' \in [Threads -> Steps] /\ pc'[t] = p /\ local'[t] = r
      /\ local' = [u \in Threads |-> local'[u]] /\ \A u \in Threads : Cursor(local'[u])
      /\ \A u \in Threads : u # t => pc'[u] = pc[u] /\ local'[u] = local[u]
  BY StepAlone DEF AccountInv
<1>2. Shaped'
  BY <1>1 DEF AccountInv, Shaped
<1>3. Between'
  BY <1>1 DEF AccountInv, Between
<1>4. Holds(t)' <=> Holds(t)
  BY <1>1 DEF Holds
<1>5. Cardinality(InHand') = Cardinality(InHand)
  BY <1>1, <1>4, HandStays
<1>6. EveryFileIsAccounted'
  BY <1>5 DEF AccountInv, EveryFileIsAccounted
<1>7. QED BY <1>2, <1>3, <1>6 DEF AccountInv

\* A file leaves the hands of t and is counted.
LEMMA CountsFile ==
    ASSUME AccountInv, NEW t \in Threads, NEW k \in Kinds, Count(k), UNCHANGED <<query, nextFile>>,
           NEW p \in Steps \ {"skip", "open"}, NEW r, Cursor(r), Step(t, p, r), ~r.active, Holds(t)
    PROVE  AccountInv'
<1>1. /\ Alone(t)
      /\ pc' \in [Threads -> Steps] /\ pc'[t] = p /\ local'[t] = r
      /\ local' = [u \in Threads |-> local'[u]] /\ \A u \in Threads : Cursor(local'[u])
      /\ \A u \in Threads : u # t => pc'[u] = pc[u] /\ local'[u] = local[u]
  BY StepAlone DEF AccountInv
<1>2. counts' \in [Kinds -> Nat] /\ Total' = Total + 1
  BY CountAddsOne DEF AccountInv, Shaped
<1>3. Shaped'
  BY <1>1, <1>2 DEF AccountInv, Shaped
<1>4. Between'
  BY <1>1 DEF AccountInv, Between
<1>5. Cardinality(InHand') = Cardinality(InHand) - 1
  <2>1. ~Holds(t)'
    BY <1>1 DEF Holds
  <2>2. QED BY <1>1, <2>1, HandShrinks
<1>6. EveryFileIsAccounted'
  <2>1. Total \in Nat
    BY DEF AccountInv, Shaped, Total, Kinds
  <2>2. Total + Cardinality(InHand) = Min2(nextFile, Len(query.files))
    BY Sum DEF AccountInv
  <2>3. Total' + Cardinality(InHand') = Min2(nextFile, Len(query.files))
    BY <1>2, <1>5, <2>1, <2>2, HandIsFinite
  <2>4. QED BY <2>3 DEF EveryFileIsAccounted, Total, Min2
<1>7. QED BY <1>3, <1>4, <1>6 DEF AccountInv

-----------------------------------------------------------------------------
(* One lemma for each action that concerns the files.                      *)

LEMMA ReadyKeeps == ASSUME AccountInv, NEW t \in Threads, Ready(t) PROVE AccountInv'
<1>1. Shaped /\ Cursor(local[t]) /\ "ready" \in Steps
  BY DEF AccountInv, Shaped, Steps
<1>2. CASE local[t].active /\ HasWork(t)
  <2>1. Step(t, "fill", local[t])
    BY <1>1, <1>2, GotoStep DEF Ready
  <2>2. Holds(t) /\ "fill" \in Steps
    BY <1>2 DEF Holds, Steps
  <2>3. UNCHANGED <<query, counts, nextFile>>
    BY <1>2 DEF Ready
  <2>4. QED BY <1>1, <1>2, <2>1, <2>2, <2>3, KeepsAccount
<1>3. CASE local[t].active /\ ~HasWork(t)
  <2>1. Step(t, "claim", Idle) /\ Count("completed") /\ UNCHANGED <<query, nextFile>>
    BY <1>3 DEF Ready, Step, Goto
  <2>2. Holds(t) /\ "claim" \in Steps \ {"skip", "open"} /\ "completed" \in Kinds
    BY <1>3 DEF Holds, Steps, Kinds
  <2>3. QED BY <2>1, <2>2, IdleCursor, CountsFile
<1>4. CASE ~local[t].active
  <2>1. Step(t, "claim", local[t])
    BY <1>1, <1>4, GotoStep DEF Ready
  <2>2. ~Holds(t) /\ "claim" \in Steps
    BY <1>4 DEF Holds, Steps, Ready
  <2>3. UNCHANGED <<query, counts, nextFile>>
    BY <1>4 DEF Ready
  <2>4. QED BY <1>1, <1>4, <2>1, <2>2, <2>3, KeepsAccount
<1>5. QED BY <1>2, <1>3, <1>4

\* The claim of a file moves it from the counter into the hands of the thread.
LEMMA ClaimKeeps == ASSUME AccountInv, NEW t \in Threads, Claim(t) PROVE AccountInv'
<1>1. /\ Shaped /\ Cursor(local[t]) /\ Len(query.files) \in Nat /\ nextFile \in Nat
      /\ {"drained", "open", "skip"} \subseteq Steps
  BY FileCount DEF AccountInv, Shaped, Steps
<1>2. ~Holds(t) /\ ~local[t].active
  BY DEF AccountInv, Between, Claim, Holds
<1>3. PICK p \in {"drained", "open", "skip"} :
        /\ Goto(t, p)
        /\ p = "drained" <=> nextFile >= Len(query.files)
  BY DEF Claim
<1>4. Step(t, p, local[t]) /\ p \in Steps
  BY <1>1, <1>3, GotoStep DEF Claim
<1>5. /\ Alone(t)
      /\ pc' \in [Threads -> Steps] /\ pc'[t] = p /\ local'[t] = local[t]
      /\ local' = [u \in Threads |-> local'[u]] /\ \A u \in Threads : Cursor(local'[u])
      /\ \A u \in Threads : u # t => pc'[u] = pc[u] /\ local'[u] = local[u]
  BY <1>1, <1>4, StepAlone
<1>6. Shaped'
  BY <1>1, <1>5 DEF Shaped, Claim
<1>7. Between'
  BY <1>2, <1>5 DEF AccountInv, Between
<1>8. Total \in Nat /\ Total' = Total
  BY DEF AccountInv, Shaped, Total, Kinds, Claim
<1>9. Total + Cardinality(InHand) = Min2(nextFile, Len(query.files))
  BY Sum DEF AccountInv
<1>10. EveryFileIsAccounted'
  <2>1. CASE p = "drained"
    <3>1. Cardinality(InHand') = Cardinality(InHand)
      BY <1>2, <1>5, <2>1, HandStays DEF Holds
    <3>2. Min2(nextFile + 1, Len(query.files)) = Min2(nextFile, Len(query.files))
      BY <1>1, <1>3, <2>1 DEF Min2
    <3>3. QED BY <1>8, <1>9, <3>1, <3>2 DEF EveryFileIsAccounted, Total, Claim, Min2
  <2>2. CASE p # "drained"
    <3>1. Holds(t)'
      BY <1>5, <2>2 DEF Holds
    <3>2. Cardinality(InHand') = Cardinality(InHand) + 1
      BY <1>2, <1>5, <3>1, HandGrows
    <3>3. Min2(nextFile + 1, Len(query.files)) = Min2(nextFile, Len(query.files)) + 1
      BY <1>1, <1>3, <2>2 DEF Min2
    <3>4. Total' + Cardinality(InHand') = Min2(nextFile + 1, Len(query.files))
      BY <1>8, <1>9, <3>2, <3>3, HandIsFinite
    <3>5. QED BY <3>4 DEF EveryFileIsAccounted, Total, Claim, Min2
  <2>3. QED BY <2>1, <2>2
<1>11. QED BY <1>6, <1>7, <1>10 DEF AccountInv

LEMMA SkipKeeps == ASSUME AccountInv, NEW t \in Threads, Skip(t) PROVE AccountInv'
<1>1. Step(t, "claim", local[t]) /\ Cursor(local[t])
  BY GotoStep DEF AccountInv, Skip
<1>2. ~local[t].active /\ Holds(t)
  BY DEF AccountInv, Between, Holds, Skip
<1>3. /\ Count("skipped") /\ UNCHANGED <<query, nextFile>>
      /\ "claim" \in Steps \ {"skip", "open"} /\ "skipped" \in Kinds
  BY DEF Skip, Steps, Kinds
<1>4. QED BY <1>1, <1>2, <1>3, CountsFile

\* The outcomes of opening a file.
LEMMA OpenKeeps ==
    ASSUME AccountInv, NEW t \in Threads,
           OpenSucceeds(t) \/ OpenRetry(t) \/ OpenUnavailable(t) \/ OpenFails(t) \/ RecordFailure(t)
    PROVE  AccountInv'
<1>1. Shaped /\ Cursor(local[t])
  BY DEF AccountInv, Shaped
<1>2. pc[t] \in {"open", "failing"} => ~local[t].active
  BY DEF AccountInv, Between
<1>3. pc[t] = "open" => Holds(t)
  BY DEF Holds
<1>4. CASE OpenSucceeds(t)
  <2> DEFINE r == [Idle EXCEPT !.active = TRUE, !.row = First(Entries(task[t].file)),
                               !.end = End(Entries(task[t].file))]
  <2>1. Cursor(r) /\ r.active
    BY DEF Cursor, Fields, Idle
  <2>2. Step(t, "ready", r) /\ UNCHANGED <<query, counts, nextFile>>
    BY <1>4 DEF OpenSucceeds, Step, Goto, sharedVars
  <2>3. "ready" \in Steps /\ Holds(t)
    BY <1>3, <1>4 DEF Steps, OpenSucceeds
  <2> HIDE DEF r
  <2>4. QED BY <2>1, <2>2, <2>3, KeepsAccount
<1>5. CASE OpenRetry(t)
  BY <1>5 DEF OpenRetry, AccountInv, Shaped, Between, EveryFileIsAccounted, InHand, Cursor, Min2, sharedVars
<1>6. CASE OpenUnavailable(t)
  <2>1. Step(t, "thrown", Idle) /\ Count("unavailable") /\ UNCHANGED <<query, nextFile>>
    BY <1>6 DEF OpenUnavailable, Step, Goto
  <2>2. "thrown" \in Steps \ {"skip", "open"} /\ "unavailable" \in Kinds /\ Holds(t)
    BY <1>3, <1>6 DEF Steps, Kinds, OpenUnavailable
  <2>3. QED BY <2>1, <2>2, IdleCursor, CountsFile
<1>7. CASE OpenFails(t)
  <2>1. Step(t, "failing", local[t]) /\ Count("failed") /\ UNCHANGED <<query, nextFile>>
    BY <1>1, <1>7, GotoStep DEF OpenFails
  <2>2. "failing" \in Steps \ {"skip", "open"} /\ "failed" \in Kinds /\ Holds(t) /\ ~local[t].active
    BY <1>2, <1>3, <1>7 DEF Steps, Kinds, OpenFails
  <2>3. QED BY <1>1, <2>1, <2>2, CountsFile
<1>8. CASE RecordFailure(t)
  <2>1. Step(t, "thrown", Idle) /\ UNCHANGED <<query, counts, nextFile>>
    BY <1>8 DEF RecordFailure, Step, Goto
  <2>2. "thrown" \in Steps /\ ~Holds(t)
    BY <1>2, <1>8 DEF Steps, Holds, RecordFailure
  <2>3. QED BY <2>1, <2>2, IdleCursor, KeepsAccount
<1>9. QED BY <1>4, <1>5, <1>6, <1>7, <1>8

\* A step that only moves on, from p, with the cursor as it is.
LEMMA MovesOn ==
    ASSUME AccountInv, NEW t \in Threads,
           NEW p \in {"ready", "fill", "return", "done", "thrown", "cancelled", "idle"},
           Goto(t, p), local' = local, UNCHANGED <<query, counts, nextFile>>,
           pc[t] \notin {"skip", "open"}
    PROVE  AccountInv'
<1>1. Step(t, p, local[t]) /\ Cursor(local[t]) /\ p \in Steps
  BY GotoStep DEF AccountInv, Steps
<1>2. local[t].active <=> Holds(t)
  BY DEF Holds
<1>3. QED BY <1>1, <1>2, KeepsAccount

\* A step of the loop that fills a chunk.
LEMMA FillKeeps ==
    ASSUME AccountInv, NEW t \in Threads, pc[t] = "fill", pc' = pc,
           NEW r, Cursor(r), r.active <=> local[t].active,
           local' = [local EXCEPT ![t] = r], UNCHANGED <<query, counts, nextFile>>
    PROVE  AccountInv'
<1>1. Step(t, "fill", r) /\ "fill" \in Steps
  BY CursorStep DEF AccountInv
<1>2. r.active <=> Holds(t)
  BY DEF Holds
<1>3. QED BY <1>1, <1>2, KeepsAccount

LEMMA RowsKeep ==
    ASSUME AccountInv, NEW t \in Threads, TakeRow(t) \/ ReadEntry(t) \/ ClaimEntryBatch(t)
    PROVE  AccountInv'
<1>1. Cursor(local[t])
  BY DEF AccountInv, Shaped
<1>2. pc[t] = "fill" /\ pc' = pc /\ UNCHANGED <<query, counts, nextFile>>
  BY DEF TakeRow, ReadEntry, ClaimEntryBatch, sharedVars
<1>3. PICK r : /\ Cursor(r) /\ (r.active <=> local[t].active)
               /\ local' = [local EXCEPT ![t] = r]
  <2>1. CASE TakeRow(t)
    <3> DEFINE r1 == [local[t] EXCEPT !.cached = FALSE, !.elem = 0, !.row = local[t].row + 1]
               r2 == [local[t] EXCEPT !.elem = local[t].elem + 1]
    <3>1. Cursor(r1) /\ r1.active = local[t].active /\ Cursor(r2) /\ r2.active = local[t].active
      BY <1>1 DEF Cursor, Fields
    <3>2. local' = [local EXCEPT ![t] = r1] \/ local' = [local EXCEPT ![t] = r2]
      BY <2>1 DEF TakeRow, AccountInv, Shaped
    <3> HIDE DEF r1, r2
    <3>3. QED BY <3>1, <3>2
  <2>2. CASE ReadEntry(t)
    <3> DEFINE r1 == [local[t] EXCEPT !.row = local[t].row + 1]
               r2 == [local[t] EXCEPT !.cached = TRUE, !.elem = 0]
    <3>1. Cursor(r1) /\ r1.active = local[t].active /\ Cursor(r2) /\ r2.active = local[t].active
      BY <1>1 DEF Cursor, Fields
    <3>2. local' = [local EXCEPT ![t] = IF RowsOf(task[t].file, local[t].row) = 0 THEN r1 ELSE r2]
      BY <2>2 DEF ReadEntry
    <3> HIDE DEF r1, r2
    <3>3. CASE RowsOf(task[t].file, local[t].row) = 0
      BY <3>1, <3>2, <3>3
    <3>4. CASE RowsOf(task[t].file, local[t].row) # 0
      BY <3>1, <3>2, <3>4
    <3>5. QED BY <3>3, <3>4
  <2>3. CASE ClaimEntryBatch(t)
    <3> DEFINE r1 == [local[t] EXCEPT !.row = nextRow, !.end = nextRow']
    <3>1. Cursor(r1) /\ r1.active = local[t].active
      BY <1>1 DEF Cursor, Fields
    <3>2. local' = [local EXCEPT ![t] = r1]
      BY <2>3 DEF ClaimEntryBatch, AccountInv, Shaped
    <3> HIDE DEF r1
    <3>3. QED BY <3>1, <3>2
  <2>4. QED BY <2>1, <2>2, <2>3
<1>4. QED BY <1>2, <1>3, FillKeeps

LEMMA AccountStep == AccountInv /\ [Next]_vars => AccountInv'
<1> SUFFICES ASSUME AccountInv, [Next]_vars PROVE AccountInv'
  OBVIOUS
<1>1. CASE UNCHANGED vars
  BY <1>1 DEF vars, AccountInv, Shaped, Between, EveryFileIsAccounted, InHand, Cursor, Min2, sharedVars
<1>2. ASSUME NEW t \in Threads, Execute(t) \/ Cancel(t) \/ Drained(t) \/ ReadThrows(t) \/ EndChunk(t) \/ Return(t)
      PROVE  AccountInv'
  <2>1. /\ \E p \in {"ready", "fill", "return", "done", "thrown", "cancelled", "idle"} : Goto(t, p)
        /\ local' = local /\ pc[t] \notin {"skip", "open"}
        /\ UNCHANGED <<query, counts, nextFile>>
    BY <1>2 DEF Execute, Cancel, Drained, ReadThrows, EndChunk, Return, sharedVars
  <2>2. QED BY <2>1, MovesOn
<1>3. QED
  BY <1>1, <1>2, ReadyKeeps, ClaimKeeps, SkipKeeps, OpenKeeps, RowsKeep DEF Next, Proceed

-----------------------------------------------------------------------------
(* Theorems.                                                               *)

\* Between any two steps of any threads, every file taken from the counter is in
\* one of the four counters of RootDirectFileScheduler or in one thread's hands.
THEOREM FilesAreAccounted == Spec => []EveryFileIsAccounted
<1>1. AccountInv => EveryFileIsAccounted
  BY DEF AccountInv
<1>2. QED BY <1>1, AccountInit, AccountStep, PTL DEF Spec

\* The sum cannot exceed the number of files: when the counters alone reach it, no
\* file is in anybody's hands.
LEMMA QuietInv == AccountInv => FinishedIsQuiet
<1> SUFFICES ASSUME AccountInv, Finished PROVE InHand = {}
  BY DEF FinishedIsQuiet
<1>1. Total \in Nat /\ Len(query.files) \in Nat /\ nextFile \in Nat
  BY FileCount DEF AccountInv, Shaped, Total, Kinds
<1>2. Total >= Len(query.files)
  BY DEF Finished, Total
<1>3. Total + Cardinality(InHand) <= Len(query.files)
  BY <1>1, Sum, HandIsFinite DEF AccountInv, Min2
<1>4. Cardinality(InHand) = 0
  BY <1>1, <1>2, <1>3, HandIsFinite
<1>5. QED BY <1>4, HandIsFinite, FS_EmptySet

\* AllFilesFinished answers yes only when no thread has a file: the failures a thread
\* then reports are those of the whole scan.
THEOREM FinishedScanIsQuiet == Spec => []FinishedIsQuiet
<1>1. QED BY QuietInv, AccountInit, AccountStep, PTL DEF Spec
-----------------------------------------------------------------------------
(***************************************************************************)
(* The rows.  A row that was claimed, with its file or its batch, is       *)
(* ahead of the cursor of one thread, or it is out: returned once, or at   *)
(* one place of one chunk; unless the filters drop it or a thread failed.  *)
(***************************************************************************)

\* The cursor l has yet to come to the row r of its file.
Ahead(l, r) == l.row <= r[2] /\ r[2] < l.end /\ (l.cached /\ l.row = r[2] => l.elem <= r[3])

\* A thread at step p, with the file k and the cursor l, has yet to come to the row r.
PendingAt(p, k, l, r) ==
    IF IsMultiFile
    THEN /\ k.file = r[1]
         /\ IF l.active THEN Ahead(l, r)
            ELSE p = "open" /\ query.entries[1] <= r[2] /\ r[2] <= query.entries[2]
    ELSE Ahead(l, r)
Pending(t, r) == PendingAt(pc[t], task[t], local[t], r)

Claimed(r) == IF IsMultiFile THEN r[1] < nextFile ELSE r[2] < nextRow

InChunk(t, r) == \E i \in DOMAIN chunk[t] : chunk[t][i] = r
Out(r) == returned[r] # 0 \/ \E t \in Threads : InChunk(t, r)

OutOnce(r) ==
    /\ returned[r] <= 1
    /\ \A t \in Threads : InChunk(t, r) =>
         /\ returned[r] = 0
         /\ \A u \in Threads : InChunk(u, r) => u = t
         /\ \A i, j \in DOMAIN chunk[t] : chunk[t][i] = r /\ chunk[t][j] = r => i = j

Broken == \E t \in Threads : pc[t] \in {"failing", "thrown"}

RowInv(r) ==
    /\ OutOnce(r)
    /\ Out(r) => Claimed(r) /\ r \in Selected
    /\ \A t \in Threads : Pending(t, r) =>
         /\ Claimed(r) /\ ~ Out(r)
         /\ r[3] \in query.keep => r \in Selected
         /\ \A u \in Threads : Pending(u, r) => u = t
    /\ r \in Selected /\ Claimed(r) /\ ~ Out(r) => Broken \/ \E t \in Threads : Pending(t, r)

\* Where a thread can be, and what its cursor then is.
NoMoreEntries == nextRow >= End(Entries(0))
CursorIsIn(l, f) ==
    /\ l.end <= Entries(f)
    /\ l.cached => l.row < l.end /\ l.elem < RowsOf(f, l.row)
Works(l) == l.cached \/ l.row < l.end
ThreadAt(p, k, l, c) ==
    /\ CursorIsIn(l, k.file)
    /\ IsMultiFile /\ ~ l.active => l = Idle
    /\ p \in {"ready", "claim", "skip", "open", "failing", "drained"} => IsMultiFile
    /\ p \notin {"fill", "return", "thrown"} => c = <<>>
    /\ p = "return" /\ c = <<>> => ~ Works(l) /\ (IsMultiFile \/ NoMoreEntries)
    /\ p = "drained" => ~ l.active /\ nextFile >= Len(query.files)
    /\ p = "done" /\ ~ Impossible =>
         ~ Works(l) /\ (IF IsMultiFile THEN nextFile >= Len(query.files) ELSE NoMoreEntries)
    /\ p = "open" => InSources(k.file)
    /\ p = "skip" => ~ InSources(k.file)
ThreadInv(t) == ThreadAt(pc[t], task[t], local[t], chunk[t])

\* The types, without the bounds of the counters.
Tasks   == [file: 0 .. Len(query.files) - 1, attempt: 0 .. Attempts]
Cursors == [active: BOOLEAN, row: Nat, end: Nat, cached: BOOLEAN, elem: Nat]
RowTypes ==
    /\ query \in Queries /\ nextFile \in Nat /\ nextRow \in Nat
    /\ failures \subseteq 0 .. Len(query.files) - 1
    /\ pc \in [Threads -> Steps] /\ task \in [Threads -> Tasks] /\ local \in [Threads -> Cursors]
    /\ chunk \in [Threads -> Seq(AllRows)] /\ \A t \in Threads : Len(chunk[t]) <= Capacity
    /\ returned \in [AllRows -> Nat]

\* The threads that have found no file.
Spent == {t \in Threads : pc[t] \in {"drained", "done", "thrown"}}

RowsInv ==
    /\ RowTypes
    /\ \A t \in Threads : ThreadInv(t)
    /\ \A r \in AllRows : RowInv(r)
    /\ ~ IsMultiFile => nextRow >= First(Entries(0))
    /\ nextFile <= Len(query.files) + Cardinality(Spent)

LEMMA QueryIs ==
    ASSUME query \in Queries
    PROVE  /\ Len(query.files) \in Nat \ {0}
           /\ \A f \in 0 .. Len(query.files) - 1 :
                /\ Entries(f) \in Nat
                /\ \A e \in 0 .. Entries(f) - 1 : RowsOf(f, e) \in Nat
           /\ query.entries[1] \in Nat /\ query.entries[2] \in Nat
           /\ \A n \in Nat : First(n) \in Nat /\ End(n) \in Nat /\ First(n) <= n /\ End(n) <= n
<1>1. query \in QuerySet /\ query.files # <<>>
  BY DirectAssumption
<1>2. query.files \in Seq(Seq(Nat)) /\ query.entries \in Nat \X Nat
  BY <1>1 DEF QuerySet
<1>3. Len(query.files) \in Nat \ {0}
  BY <1>1, <1>2
<1>4. ASSUME NEW f \in 0 .. Len(query.files) - 1
      PROVE  /\ Entries(f) \in Nat
             /\ \A e \in 0 .. Entries(f) - 1 : RowsOf(f, e) \in Nat
  <2>1. f + 1 \in 1 .. Len(query.files)
    BY <1>3
  <2>2. query.files[f + 1] \in Seq(Nat)
    BY <1>2, <2>1
  <2>3. Entries(f) \in Nat
    BY <2>2 DEF Entries
  <2>4. ASSUME NEW e \in 0 .. Entries(f) - 1 PROVE RowsOf(f, e) \in Nat
    <3>1. e + 1 \in 1 .. Len(query.files[f + 1])
      BY <2>3 DEF Entries
    <3>2. QED BY <2>2, <3>1 DEF RowsOf
  <2>5. QED BY <2>3, <2>4
<1>5. query.entries[1] \in Nat /\ query.entries[2] \in Nat
  BY <1>2
<1>6. ASSUME NEW n \in Nat PROVE First(n) \in Nat /\ End(n) \in Nat /\ First(n) <= n /\ End(n) <= n
  BY <1>5 DEF First, End, Min2
<1>7. QED BY <1>3, <1>4, <1>5, <1>6

LEMMA RowIs ==
    ASSUME query \in Queries
    PROVE  /\ \A r \in AllRows :
                /\ r = <<r[1], r[2], r[3]>>
                /\ r[1] \in 0 .. Len(query.files) - 1 /\ r[2] \in 0 .. Entries(r[1]) - 1
                /\ r[3] \in 0 .. RowsOf(r[1], r[2]) - 1
                /\ r[1] \in Nat /\ r[2] \in Nat /\ r[3] \in Nat
           /\ \A f \in 0 .. Len(query.files) - 1 : \A e \in 0 .. Entries(f) - 1 :
                \A i \in 0 .. RowsOf(f, e) - 1 : <<f, e, i>> \in AllRows
<1>1. ASSUME NEW r \in AllRows
      PROVE  /\ r = <<r[1], r[2], r[3]>>
             /\ r[1] \in 0 .. Len(query.files) - 1 /\ r[2] \in 0 .. Entries(r[1]) - 1
             /\ r[3] \in 0 .. RowsOf(r[1], r[2]) - 1
  <2>1. PICK f \in 0 .. Len(query.files) - 1 :
          r \in UNION {{<<f, e, i>> : i \in 0 .. RowsOf(f, e) - 1} : e \in 0 .. Entries(f) - 1}
    BY DEF AllRows
  <2>2. PICK e \in 0 .. Entries(f) - 1 : r \in {<<f, e, i>> : i \in 0 .. RowsOf(f, e) - 1}
    BY <2>1
  <2>3. PICK i \in 0 .. RowsOf(f, e) - 1 : r = <<f, e, i>>
    BY <2>2
  <2>4. QED BY <2>3
<1>2. ASSUME NEW f \in 0 .. Len(query.files) - 1, NEW e \in 0 .. Entries(f) - 1,
             NEW i \in 0 .. RowsOf(f, e) - 1
      PROVE  <<f, e, i>> \in AllRows
  BY DEF AllRows
<1>3. ASSUME NEW r \in AllRows PROVE r[1] \in Nat /\ r[2] \in Nat /\ r[3] \in Nat
  BY <1>1
<1>4. QED BY <1>1, <1>2, <1>3

LEMMA SameQuery ==
    ASSUME query' = query
    PROVE  /\ AllRows' = AllRows /\ Selected' = Selected /\ Tasks' = Tasks
           /\ IsMultiFile' = IsMultiFile /\ Impossible' = Impossible
           /\ \A f \in Nat : Entries(f)' = Entries(f) /\ InSources(f)' = InSources(f)
           /\ Entries(0)' = Entries(0) /\ End(Entries(0))' = End(Entries(0))
           /\ First(Entries(0))' = First(Entries(0))
BY DEF AllRows, Selected, Tasks, IsMultiFile, Impossible, Entries, InSources, RowsOf, End, First, Min2

-----------------------------------------------------------------------------
(***************************************************************************)
(* A step of one thread, t, in general.                                    *)
(***************************************************************************)

\* Its next step is p, its file k, its cursor l and its chunk c.
Moves(t, p, k, l, c) ==
    /\ pc' = [pc EXCEPT ![t] = p] /\ task' = [task EXCEPT ![t] = k]
    /\ local' = [local EXCEPT ![t] = l] /\ chunk' = [chunk EXCEPT ![t] = c]

Others(t) ==
    \A u \in Threads : u # t =>
        pc'[u] = pc[u] /\ task'[u] = task[u] /\ local'[u] = local[u] /\ chunk'[u] = chunk[u]

LEMMA MoveIs ==
    ASSUME RowTypes, NEW t \in Threads, NEW p \in Steps, NEW k \in Tasks, NEW l \in Cursors,
           NEW c \in Seq(AllRows), Len(c) <= Capacity, Moves(t, p, k, l, c),
           query' = query, nextFile' \in Nat, nextRow' \in Nat,
           failures' \subseteq 0 .. Len(query.files) - 1, returned' \in [AllRows -> Nat]
    PROVE  /\ RowTypes' /\ Others(t)
           /\ pc'[t] = p /\ task'[t] = k /\ local'[t] = l /\ chunk'[t] = c
<1>1. pc' \in [Threads -> Steps] /\ pc'[t] = p
  BY DEF RowTypes, Moves
<1>2. task' \in [Threads -> Tasks] /\ task'[t] = k
  BY DEF RowTypes, Moves
<1>3. local' \in [Threads -> Cursors] /\ local'[t] = l
  BY DEF RowTypes, Moves
<1>4. chunk' \in [Threads -> Seq(AllRows)] /\ chunk'[t] = c
  BY DEF RowTypes, Moves
<1>5. Others(t)
  BY DEF RowTypes, Moves, Others
<1>6. \A u \in Threads : Len(chunk'[u]) <= Capacity
  <2> TAKE u \in Threads
  <2>1. CASE u = t
    BY <1>4, <2>1
  <2>2. CASE u # t
    BY <1>5, <2>2 DEF Others, RowTypes
  <2>3. QED BY <2>1, <2>2
<1>7. AllRows' = AllRows /\ Tasks' = Tasks /\ query' \in Queries /\ Cursors' = Cursors
  BY SameQuery DEF RowTypes, Cursors
<1>8. RowTypes'
  BY <1>1, <1>2, <1>3, <1>4, <1>6, <1>7 DEF RowTypes
<1>9. QED BY <1>1, <1>2, <1>3, <1>4, <1>5, <1>8

\* What t is: its values are typed.
LEMMA ThreadIs ==
    ASSUME RowTypes, NEW t \in Threads
    PROVE  /\ pc[t] \in Steps /\ task[t] \in Tasks /\ local[t] \in Cursors
           /\ chunk[t] \in Seq(AllRows) /\ Len(chunk[t]) <= Capacity
           /\ pc = [pc EXCEPT ![t] = pc[t]] /\ task = [task EXCEPT ![t] = task[t]]
           /\ local = [local EXCEPT ![t] = local[t]] /\ chunk = [chunk EXCEPT ![t] = chunk[t]]
           /\ local[t].active \in BOOLEAN /\ local[t].cached \in BOOLEAN
           /\ local[t].row \in Nat /\ local[t].end \in Nat /\ local[t].elem \in Nat
           /\ task[t].file \in 0 .. Len(query.files) - 1 /\ task[t].file \in Nat
           /\ Entries(task[t].file) \in Nat /\ Idle \in Cursors
<1>1. /\ pc[t] \in Steps /\ task[t] \in Tasks /\ local[t] \in Cursors
      /\ chunk[t] \in Seq(AllRows) /\ Len(chunk[t]) <= Capacity
  BY DEF RowTypes
<1>2. /\ pc = [pc EXCEPT ![t] = pc[t]] /\ task = [task EXCEPT ![t] = task[t]]
      /\ local = [local EXCEPT ![t] = local[t]] /\ chunk = [chunk EXCEPT ![t] = chunk[t]]
  BY DEF RowTypes
<1>3. /\ local[t].active \in BOOLEAN /\ local[t].cached \in BOOLEAN
      /\ local[t].row \in Nat /\ local[t].end \in Nat /\ local[t].elem \in Nat
  BY <1>1 DEF Cursors
<1>4. task[t].file \in 0 .. Len(query.files) - 1
  BY <1>1 DEF Tasks
<1>5. Len(query.files) \in Nat /\ Entries(task[t].file) \in Nat
  BY <1>4, QueryIs DEF RowTypes
<1>6. Idle \in Cursors
  BY DEF Idle, Cursors
<1>7. QED BY <1>1, <1>2, <1>3, <1>4, <1>5, <1>6

\* A thread after a step, of its own or of another: the counters only grow.
LEMMA ThreadAfter ==
    ASSUME RowTypes, RowTypes', query' = query, nextFile <= nextFile', nextRow <= nextRow',
           NEW p, NEW k, NEW l, NEW c, ThreadAt(p, k, l, c),
           NEW u \in Threads, pc'[u] = p, task'[u] = k, local'[u] = l, chunk'[u] = c
    PROVE  ThreadInv(u)'
<1>1. Len(query.files) \in Nat /\ Len(query.files) # 0
  <2>1. query \in Queries
    BY DEF RowTypes
  <2>2. QED BY <2>1, QueryIs
<1>2. /\ IsMultiFile' = IsMultiFile /\ Impossible' = Impossible /\ End(Entries(0))' = End(Entries(0))
  BY SameQuery
<1>3. /\ (CursorIsIn(local[u], task[u].file)' <=> CursorIsIn(l, k.file))
      /\ (InSources(task[u].file)' <=> InSources(k.file))
      /\ (Works(local[u])' <=> Works(l))
  BY DEF CursorIsIn, Entries, RowsOf, InSources, Works
<1>4. NoMoreEntries => NoMoreEntries'
  <2>1. 0 \in 0 .. Len(query.files) - 1
    BY <1>1
  <2>2. End(Entries(0)) \in Nat
    BY <2>1, QueryIs DEF RowTypes
  <2>3. QED BY <1>2, <2>2 DEF NoMoreEntries, RowTypes
<1>5. nextFile >= Len(query.files) => nextFile' >= Len(query.files)'
  <2>1. Len(query.files)' = Len(query.files) /\ nextFile \in Nat /\ nextFile' \in Nat
    BY DEF RowTypes
  <2>2. QED BY <1>1, <2>1
<1>6. QED BY <1>2, <1>3, <1>4, <1>5 DEF ThreadInv, ThreadAt

\* A thread that has found no file claims no other.
LEMMA SpentKept ==
    ASSUME RowTypes, NEW t \in Threads, Others(t),
           pc[t] \in {"drained", "done", "thrown"} => pc'[t] \in {"drained", "done", "thrown"}
    PROVE  /\ Cardinality(Spent) \in Nat /\ Cardinality(Spent') \in Nat
           /\ Cardinality(Spent) <= Cardinality(Spent')
           /\ t \in Spent' /\ t \notin Spent => Cardinality(Spent) + 1 <= Cardinality(Spent')
           /\ Cardinality(Spent) <= Cardinality(Threads)
<1>1. Spent \subseteq Threads /\ Spent' \subseteq Threads /\ Spent \subseteq Spent'
  BY DEF Spent, Others
<1>2. IsFiniteSet(Spent) /\ IsFiniteSet(Spent') /\ IsFiniteSet(Threads)
  BY <1>1, DirectAssumption, FS_Subset
<1>3. Cardinality(Spent) \in Nat /\ Cardinality(Spent') \in Nat
  BY <1>2, FS_CardinalityType
<1>4. Cardinality(Spent) <= Cardinality(Spent') /\ Cardinality(Spent) <= Cardinality(Threads)
  BY <1>1, <1>2, FS_Subset
<1>5. ASSUME t \in Spent', t \notin Spent PROVE Cardinality(Spent) + 1 <= Cardinality(Spent')
  <2>1. IsFiniteSet(Spent \cup {t}) /\ Cardinality(Spent \cup {t}) = Cardinality(Spent) + 1
    BY <1>2, <1>5, FS_AddElement
  <2>2. Spent \cup {t} \subseteq Spent'
    BY <1>1, <1>5
  <2>3. Cardinality(Spent \cup {t}) <= Cardinality(Spent')
    BY <1>2, <2>2, FS_Subset
  <2>4. QED BY <2>1, <2>3
<1>6. QED BY <1>3, <1>4, <1>5

LEMMA PendingAfter ==
    ASSUME query' = query, NEW r, NEW p, NEW k, NEW l,
           NEW u \in Threads, pc'[u] = p, task'[u] = k, local'[u] = l
    PROVE  Pending(u, r)' <=> PendingAt(p, k, l, r)
BY DEF Pending, PendingAt, Ahead, IsMultiFile

\* What another thread has ahead, it keeps.
LEMMA OthersPending ==
    ASSUME query' = query, NEW t \in Threads, Others(t), NEW r
    PROVE  \A u \in Threads : u # t => (Pending(u, r)' <=> Pending(u, r))
BY DEF Others, Pending, PendingAt, Ahead, IsMultiFile

\* The places of r in the chunk c.
Places(c, r) == {i \in DOMAIN c : c[i] = r}

\* A row that the step neither returns nor puts into a chunk.
LEMMA RowStays ==
    ASSUME query' = query, NEW t \in Threads, Others(t), NEW r \in AllRows, RowInv(r),
           returned'[r] = returned[r], Places(chunk'[t], r) = Places(chunk[t], r),
           Claimed(r)' <=> Claimed(r), Pending(t, r)' => Pending(t, r),
           Broken' \/ (Pending(t, r) /\ r \in Selected => Pending(t, r)'), Broken => Broken'
    PROVE  RowInv(r)'
<1>1. \A u \in Threads : u # t => chunk'[u] = chunk[u]
  BY DEF Others
<1>2. ASSUME NEW u \in Threads PROVE Places(chunk'[u], r) = Places(chunk[u], r)
  <2>1. CASE u = t
    BY <2>1
  <2>2. CASE u # t
    BY <1>1, <2>2
  <2>3. QED BY <2>1, <2>2
<1>3. ASSUME NEW u \in Threads
      PROVE  /\ InChunk(u, r)' <=> InChunk(u, r)
             /\ \A i : (i \in DOMAIN chunk'[u] /\ chunk'[u][i] = r) <=> (i \in DOMAIN chunk[u] /\ chunk[u][i] = r)
  BY <1>2 DEF Places, InChunk
<1>4. Out(r)' <=> Out(r)
  BY <1>3 DEF Out
<1>5. OutOnce(r)'
  <2>1. OutOnce(r)
    BY DEF RowInv
  <2>2. returned'[r] <= 1
    BY <2>1 DEF OutOnce
  <2>3. ASSUME NEW u \in Threads, InChunk(u, r)'
        PROVE  /\ returned'[r] = 0
               /\ \A v \in Threads : InChunk(v, r)' => v = u
               /\ \A i, j \in DOMAIN chunk'[u] : chunk'[u][i] = r /\ chunk'[u][j] = r => i = j
    BY <1>3, <2>1, <2>3 DEF OutOnce
  <2>4. QED BY <2>2, <2>3 DEF OutOnce
<1>6. \A u \in Threads : u # t => (Pending(u, r)' <=> Pending(u, r))
  BY OthersPending
<1>7. Selected' = Selected
  BY SameQuery
<1>8. QED BY <1>4, <1>5, <1>6, <1>7 DEF RowInv

\* A row that t claims with its step: it was nowhere, and is ahead of t alone.
LEMMA RowClaimed ==
    ASSUME query' = query, NEW t \in Threads, Others(t), NEW r \in AllRows, RowInv(r),
           returned'[r] = returned[r], chunk'[t] = chunk[t], ~ Claimed(r), Claimed(r)',
           Pending(t, r)' /\ r[3] \in query.keep => r \in Selected,
           r \in Selected => Pending(t, r)'
    PROVE  RowInv(r)'
<1>1. \A u \in Threads : chunk'[u] = chunk[u]
  BY DEF Others
<1>2. \A u \in Threads : InChunk(u, r)' <=> InChunk(u, r)
  BY <1>1 DEF InChunk
<1>3. ~ Out(r) /\ (Out(r)' <=> Out(r))
  BY <1>2 DEF Out, RowInv
<1>4. OutOnce(r)'
  BY <1>1, <1>2 DEF RowInv, OutOnce
<1>5. \A u \in Threads : u # t => ~ Pending(u, r)'
  BY OthersPending DEF RowInv
<1>6. Selected' = Selected
  BY SameQuery
<1>7. QED BY <1>3, <1>4, <1>5, <1>6 DEF RowInv

LEMMA BrokenStays ==
    ASSUME RowTypes, NEW t \in Threads, Others(t),
           pc[t] \in {"failing", "thrown"} => pc'[t] \in {"failing", "thrown"}
    PROVE  Broken => Broken'
BY DEF Broken, Others

\* A step of t that changes neither a chunk nor a counter of claims, after which t has
\* the same rows ahead of it, or has failed.
LEMMA QuietStep ==
    ASSUME RowsInv, NEW t \in Threads, NEW p \in Steps, NEW k \in Tasks, NEW l \in Cursors,
           Moves(t, p, k, l, chunk[t]), query' = query, nextFile' = nextFile, nextRow' = nextRow,
           returned' = returned, failures' \subseteq 0 .. Len(query.files) - 1,
           ThreadAt(p, k, l, chunk[t]),
           pc[t] \in {"drained", "done", "thrown"} => p \in {"drained", "done", "thrown"},
           pc[t] \in {"failing", "thrown"} => p \in {"failing", "thrown"},
           \A r \in AllRows : PendingAt(p, k, l, r) => Pending(t, r),
           p \in {"failing", "thrown"} \/ \A r \in AllRows : Pending(t, r) => PendingAt(p, k, l, r)
    PROVE  RowsInv'
<1>1. RowTypes /\ chunk[t] \in Seq(AllRows) /\ Len(chunk[t]) <= Capacity
  BY ThreadIs DEF RowsInv
<1>2. /\ nextFile \in Nat /\ nextRow \in Nat /\ nextFile' \in Nat /\ nextRow' \in Nat
      /\ returned' \in [AllRows -> Nat]
  BY <1>1 DEF RowTypes
<1>3. /\ RowTypes' /\ Others(t)
      /\ pc'[t] = p /\ task'[t] = k /\ local'[t] = l /\ chunk'[t] = chunk[t]
  BY <1>1, <1>2, MoveIs
<1>4. nextFile <= nextFile' /\ nextRow <= nextRow'
  BY <1>2
<1>5. ASSUME NEW u \in Threads PROVE ThreadInv(u)'
  <2>1. CASE u = t
    BY <1>1, <1>3, <1>4, <2>1, ThreadAfter
  <2>2. CASE u # t
    <3>1. /\ pc'[u] = pc[u] /\ task'[u] = task[u] /\ local'[u] = local[u] /\ chunk'[u] = chunk[u]
          /\ ThreadAt(pc[u], task[u], local[u], chunk[u])
      BY <1>3, <2>2 DEF Others, RowsInv, ThreadInv
    <3>2. QED BY <1>1, <1>3, <1>4, <3>1, ThreadAfter
  <2>3. QED BY <2>1, <2>2
<1>6. ASSUME NEW r \in AllRows PROVE RowInv(r)'
  <2>1. Pending(t, r)' <=> PendingAt(p, k, l, r)
    BY <1>3, PendingAfter
  <2>2. Claimed(r)' <=> Claimed(r)
    BY SameQuery DEF Claimed
  <2>3. Broken => Broken'
    BY <1>1, <1>3, BrokenStays
  <2>4. p \in {"failing", "thrown"} => Broken'
    BY <1>3 DEF Broken
  <2>5. RowInv(r) /\ returned'[r] = returned[r]
    BY DEF RowsInv
  <2>6. QED BY <1>3, <2>1, <2>2, <2>3, <2>4, <2>5, RowStays
<1>7. nextFile' <= Len(query'.files) + Cardinality(Spent')
  <2>1. /\ Cardinality(Spent) \in Nat /\ Cardinality(Spent') \in Nat
        /\ Cardinality(Spent) <= Cardinality(Spent')
    BY <1>1, <1>3, SpentKept
  <2>2. nextFile <= Len(query.files) + Cardinality(Spent) /\ query \in Queries
    BY <1>1 DEF RowsInv, RowTypes
  <2>3. Len(query.files) \in Nat
    BY <2>2, QueryIs
  <2>4. QED BY <1>2, <2>1, <2>2, <2>3
<1>8. (~ IsMultiFile => nextRow >= First(Entries(0)))'
  BY SameQuery DEF RowsInv
<1>9. AllRows' = AllRows
  BY SameQuery
<1>10. QED BY <1>3, <1>5, <1>6, <1>7, <1>8, <1>9 DEF RowsInv

\* A step of t that only moves on.
LEMMA WalkStep ==
    ASSUME RowsInv, NEW t \in Threads, NEW p \in Steps, pc[t] # "open", p # "open",
           Goto(t, p), UNCHANGED <<query, nextFile, nextRow, task, local, chunk, returned>>,
           failures' \subseteq 0 .. Len(query.files) - 1,
           ThreadAt(p, task[t], local[t], chunk[t]),
           pc[t] \in {"drained", "done", "thrown"} => p \in {"drained", "done", "thrown"},
           pc[t] \in {"failing", "thrown"} => p \in {"failing", "thrown"}
    PROVE  RowsInv'
<1>1. /\ task[t] \in Tasks /\ local[t] \in Cursors
      /\ task = [task EXCEPT ![t] = task[t]]
      /\ local = [local EXCEPT ![t] = local[t]] /\ chunk = [chunk EXCEPT ![t] = chunk[t]]
  BY ThreadIs DEF RowsInv
<1>2. Moves(t, p, task[t], local[t], chunk[t])
  BY <1>1 DEF Moves, Goto
<1>3. \A r \in AllRows : PendingAt(p, task[t], local[t], r) <=> Pending(t, r)
  BY DEF PendingAt, Pending
<1>4. QED BY <1>1, <1>2, <1>3, QuietStep

LEMMA ExecuteRows == ASSUME RowsInv, NEW t \in Threads, Execute(t) PROVE RowsInv'
<1>1. pc[t] = "idle" /\ ThreadInv(t) /\ RowTypes
  BY DEF Execute, RowsInv
<1>2. chunk[t] = <<>> /\ chunk' = chunk
  BY <1>1, ThreadIs DEF ThreadInv, ThreadAt, Execute
<1>3. PICK p \in {"done", "ready", "fill"} :
        Goto(t, p) /\ (p = "done" => Impossible) /\ (p = "ready" => IsMultiFile)
  BY DEF Execute
<1>4. p \in Steps /\ ThreadAt(p, task[t], local[t], chunk[t])
  BY <1>1, <1>2, <1>3 DEF ThreadInv, ThreadAt, Steps
<1>5. /\ UNCHANGED <<query, nextFile, nextRow, task, local, chunk, returned>>
      /\ failures' \subseteq 0 .. Len(query.files) - 1
  BY <1>1, <1>2 DEF Execute, sharedVars, RowTypes
<1>6. QED BY <1>1, <1>3, <1>4, <1>5, WalkStep

LEMMA WalkRows ==
    ASSUME RowsInv, NEW t \in Threads,
           Cancel(t) \/ Skip(t) \/ Drained(t) \/ ReadThrows(t) \/ EndChunk(t)
    PROVE  RowsInv'
<1>1. /\ UNCHANGED <<query, nextFile, nextRow, task, local, chunk, returned>>
      /\ failures' \subseteq 0 .. Len(query.files) - 1 /\ ThreadInv(t) /\ RowTypes
  BY DEF Cancel, Skip, Drained, ReadThrows, EndChunk, sharedVars, RowsInv, RowTypes
<1>2. CASE Cancel(t)
  <2>1. pc[t] = "idle" /\ Goto(t, "cancelled") /\ "cancelled" \in Steps
    BY <1>2 DEF Cancel, Steps
  <2>2. ThreadAt("cancelled", task[t], local[t], chunk[t])
    BY <1>1, <2>1 DEF ThreadInv, ThreadAt
  <2>3. QED BY <1>1, <2>1, <2>2, WalkStep
<1>3. CASE Skip(t)
  <2>1. pc[t] = "skip" /\ Goto(t, "claim") /\ "claim" \in Steps
    BY <1>3 DEF Skip, Steps
  <2>2. ThreadAt("claim", task[t], local[t], chunk[t])
    BY <1>1, <2>1 DEF ThreadInv, ThreadAt
  <2>3. QED BY <1>1, <2>1, <2>2, WalkStep
<1>4. CASE Drained(t)
  <2>1. PICK p \in {"thrown", "done"} : Goto(t, p)
    BY <1>4 DEF Drained
  <2>2. pc[t] = "drained" /\ p \in Steps
    BY <1>4 DEF Drained, Steps
  <2>3. ~ Works(Idle)
    BY DEF Works, Idle
  <2>4. ThreadAt(p, task[t], local[t], chunk[t])
    BY <1>1, <2>2, <2>3 DEF ThreadInv, ThreadAt
  <2>5. QED BY <1>1, <2>1, <2>2, <2>4, WalkStep
<1>5. CASE ReadThrows(t)
  <2>1. pc[t] = "fill" /\ Goto(t, "thrown") /\ "thrown" \in Steps
    BY <1>5 DEF ReadThrows, Steps
  <2>2. ThreadAt("thrown", task[t], local[t], chunk[t])
    BY <1>1, <2>1 DEF ThreadInv, ThreadAt
  <2>3. QED BY <1>1, <2>1, <2>2, WalkStep
<1>6. CASE EndChunk(t)
  <2>1. /\ pc[t] = "fill" /\ Goto(t, "return") /\ "return" \in Steps
        /\ Full(t) \/ (~ HasWork(t) /\ (IsMultiFile \/ NoMoreEntries))
    BY <1>6 DEF EndChunk, Steps, NoMoreEntries
  <2>2. chunk[t] = <<>> => ~ Full(t)
    BY DirectAssumption DEF Full
  <2>3. HasWork(t) <=> Works(local[t])
    BY DEF HasWork, Works
  <2>4. ThreadAt("return", task[t], local[t], chunk[t])
    BY <1>1, <2>1, <2>2, <2>3 DEF ThreadInv, ThreadAt
  <2>5. QED BY <1>1, <2>1, <2>4, WalkStep
<1>7. QED BY <1>2, <1>3, <1>4, <1>5, <1>6

\* The end of a file: no row of it was left.
LEMMA ReadyRows == ASSUME RowsInv, NEW t \in Threads, Ready(t) PROVE RowsInv'
<1>1. /\ UNCHANGED <<query, nextFile, nextRow, task, chunk, returned>> /\ pc[t] = "ready"
      /\ failures' \subseteq 0 .. Len(query.files) - 1 /\ ThreadInv(t) /\ RowTypes
      /\ "fill" \in Steps /\ "claim" \in Steps
  BY DEF Ready, RowsInv, RowTypes, Steps
<1>2. CASE local' = local
  <2>1. PICK p \in {"fill", "claim"} : Goto(t, p)
    BY <1>2 DEF Ready
  <2>2. ThreadAt(p, task[t], local[t], chunk[t])
    BY <1>1, <2>1 DEF ThreadInv, ThreadAt
  <2>3. QED BY <1>1, <1>2, <2>1, <2>2, WalkStep
<1>3. CASE local[t].active /\ ~HasWork(t) /\ local' = [local EXCEPT ![t] = Idle] /\ Goto(t, "claim")
  <2>1. /\ task[t] \in Tasks /\ Idle \in Cursors
        /\ task = [task EXCEPT ![t] = task[t]] /\ chunk = [chunk EXCEPT ![t] = chunk[t]]
        /\ local[t].row \in Nat /\ local[t].end \in Nat /\ Entries(task[t].file) \in Nat
    BY <1>1, ThreadIs
  <2>2. Moves(t, "claim", task[t], Idle, chunk[t])
    BY <1>1, <1>3, <2>1 DEF Moves, Goto
  <2>3. ThreadAt("claim", task[t], Idle, chunk[t])
    BY <1>1, <2>1 DEF ThreadInv, ThreadAt, CursorIsIn, Idle
  <2>4. IsMultiFile /\ ~ Idle.active
    BY <1>1 DEF ThreadInv, ThreadAt, Idle
  <2>5. ASSUME NEW r \in AllRows PROVE ~ PendingAt("claim", task[t], Idle, r) /\ ~ Pending(t, r)
    <3>1. ~ PendingAt("claim", task[t], Idle, r)
      BY <2>4 DEF PendingAt
    <3>2. ~ Ahead(local[t], r)
      <4>1. r[2] \in Nat
        BY <1>1, RowIs DEF RowTypes
      <4>2. QED BY <1>3, <2>1, <4>1 DEF Ahead, HasWork
    <3>3. QED BY <1>3, <2>4, <3>1, <3>2 DEF Pending, PendingAt
  <2>6. QED BY <1>1, <2>1, <2>2, <2>3, <2>5, QuietStep
<1>4. QED BY <1>2, <1>3 DEF Ready

LEMMA OpenedCursor ==
    ASSUME NEW a \in Nat, NEW b \in Nat, NEW l,
           l = [Idle EXCEPT !.active = TRUE, !.row = a, !.end = b]
    PROVE  l.active = TRUE /\ l.row = a /\ l.end = b /\ l.cached = FALSE /\ l \in Cursors
<1>1. l.row = a /\ l.end = b /\ l.elem = 0
  BY DEF Idle
<1>2. l.active = TRUE
  BY DEF Idle
<1>3. l.cached = FALSE
  BY DEF Idle
<1>4. l \in Cursors
  BY DEF Idle, Cursors
<1>5. QED BY <1>1, <1>2, <1>3, <1>4

\* The outcomes of opening a file: the cursor is put before the entries of the range.
LEMMA OpenedRows ==
    ASSUME RowsInv, NEW t \in Threads, ~ local[t].active, OpenSucceeds(t)
    PROVE  RowsInv'
<1> DEFINE l == [Idle EXCEPT !.active = TRUE, !.row = First(Entries(task[t].file)),
                             !.end = End(Entries(task[t].file))]
           n == Entries(task[t].file)
<1>1. /\ RowTypes /\ ThreadInv(t) /\ query \in Queries
      /\ task[t] \in Tasks /\ task = [task EXCEPT ![t] = task[t]]
      /\ chunk = [chunk EXCEPT ![t] = chunk[t]] /\ n \in Nat
  <2>1. RowTypes /\ ThreadInv(t)
    BY DEF RowsInv
  <2>2. QED BY <2>1, ThreadIs DEF RowTypes
<1>2. /\ First(n) \in Nat /\ End(n) \in Nat /\ End(n) <= n
      /\ query.entries[1] \in Nat /\ query.entries[2] \in Nat
  BY <1>1, QueryIs
<1>4. /\ l.active = TRUE /\ l.row = First(n) /\ l.end = End(n) /\ l.cached = FALSE
      /\ l \in Cursors
  BY <1>2, OpenedCursor
<1>5. pc[t] = "open" /\ pc' = [pc EXCEPT ![t] = "ready"] /\ local' = [local EXCEPT ![t] = l]
  BY DEF OpenSucceeds, Goto
<1>6. /\ UNCHANGED <<query, nextFile, nextRow, task, chunk, returned>>
      /\ failures' \subseteq 0 .. Len(query.files) - 1 /\ "ready" \in Steps
  BY <1>1 DEF OpenSucceeds, sharedVars, RowTypes, Steps
<1> HIDE DEF l
<1>7. Moves(t, "ready", task[t], l, chunk[t])
  BY <1>1, <1>5, <1>6 DEF Moves
<1>8. ThreadAt("ready", task[t], l, chunk[t])
  BY <1>1, <1>2, <1>4, <1>5 DEF ThreadInv, ThreadAt, CursorIsIn
<1>9. ASSUME NEW r \in AllRows
      PROVE  PendingAt("ready", task[t], l, r) <=> Pending(t, r)
  <2>1. IsMultiFile
    BY <1>1, <1>5 DEF ThreadInv, ThreadAt
  <2>2. CASE task[t].file = r[1]
    <3>1. r[2] \in Nat /\ r[2] < n
      BY <1>1, <2>2, RowIs
    <3>2. Ahead(l, r) <=> query.entries[1] <= r[2] /\ r[2] <= query.entries[2]
      BY <1>1, <1>2, <1>4, <3>1 DEF Ahead, First, End, Min2
    <3>3. QED BY <1>4, <1>5, <2>1, <2>2, <3>2 DEF Pending, PendingAt
  <2>3. CASE task[t].file # r[1]
    BY <2>1, <2>3 DEF Pending, PendingAt
  <2>4. QED BY <2>2, <2>3
<1>10. QED BY <1>1, <1>4, <1>5, <1>6, <1>7, <1>8, <1>9, QuietStep

LEMMA RetriedRows == ASSUME RowsInv, NEW t \in Threads, OpenRetry(t) PROVE RowsInv'
<1> DEFINE k == [file |-> task[t].file, attempt |-> task[t].attempt + 1]
<1>1. /\ RowTypes /\ ThreadInv(t)
      /\ local[t] \in Cursors /\ local = [local EXCEPT ![t] = local[t]] /\ task[t] \in Tasks
      /\ pc = [pc EXCEPT ![t] = pc[t]] /\ chunk = [chunk EXCEPT ![t] = chunk[t]]
  BY ThreadIs DEF RowsInv
<1>2. pc[t] = "open" /\ task[t].attempt < Attempts /\ "open" \in Steps
  BY DEF OpenRetry, Steps
<1>3. k \in Tasks /\ k = [task[t] EXCEPT !.attempt = @ + 1] /\ k.file = task[t].file
  BY <1>1, <1>2, DirectAssumption DEF Tasks
<1>4. task' = [task EXCEPT ![t] = k]
  BY <1>1, <1>3 DEF OpenRetry
<1>5. /\ UNCHANGED <<query, nextFile, nextRow, pc, local, chunk, returned>>
      /\ failures' \subseteq 0 .. Len(query.files) - 1
  BY <1>1 DEF OpenRetry, sharedVars, RowTypes
<1> HIDE DEF k
<1>6. Moves(t, "open", k, local[t], chunk[t])
  BY <1>1, <1>2, <1>4, <1>5 DEF Moves
<1>7. ThreadAt("open", k, local[t], chunk[t])
  BY <1>1, <1>2, <1>3 DEF ThreadInv, ThreadAt
<1>8. \A r \in AllRows : PendingAt("open", k, local[t], r) <=> Pending(t, r)
  BY <1>2, <1>3 DEF Pending, PendingAt
<1>9. QED BY <1>1, <1>2, <1>3, <1>5, <1>6, <1>7, <1>8, QuietStep

\* The file is given up: the scan is broken, and nobody has its rows ahead.
LEMMA GivenUpRows ==
    ASSUME RowsInv, NEW t \in Threads, ~ local[t].active,
           OpenUnavailable(t) \/ OpenFails(t) \/ RecordFailure(t)
    PROVE  RowsInv'
<1>1. /\ RowTypes /\ ThreadInv(t)
      /\ local[t] \in Cursors /\ local = [local EXCEPT ![t] = local[t]]
      /\ task[t] \in Tasks /\ task = [task EXCEPT ![t] = task[t]] /\ Idle \in Cursors
      /\ chunk = [chunk EXCEPT ![t] = chunk[t]] /\ task[t].file \in 0 .. Len(query.files) - 1
  BY ThreadIs DEF RowsInv
<1>2. IsMultiFile /\ local[t] = Idle
  BY <1>1 DEF ThreadInv, ThreadAt, OpenUnavailable, OpenFails, RecordFailure
<1>3. PICK p \in {"thrown", "failing"} :
        Goto(t, p) /\ p \in Steps /\ (p = "failing" => chunk[t] = <<>>)
  BY <1>1 DEF OpenUnavailable, OpenFails, RecordFailure, Steps, ThreadInv, ThreadAt
<1>4. local' = [local EXCEPT ![t] = Idle]
  BY <1>1, <1>2 DEF OpenUnavailable, OpenFails, RecordFailure
<1>5. UNCHANGED <<query, nextFile, nextRow, task, chunk, returned>> /\ pc[t] \in {"open", "failing"}
  BY DEF OpenUnavailable, OpenFails, RecordFailure
<1>6. failures' \subseteq 0 .. Len(query.files) - 1
  BY <1>1 DEF OpenUnavailable, OpenFails, RecordFailure, RowTypes
<1>7. Moves(t, p, task[t], Idle, chunk[t])
  BY <1>1, <1>3, <1>4, <1>5 DEF Moves, Goto
<1>8. ThreadAt(p, task[t], Idle, chunk[t])
  BY <1>1, <1>2, <1>3 DEF ThreadInv, ThreadAt
<1>9. ~ Idle.active
  BY DEF Idle
<1>10. \A r \in AllRows : ~ PendingAt(p, task[t], Idle, r)
  BY <1>2, <1>3, <1>9 DEF PendingAt
<1>11. QED BY <1>1, <1>3, <1>5, <1>6, <1>7, <1>8, <1>10, QuietStep

\* An entry without rows is passed over; the cursor is before the first row of another.
LEMMA ReadRows == ASSUME RowsInv, NEW t \in Threads, ReadEntry(t) PROVE RowsInv'
<1> DEFINE over == [local[t] EXCEPT !.row = local[t].row + 1]
           into == [local[t] EXCEPT !.cached = TRUE, !.elem = 0]
<1>1. /\ RowTypes /\ ThreadInv(t) /\ query \in Queries
      /\ local[t] \in Cursors /\ task[t] \in Tasks /\ task = [task EXCEPT ![t] = task[t]]
      /\ pc = [pc EXCEPT ![t] = pc[t]] /\ chunk = [chunk EXCEPT ![t] = chunk[t]]
      /\ task[t].file \in 0 .. Len(query.files) - 1
      /\ local[t].row \in Nat /\ local[t].end \in Nat /\ Entries(task[t].file) \in Nat
  <2>1. RowTypes /\ ThreadInv(t)
    BY DEF RowsInv
  <2>2. QED BY <2>1, ThreadIs DEF RowTypes
<1>2. pc[t] = "fill" /\ ~ local[t].cached /\ local[t].row < local[t].end /\ "fill" \in Steps
  BY DEF ReadEntry, Steps
<1>3. /\ UNCHANGED <<query, nextFile, nextRow, pc, task, chunk, returned>>
      /\ failures' \subseteq 0 .. Len(query.files) - 1
  BY <1>1 DEF ReadEntry, sharedVars, RowTypes
<1>4. local[t].end <= Entries(task[t].file)
  BY <1>1 DEF ThreadInv, ThreadAt, CursorIsIn
<1>5. RowsOf(task[t].file, local[t].row) \in Nat
  BY <1>1, <1>2, <1>4, QueryIs
<1>6. CASE RowsOf(task[t].file, local[t].row) = 0
  <2>1. local' = [local EXCEPT ![t] = over]
    BY <1>6 DEF ReadEntry
  <2>2. /\ over.active = local[t].active /\ over.row = local[t].row + 1 /\ over.end = local[t].end
        /\ over.cached = local[t].cached /\ over \in Cursors
    BY <1>1 DEF Cursors
  <2> HIDE DEF over
  <2>3. Moves(t, "fill", task[t], over, chunk[t])
    BY <1>1, <1>2, <1>3, <2>1 DEF Moves
  <2>4. Idle.row = 0 /\ Idle.end = 0
    BY DEF Idle
  <2>5. IsMultiFile => local[t].active
    BY <1>1, <1>2, <2>4 DEF ThreadInv, ThreadAt
  <2>6. ThreadAt("fill", task[t], over, chunk[t])
    BY <1>1, <1>2, <2>2, <2>5 DEF ThreadInv, ThreadAt, CursorIsIn
  <2>7. ASSUME NEW r \in AllRows
        PROVE  PendingAt("fill", task[t], over, r) <=> Pending(t, r)
    <3>1. CASE task[t].file = r[1]
      <4>1. r[2] \in Nat /\ r[3] \in 0 .. RowsOf(r[1], r[2]) - 1
        BY <1>1, RowIs
      <4>2. r[2] # local[t].row
        BY <1>6, <3>1, <4>1
      <4>3. Ahead(over, r) <=> Ahead(local[t], r)
        BY <1>1, <1>2, <2>2, <4>1, <4>2 DEF Ahead
      <4>4. QED BY <1>2, <2>2, <2>5, <4>3 DEF Pending, PendingAt
    <3>2. CASE task[t].file # r[1]
      <4>1. CASE IsMultiFile
        BY <3>2, <4>1 DEF Pending, PendingAt
      <4>2. CASE ~ IsMultiFile
        <5>1. task[t].file = 0 /\ r[1] = 0
          BY <1>1, <4>2, RowIs, QueryIs DEF IsMultiFile
        <5>2. QED BY <3>2, <5>1
      <4>3. QED BY <4>1, <4>2
    <3>3. QED BY <3>1, <3>2
  <2>8. QED BY <1>1, <1>2, <1>3, <2>2, <2>3, <2>6, <2>7, QuietStep
<1>7. CASE RowsOf(task[t].file, local[t].row) # 0
  <2>1. local' = [local EXCEPT ![t] = into]
    BY <1>7 DEF ReadEntry
  <2>2. /\ into.active = local[t].active /\ into.row = local[t].row /\ into.end = local[t].end
        /\ into.cached = TRUE /\ into.elem = 0 /\ into \in Cursors
    BY <1>1 DEF Cursors
  <2> HIDE DEF into
  <2>3. Moves(t, "fill", task[t], into, chunk[t])
    BY <1>1, <1>2, <1>3, <2>1 DEF Moves
  <2>4. Idle.row = 0 /\ Idle.end = 0
    BY DEF Idle
  <2>5. IsMultiFile => local[t].active
    BY <1>1, <1>2, <2>4 DEF ThreadInv, ThreadAt
  <2>6. ThreadAt("fill", task[t], into, chunk[t])
    BY <1>1, <1>2, <1>5, <1>7, <2>2, <2>5 DEF ThreadInv, ThreadAt, CursorIsIn
  <2>7. ASSUME NEW r \in AllRows
        PROVE  PendingAt("fill", task[t], into, r) <=> Pending(t, r)
    <3>1. r[3] \in Nat
      BY <1>1, RowIs
    <3>2. Ahead(into, r) <=> Ahead(local[t], r)
      BY <1>2, <2>2, <3>1 DEF Ahead
    <3>3. QED BY <1>2, <2>2, <2>5, <3>2 DEF Pending, PendingAt
  <2>8. QED BY <1>1, <1>2, <1>3, <2>2, <2>3, <2>6, <2>7, QuietStep
<1>8. QED BY <1>6, <1>7

-----------------------------------------------------------------------------
(* The steps that claim a file or a batch, take a row or return a chunk.   *)

\* A step of t in general, when the rows are as they should be after it.
LEMMA MoveStep ==
    ASSUME RowsInv, NEW t \in Threads, NEW p \in Steps, NEW k \in Tasks, NEW l \in Cursors,
           NEW c \in Seq(AllRows), Len(c) <= Capacity, Moves(t, p, k, l, c), query' = query,
           nextFile' \in Nat, nextFile <= nextFile', nextRow' \in Nat, nextRow <= nextRow',
           returned' \in [AllRows -> Nat], failures' = failures, ThreadAt(p, k, l, c),
           pc[t] \in {"drained", "done", "thrown"} => p \in {"drained", "done", "thrown"},
           \/ nextFile' = nextFile
           \/ nextFile' <= Len(query.files)
           \/ nextFile' = nextFile + 1 /\ t \notin Spent /\ p = "drained",
           Others(t) => \A r \in AllRows : RowInv(r)'
    PROVE  RowsInv'
<1>1. /\ RowTypes /\ query \in Queries /\ failures' \subseteq 0 .. Len(query.files) - 1
      /\ nextFile \in Nat /\ nextRow \in Nat
  BY DEF RowsInv, RowTypes
<1>2. /\ RowTypes' /\ Others(t)
      /\ pc'[t] = p /\ task'[t] = k /\ local'[t] = l /\ chunk'[t] = c
  BY <1>1, MoveIs
<1>3. ASSUME NEW u \in Threads PROVE ThreadInv(u)'
  <2>1. CASE u = t
    BY <1>1, <1>2, <2>1, ThreadAfter
  <2>2. CASE u # t
    <3>1. /\ pc'[u] = pc[u] /\ task'[u] = task[u] /\ local'[u] = local[u] /\ chunk'[u] = chunk[u]
          /\ ThreadAt(pc[u], task[u], local[u], chunk[u])
      BY <1>2, <2>2 DEF Others, RowsInv, ThreadInv
    <3>2. QED BY <1>1, <1>2, <3>1, ThreadAfter
  <2>3. QED BY <2>1, <2>2
<1>4. nextFile' <= Len(query'.files) + Cardinality(Spent')
  <2>1. /\ Cardinality(Spent) \in Nat /\ Cardinality(Spent') \in Nat
        /\ Cardinality(Spent) <= Cardinality(Spent')
        /\ t \in Spent' /\ t \notin Spent => Cardinality(Spent) + 1 <= Cardinality(Spent')
    BY <1>1, <1>2, SpentKept
  <2>2. nextFile <= Len(query.files) + Cardinality(Spent)
    BY DEF RowsInv
  <2>3. Len(query.files) \in Nat
    BY <1>1, QueryIs
  <2>4. p = "drained" => t \in Spent'
    BY <1>2 DEF Spent
  <2>5. QED BY <1>1, <2>1, <2>2, <2>3, <2>4
<1>5. (~ IsMultiFile => nextRow >= First(Entries(0)))'
  <2>1. Len(query.files) \in Nat \ {0}
    BY <1>1, QueryIs
  <2>2. First(Entries(0)) \in Nat
    <3>1. 0 \in 0 .. Len(query.files) - 1
      BY <2>1
    <3>2. Entries(0) \in Nat
      BY <1>1, <3>1, QueryIs
    <3>3. QED BY <1>1, <3>2, QueryIs
  <2>3. First(Entries(0))' = First(Entries(0)) /\ (IsMultiFile' <=> IsMultiFile)
    BY SameQuery
  <2>4. ~ IsMultiFile => nextRow >= First(Entries(0))
    BY DEF RowsInv
  <2>5. ~ IsMultiFile => nextRow' >= First(Entries(0))
    BY <1>1, <2>2, <2>4
  <2>6. QED BY <2>3, <2>5
<1>6. AllRows' = AllRows
  BY SameQuery
<1>7. QED BY <1>2, <1>3, <1>4, <1>5, <1>6 DEF RowsInv

\* One fetch_add: the rows of the file go from the counter to t, if they are selected.
LEMMA ClaimRows ==
    ASSUME RowsInv, NEW t \in Threads, ~ local[t].active, Claim(t)
    PROVE  RowsInv'
<1>1. /\ RowTypes /\ ThreadInv(t) /\ query \in Queries /\ nextFile \in Nat /\ nextRow \in Nat
      /\ local[t] \in Cursors /\ local = [local EXCEPT ![t] = local[t]]
      /\ task[t] \in Tasks /\ task = [task EXCEPT ![t] = task[t]]
      /\ chunk = [chunk EXCEPT ![t] = chunk[t]] /\ chunk[t] \in Seq(AllRows) /\ Len(chunk[t]) <= Capacity
      /\ returned \in [AllRows -> Nat]
  <2>1. RowTypes /\ ThreadInv(t)
    BY DEF RowsInv
  <2>2. QED BY <2>1, ThreadIs DEF RowTypes
<1>2. Len(query.files) \in Nat
  BY <1>1, QueryIs
<1>3. /\ pc[t] = "claim" /\ nextFile' = nextFile + 1
      /\ UNCHANGED <<query, nextRow, failures, local, chunk, returned>>
  BY DEF Claim
<1>4. IsMultiFile /\ local[t] = Idle /\ chunk[t] = <<>> /\ t \notin Spent
  BY <1>1, <1>3 DEF ThreadInv, ThreadAt, Spent
<1>5. \A r \in AllRows : ~ Pending(t, r) /\ r[1] \in Nat /\ r[2] \in Nat /\ r[1] < Len(query.files)
  BY <1>1, <1>2, <1>3, <1>4, RowIs DEF Pending, PendingAt
<1>6. \A r \in AllRows : (Claimed(r) <=> r[1] < nextFile) /\ (Claimed(r)' <=> r[1] < nextFile + 1)
  BY <1>3, <1>4 DEF Claimed, IsMultiFile
<1>7. ~ Works(Idle) /\ ~ Idle.active
  BY DEF Works, Idle
<1>8. CASE nextFile >= Len(query.files)
  <2>1. Goto(t, "drained") /\ task' = task /\ "drained" \in Steps
    BY <1>8 DEF Claim, Steps
  <2>2. Moves(t, "drained", task[t], local[t], chunk[t])
    BY <1>1, <1>3, <2>1 DEF Moves, Goto
  <2>3. ThreadAt("drained", task[t], local[t], chunk[t])
    BY <1>1, <1>3, <1>4, <1>7, <1>8 DEF ThreadInv, ThreadAt
  <2>4. ASSUME Others(t), NEW r \in AllRows PROVE RowInv(r)'
    <3>1. pc'[t] = "drained" /\ task'[t] = task[t] /\ local'[t] = local[t]
      BY <1>1, <1>3, <2>1 DEF Goto, RowTypes
    <3>2. Pending(t, r)' <=> PendingAt("drained", task[t], local[t], r)
      BY <1>3, <3>1, PendingAfter
    <3>3. ~ Pending(t, r)' /\ ~ Pending(t, r)
      BY <1>4, <1>5, <1>7, <3>2 DEF PendingAt
    <3>4. Claimed(r)' <=> Claimed(r)
      <4>1. nextFile \in Nat /\ Len(query.files) \in Nat
        BY <1>1, <1>2
      <4>2. r[1] \in Nat /\ r[1] < Len(query.files)
        BY <1>5
      <4>3. r[1] < nextFile /\ r[1] < nextFile + 1
        BY <1>8, <4>1, <4>2
      <4>4. QED BY <1>6, <4>3
    <3>5. Broken => Broken'
      BY <1>1, <1>3, <2>4, BrokenStays
    <3>6. RowInv(r) /\ returned'[r] = returned[r] /\ Places(chunk'[t], r) = Places(chunk[t], r)
      BY <1>3 DEF RowsInv
    <3>7. QED BY <1>3, <2>4, <3>3, <3>4, <3>5, <3>6, RowStays
  <2>5. /\ nextFile' \in Nat /\ nextFile <= nextFile' /\ nextRow' \in Nat /\ nextRow <= nextRow'
        /\ returned' \in [AllRows -> Nat]
    BY <1>1, <1>3
  <2>6. QED BY <1>1, <1>3, <1>4, <2>1, <2>2, <2>3, <2>4, <2>5, MoveStep
<1>9. CASE nextFile < Len(query.files)
  <2> DEFINE k == [file |-> nextFile, attempt |-> 1]
             p == IF InSources(nextFile) THEN "open" ELSE "skip"
  <2>1. Goto(t, p) /\ task' = [task EXCEPT ![t] = k] /\ p \in Steps
    BY <1>1, <1>2, <1>9 DEF Claim, Steps
  <2>2. k \in Tasks /\ k.file = nextFile
    BY <1>1, <1>2, <1>9, DirectAssumption DEF Tasks
  <2>3. /\ p = "open" <=> InSources(nextFile)
        /\ p \in {"open", "skip"}
    OBVIOUS
  <2> HIDE DEF k, p
  <2>4. Moves(t, p, k, local[t], chunk[t])
    BY <1>1, <1>3, <2>1 DEF Moves, Goto
  <2>5. ThreadAt(p, k, local[t], chunk[t])
    <3>1. Entries(k.file) \in Nat
      BY <1>1, <1>2, <1>9, <2>2, QueryIs
    <3>2. CursorIsIn(local[t], k.file)
      BY <1>4, <3>1 DEF CursorIsIn, Idle
    <3>3. QED BY <1>4, <2>2, <2>3, <3>2 DEF ThreadAt
  <2>6. ASSUME Others(t), NEW r \in AllRows PROVE RowInv(r)'
    <3>1. pc'[t] = p /\ task'[t] = k /\ local'[t] = local[t]
      BY <1>1, <1>3, <2>1 DEF Goto, RowTypes
    <3>2. Pending(t, r)' <=> PendingAt(p, k, local[t], r)
      BY <1>3, <3>1, PendingAfter
    <3>3. Pending(t, r)' <=> /\ r[1] = nextFile /\ InSources(nextFile)
                             /\ query.entries[1] <= r[2] /\ r[2] <= query.entries[2]
      BY <1>4, <1>7, <2>2, <2>3, <3>2 DEF PendingAt
    <3>4. /\ RowInv(r) /\ returned'[r] = returned[r] /\ chunk'[t] = chunk[t]
          /\ Places(chunk'[t], r) = Places(chunk[t], r) /\ ~ Pending(t, r)
      BY <1>3, <1>5 DEF RowsInv
    <3>5. CASE r[1] = nextFile
      <4>1. ~ Claimed(r) /\ Claimed(r)'
        BY <1>1, <1>6, <3>5
      <4>2. r \in Selected <=> Pending(t, r)' /\ r[3] \in query.keep
        BY <1>4, <3>3, <3>5 DEF Selected
      <4>3. QED BY <1>3, <2>6, <3>4, <4>1, <4>2, RowClaimed
    <3>6. CASE r[1] # nextFile
      <4>1. Claimed(r)' <=> Claimed(r)
        BY <1>1, <1>5, <1>6, <3>6
      <4>2. Broken => Broken'
        BY <1>1, <1>3, <2>6, BrokenStays
      <4>3. QED BY <1>3, <2>6, <3>3, <3>4, <3>6, <4>1, <4>2, RowStays
    <3>7. QED BY <3>5, <3>6
  <2>7. /\ nextFile' \in Nat /\ nextFile <= nextFile' /\ nextRow' \in Nat /\ nextRow <= nextRow'
        /\ returned' \in [AllRows -> Nat] /\ nextFile' <= Len(query.files)
    BY <1>1, <1>2, <1>3, <1>9
  <2>8. pc[t] \notin {"drained", "done", "thrown"}
    BY <1>3
  <2>9. QED BY <1>1, <1>3, <2>1, <2>2, <2>4, <2>5, <2>6, <2>7, <2>8, MoveStep
<1>10. QED BY <1>1, <1>2, <1>8, <1>9

LEMMA SingleFile == ASSUME query \in Queries, ~ IsMultiFile PROVE Len(query.files) = 1
<1> DEFINE n == Len(query.files)
<1>1. n \in Nat \ {0}
  BY QueryIs
<1>2. ~ (n > 1)
  BY DEF IsMultiFile
<1> HIDE DEF n
<1>3. n = 1
  BY <1>1, <1>2
<1>4. QED BY <1>3 DEF n

\* The claim of a batch moves the rows of its entries from next_row to the thread.
LEMMA BatchRows == ASSUME RowsInv, NEW t \in Threads, ClaimEntryBatch(t) PROVE RowsInv'
<1> DEFINE total == End(Entries(0))
           l == [local[t] EXCEPT !.row = nextRow, !.end = nextRow']
<1>1. /\ RowTypes /\ ThreadInv(t) /\ query \in Queries /\ nextFile \in Nat /\ nextRow \in Nat
      /\ local[t] \in Cursors /\ task[t] \in Tasks /\ task = [task EXCEPT ![t] = task[t]]
      /\ pc = [pc EXCEPT ![t] = pc[t]]
      /\ chunk = [chunk EXCEPT ![t] = chunk[t]] /\ chunk[t] \in Seq(AllRows) /\ Len(chunk[t]) <= Capacity
      /\ returned \in [AllRows -> Nat] /\ local[t].row \in Nat /\ local[t].end \in Nat
      /\ task[t].file \in 0 .. Len(query.files) - 1
  <2>1. RowTypes /\ ThreadInv(t)
    BY DEF RowsInv
  <2>2. QED BY <2>1, ThreadIs DEF RowTypes
<1>2. /\ pc[t] = "fill" /\ ~ HasWork(t) /\ ~ IsMultiFile /\ nextRow < total
      /\ nextRow' = Min2(nextRow + Batch, total)
      /\ UNCHANGED <<query, nextFile, failures, pc, task, chunk, returned>> /\ "fill" \in Steps
  BY DEF ClaimEntryBatch, Steps
<1>3. local' = [local EXCEPT ![t] = l]
  BY DEF ClaimEntryBatch
<1>4. Len(query.files) = 1 /\ task[t].file = 0
  <2>2. Len(query.files) = 1
    BY <1>1, <1>2, SingleFile
  <2>3. task[t].file \in 0 .. 0
    BY <1>1, <2>2
  <2>4. QED BY <2>2, <2>3
<1>5. Entries(0) \in Nat /\ query.entries[1] \in Nat /\ query.entries[2] \in Nat
  BY <1>1, <1>4, QueryIs
<1>6. total \in Nat /\ total <= Entries(0)
  BY <1>1, <1>5, QueryIs
<1>7. nextRow' \in Nat /\ nextRow < nextRow' /\ nextRow' <= total
  <2> HIDE DEF total
  <2>1. Batch \in Nat \ {0}
    BY DirectAssumption
  <2>2. QED BY <1>1, <1>2, <1>6, <2>1 DEF Min2
<1>8. ~ local[t].cached /\ ~ local[t].row < local[t].end
  BY <1>2 DEF HasWork
<1>9. /\ l.row = nextRow /\ l.end = nextRow' /\ l.cached = local[t].cached
      /\ l.active = local[t].active /\ l \in Cursors
  BY <1>1, <1>7 DEF Cursors
<1> HIDE DEF l
<1>10. Moves(t, "fill", task[t], l, chunk[t])
  BY <1>1, <1>2, <1>3 DEF Moves
<1>11. ThreadAt("fill", task[t], l, chunk[t])
  BY <1>1, <1>2, <1>4, <1>5, <1>6, <1>7, <1>8, <1>9 DEF ThreadInv, ThreadAt, CursorIsIn
<1>12. ASSUME Others(t), NEW r \in AllRows PROVE RowInv(r)'
  <2>1. r[2] \in Nat /\ r[1] = 0 /\ r[2] < Entries(0)
    <3>1. r[1] \in 0 .. Len(query.files) - 1 /\ r[2] \in 0 .. Entries(r[1]) - 1
      BY <1>1, RowIs
    <3>2. QED BY <1>4, <1>5, <3>1
  <2>2. pc'[t] = "fill" /\ task'[t] = task[t] /\ local'[t] = l
    BY <1>1, <1>2, <1>3 DEF RowTypes
  <2>3. Pending(t, r)' <=> PendingAt("fill", task[t], l, r)
    BY <1>2, <2>2, PendingAfter
  <2>4. Pending(t, r)' <=> nextRow <= r[2] /\ r[2] < nextRow'
    BY <1>2, <1>8, <1>9, <2>3 DEF PendingAt, Ahead
  <2>5. ~ Pending(t, r)
    BY <1>1, <1>2, <1>8, <2>1 DEF Pending, PendingAt, Ahead
  <2>6. (Claimed(r) <=> r[2] < nextRow) /\ (Claimed(r)' <=> r[2] < nextRow')
    BY <1>2 DEF Claimed, IsMultiFile
  <2>7. /\ RowInv(r) /\ returned'[r] = returned[r] /\ chunk'[t] = chunk[t]
        /\ Places(chunk'[t], r) = Places(chunk[t], r)
    BY <1>2 DEF RowsInv
  <2>8. CASE nextRow <= r[2] /\ r[2] < nextRow'
    <3>1. ~ Claimed(r) /\ Claimed(r)' /\ Pending(t, r)'
      BY <1>1, <2>1, <2>4, <2>6, <2>8
    <3>2. nextRow >= First(Entries(0))
      BY <1>2 DEF RowsInv
    <3>3. query.entries[1] <= r[2]
      BY <1>1, <1>5, <2>1, <2>8, <3>2 DEF First, Min2
    <3>4. r[2] < total
      <4> HIDE DEF total
      <4>1. QED BY <1>6, <1>7, <2>1, <2>8
    <3>5. r[2] <= query.entries[2]
      BY <1>5, <2>1, <3>4 DEF End, Min2
    <3>6. r[3] \in query.keep => r \in Selected
      BY <1>2, <3>3, <3>5 DEF Selected
    <3>7. QED BY <1>2, <1>12, <2>7, <3>1, <3>6, RowClaimed
  <2>9. CASE ~ (nextRow <= r[2] /\ r[2] < nextRow')
    <3>1. ~ Pending(t, r)' /\ (Claimed(r)' <=> Claimed(r))
      BY <1>1, <1>7, <2>1, <2>4, <2>6, <2>9
    <3>2. Broken => Broken'
      BY <1>2 DEF Broken
    <3>3. QED BY <1>2, <1>12, <2>5, <2>7, <3>1, <3>2, RowStays
  <2>10. QED BY <2>8, <2>9
<1>13. nextFile' \in Nat /\ nextFile <= nextFile' /\ nextRow <= nextRow'
  BY <1>1, <1>2, <1>7
<1>14. returned' \in [AllRows -> Nat] /\ pc[t] \notin {"drained", "done", "thrown"} /\ nextFile' = nextFile
  BY <1>1, <1>2
<1>15. QED BY <1>1, <1>2, <1>7, <1>9, <1>10, <1>11, <1>12, <1>13, <1>14, MoveStep

\* The row x is put behind the others of the chunk c.
Grows(c, x, d) == d = Append(c, x)

LEMMA PlacesAppended ==
    ASSUME NEW S, NEW c \in Seq(S), NEW x \in S, NEW d, Grows(c, x, d)
    PROVE  /\ \A r : r # x => Places(d, r) = Places(c, r)
           /\ Places(c, x) = {} => Places(d, x) = {Len(c) + 1}
<1>1. /\ Len(c) \in Nat /\ DOMAIN c = 1 .. Len(c)
      /\ DOMAIN d = 1 .. Len(c) + 1
      /\ \A i \in 1 .. Len(c) : d[i] = c[i]
      /\ d[Len(c) + 1] = x
  BY DEF Grows
<1>2. ASSUME NEW r, r # x PROVE Places(d, r) = Places(c, r)
  <2>1. ASSUME NEW i PROVE i \in Places(d, r) <=> i \in Places(c, r)
    BY <1>1, <1>2 DEF Places
  <2>2. QED BY <2>1 DEF Places
<1>3. ASSUME Places(c, x) = {} PROVE Places(d, x) = {Len(c) + 1}
  <2>1. \A i \in 1 .. Len(c) : c[i] # x
    BY <1>1, <1>3 DEF Places
  <2>2. ASSUME NEW i PROVE i \in Places(d, x) <=> i = Len(c) + 1
    BY <1>1, <1>3, <2>1 DEF Places
  <2>3. QED BY <2>2 DEF Places
<1>4. QED BY <1>2, <1>3

\* The places after the position i of the entry e, the last of it or not.
LEMMA PlacesAfter ==
    ASSUME NEW e \in Nat, NEW i \in Nat, NEW n \in Nat, NEW a \in Nat, NEW b \in Nat
    PROVE  LET before == e <= a /\ a < n /\ (e = a => i <= b)
           IN /\ (a = e => b <= i) =>
                    ((e + 1 <= a /\ a < n) <=> (before /\ ~ (a = e /\ b = i)))
              /\ (e <= a /\ a < n /\ (e = a => i + 1 <= b)) <=> (before /\ ~ (a = e /\ b = i))
OBVIOUS

\* The loop of ProcessCachedEntry: the row at the cursor leaves the rows that are ahead
\* of it, and goes to the chunk if the filters keep it.
LEMMA TakenRows == ASSUME RowsInv, NEW t \in Threads, TakeRow(t) PROVE RowsInv'
<1> DEFINE f == task[t].file
           e == local[t].row
           i == local[t].elem
           x == <<f, e, i>>
           over == [local[t] EXCEPT !.cached = FALSE, !.elem = 0, !.row = e + 1]
           on == [local[t] EXCEPT !.elem = i + 1]
           c == IF i \in query.keep THEN Append(chunk[t], x) ELSE chunk[t]
<1>1. /\ RowTypes /\ ThreadInv(t) /\ query \in Queries /\ nextFile \in Nat /\ nextRow \in Nat
      /\ local[t] \in Cursors /\ task[t] \in Tasks /\ task = [task EXCEPT ![t] = task[t]]
      /\ pc = [pc EXCEPT ![t] = pc[t]]
      /\ chunk[t] \in Seq(AllRows) /\ Len(chunk[t]) <= Capacity /\ returned \in [AllRows -> Nat]
      /\ f \in 0 .. Len(query.files) - 1 /\ f \in Nat /\ Entries(f) \in Nat
      /\ e \in Nat /\ local[t].end \in Nat /\ i \in Nat
  <2>1. RowTypes /\ ThreadInv(t)
    BY DEF RowsInv
  <2>2. QED BY <2>1, ThreadIs DEF RowTypes
<1>2. /\ pc[t] = "fill" /\ local[t].cached /\ ~ Full(t) /\ "fill" \in Steps
      /\ UNCHANGED <<query, nextFile, nextRow, failures, pc, task, returned>>
  BY DEF TakeRow, Steps, sharedVars
<1>3. /\ chunk' = [chunk EXCEPT ![t] = c]
      /\ local' = [local EXCEPT ![t] = IF i + 1 >= RowsOf(f, e) THEN over ELSE on]
  BY DEF TakeRow
<1>4. e < local[t].end /\ local[t].end <= Entries(f) /\ i < RowsOf(f, e)
  BY <1>1, <1>2 DEF ThreadInv, ThreadAt, CursorIsIn
<1> DEFINE old == local[t]
           j == e + 1
           n == i + 1
<1>4a. old \in Cursors /\ j \in Nat /\ n \in Nat
  BY <1>1
<1>4b. /\ over = [old EXCEPT !.cached = FALSE, !.elem = 0, !.row = j]
       /\ on = [old EXCEPT !.elem = n]
  OBVIOUS
<1> HIDE DEF old, j, n, over, on
<1>4c. over.row = j /\ over.end = old.end /\ over.active = old.active
  BY <1>4a, <1>4b DEF Cursors
<1>4d. over.cached = FALSE
  BY <1>4a, <1>4b DEF Cursors
<1>4e. over \in Cursors
  BY <1>4a, <1>4b DEF Cursors
<1>4f. /\ on.row = old.row /\ on.end = old.end /\ on.cached = old.cached /\ on.elem = n
       /\ on.active = old.active /\ on \in Cursors
  BY <1>4a, <1>4b DEF Cursors
<1>5. /\ over.row = e + 1 /\ over.end = local[t].end /\ over.cached = FALSE
      /\ over.active = local[t].active /\ over \in Cursors
  BY <1>4c, <1>4d, <1>4e DEF old, j
<1>6. /\ on.row = e /\ on.end = local[t].end /\ on.cached = local[t].cached /\ on.elem = i + 1
      /\ on.active = local[t].active /\ on \in Cursors
  BY <1>4f DEF old, n
<1>7. RowsOf(f, e) \in Nat /\ x \in AllRows
  <2>1. e \in 0 .. Entries(f) - 1
    BY <1>1, <1>4
  <2>2. RowsOf(f, e) \in Nat
    BY <1>1, <2>1, QueryIs
  <2>3. i \in 0 .. RowsOf(f, e) - 1
    BY <1>1, <1>4, <2>2
  <2>4. QED BY <1>1, <2>1, <2>2, <2>3, RowIs
<1>8. x[1] = f /\ x[2] = e /\ x[3] = i
  OBVIOUS
<1>9. IsMultiFile => local[t].active
  BY <1>1, <1>2 DEF ThreadInv, ThreadAt, Idle
<1>10. IsMultiFile \/ (f = 0 /\ Len(query.files) = 1)
  <2>2. CASE ~ IsMultiFile
    <3>1. Len(query.files) = 1
      BY <1>1, <2>2, SingleFile
    <3>2. f \in 0 .. 0
      BY <1>1, <3>1
    <3>3. QED BY <3>1, <3>2
  <2>3. QED BY <2>2
<1> HIDE DEF x
<1>11. c \in Seq(AllRows) /\ Len(c) <= Capacity
  <2>1. Len(chunk[t]) \in Nat /\ Len(chunk[t]) # Capacity /\ Capacity \in Nat
    BY <1>1, <1>2, DirectAssumption DEF Full
  <2>2. Append(chunk[t], x) \in Seq(AllRows) /\ Len(Append(chunk[t], x)) = Len(chunk[t]) + 1
    BY <1>1, <1>7
  <2>3. QED BY <1>1, <2>1, <2>2
<1>12. PICK l \in Cursors :
         /\ l = (IF i + 1 >= RowsOf(f, e) THEN over ELSE on)
         /\ local' = [local EXCEPT ![t] = l]
  BY <1>3, <1>5, <1>6
<1>13. l.active = local[t].active /\ l.end = local[t].end
  BY <1>5, <1>6, <1>12
<1>14. \A r \in AllRows : r[1] = f => (Ahead(l, r) <=> Ahead(local[t], r) /\ r # x)
  <2> SUFFICES ASSUME NEW r \in AllRows, r[1] = f
               PROVE  Ahead(l, r) <=> Ahead(local[t], r) /\ r # x
    OBVIOUS
  <2>1. /\ r[2] \in Nat /\ r[3] \in Nat /\ r = <<r[1], r[2], r[3]>>
        /\ r[3] \in 0 .. RowsOf(r[1], r[2]) - 1
    BY <1>1, RowIs
  <2>2. r = x <=> r[2] = e /\ r[3] = i
    BY <1>8, <2>1 DEF x
  <2>3. r[2] = e => r[3] < RowsOf(f, e)
    BY <1>7, <2>1
  <2> DEFINE before == e <= r[2] /\ r[2] < local[t].end /\ (e = r[2] => i <= r[3])
  <2>4. Ahead(local[t], r) <=> before
    BY <1>2 DEF Ahead
  <2>5. CASE i + 1 >= RowsOf(f, e)
    <3>1. l.row = e + 1 /\ l.end = local[t].end /\ ~ l.cached
      BY <1>5, <1>12, <2>5
    <3>2. Ahead(l, r) <=> e + 1 <= r[2] /\ r[2] < local[t].end
      BY <3>1 DEF Ahead
    <3>3. r[2] = e => r[3] <= i
      BY <1>1, <1>7, <2>1, <2>3, <2>5
    <3>4. (e + 1 <= r[2] /\ r[2] < local[t].end) <=> (before /\ ~ (r[2] = e /\ r[3] = i))
      <4>1. /\ e \in Nat /\ i \in Nat /\ local[t].end \in Nat /\ r[2] \in Nat /\ r[3] \in Nat
        BY <1>1, <2>1
      <4>2. QED BY <3>3, <4>1, PlacesAfter
    <3>5. QED BY <2>2, <2>4, <3>2, <3>4
  <2>6. CASE ~ (i + 1 >= RowsOf(f, e))
    <3>1. l.row = e /\ l.end = local[t].end /\ l.cached /\ l.elem = i + 1
      BY <1>2, <1>6, <1>12, <2>6
    <3>2. Ahead(l, r) <=> e <= r[2] /\ r[2] < local[t].end /\ (e = r[2] => i + 1 <= r[3])
      BY <3>1 DEF Ahead
    <3>3. (e <= r[2] /\ r[2] < local[t].end /\ (e = r[2] => i + 1 <= r[3]))
             <=> (before /\ ~ (r[2] = e /\ r[3] = i))
      <4>1. /\ e \in Nat /\ i \in Nat /\ local[t].end \in Nat /\ r[2] \in Nat /\ r[3] \in Nat
        BY <1>1, <2>1
      <4>2. QED BY <4>1, PlacesAfter
    <3>4. QED BY <2>2, <2>4, <3>2, <3>3
  <2>7. QED BY <2>5, <2>6
<1>15. Moves(t, "fill", task[t], l, c)
  <2>1. pc' = [pc EXCEPT ![t] = "fill"] /\ task' = [task EXCEPT ![t] = task[t]]
    BY <1>1, <1>2
  <2>2. chunk' = [chunk EXCEPT ![t] = c]
    BY <1>3
  <2> HIDE DEF c
  <2>3. QED BY <1>12, <2>1, <2>2 DEF Moves
<1>16. ThreadAt("fill", task[t], l, c)
  <2>1. CursorIsIn(l, f)
    <3>1. CASE i + 1 >= RowsOf(f, e)
      BY <1>4, <1>5, <1>12, <3>1 DEF CursorIsIn
    <3>2. CASE ~ (i + 1 >= RowsOf(f, e))
      BY <1>1, <1>4, <1>6, <1>7, <1>12, <3>2 DEF CursorIsIn
    <3>3. QED BY <3>1, <3>2
  <2> HIDE DEF c
  <2>2. QED BY <1>9, <1>13, <2>1 DEF ThreadAt
<1>17. /\ nextFile' \in Nat /\ nextFile <= nextFile' /\ nextRow' \in Nat /\ nextRow <= nextRow'
       /\ returned' \in [AllRows -> Nat] /\ nextFile' = nextFile
       /\ pc[t] \notin {"drained", "done", "thrown"}
  BY <1>1, <1>2
<1>18. ASSUME Others(t), NEW r \in AllRows PROVE RowInv(r)'
  <2>1. RowInv(r) /\ returned'[r] = returned[r] /\ (Claimed(r)' <=> Claimed(r)) /\ (Broken => Broken')
    BY <1>2 DEF RowsInv, Claimed, IsMultiFile, Broken
  <2>2. pc'[t] = "fill" /\ task'[t] = task[t] /\ local'[t] = l /\ chunk'[t] = c
    BY <1>1, <1>2, <1>3, <1>12 DEF RowTypes
  <2> HIDE DEF c
  <2>3. Pending(t, r)' <=> PendingAt("fill", task[t], l, r)
    BY <1>2, <2>2, PendingAfter
  <2>4. ~ IsMultiFile => r[1] = f
    <3>1. Len(query.files) = 1 => r[1] \in 0 .. 0
      BY <1>1, RowIs
    <3>2. QED BY <1>10, <3>1
  <2>5. Pending(t, r)' <=> Pending(t, r) /\ r # x
    <3>1. CASE r[1] = f
      BY <1>2, <1>9, <1>13, <1>14, <2>3, <3>1 DEF Pending, PendingAt
    <3>2. CASE r[1] # f
      BY <2>3, <2>4, <3>2 DEF Pending, PendingAt
    <3>3. QED BY <3>1, <3>2
  <2>6. CASE r # x
    <3>1. Places(chunk'[t], r) = Places(chunk[t], r)
      <4>1. CASE i \in query.keep
        <5>1. Grows(chunk[t], x, chunk'[t])
          BY <2>2, <4>1 DEF c, Grows
        <5>2. QED BY <1>1, <1>7, <2>6, <5>1, PlacesAppended
      <4>2. CASE i \notin query.keep
        BY <2>2, <4>2 DEF c
      <4>3. QED BY <4>1, <4>2
    <3>2. QED BY <1>2, <1>18, <2>1, <2>5, <2>6, <3>1, RowStays
  <2>7. CASE r = x
    <3>1. Ahead(local[t], r)
      BY <1>1, <1>4, <1>8, <2>7 DEF Ahead
    <3>2. Pending(t, r) /\ ~ Pending(t, r)'
      BY <1>8, <1>9, <2>5, <2>7, <3>1 DEF Pending, PendingAt
    <3>3. /\ Claimed(r) /\ ~ Out(r) /\ (r[3] \in query.keep => r \in Selected)
          /\ \A u \in Threads : Pending(u, r) => u = t
      BY <2>1, <3>2 DEF RowInv
    <3>4. CASE i \in query.keep
      <4>1. r \in Selected /\ Selected' = Selected /\ returned'[r] = 0
        BY <1>2, <1>8, <2>1, <2>7, <3>3, <3>4, SameQuery DEF Out
      <4>2. Places(chunk[t], r) = {} /\ \A u \in Threads : ~ InChunk(u, r)
        BY <3>3 DEF Out, InChunk, Places
      <4>3. Places(chunk'[t], r) = {Len(chunk[t]) + 1}
        <5>1. Grows(chunk[t], x, chunk'[t])
          BY <2>2, <3>4 DEF c, Grows
        <5>2. Places(chunk[t], x) = {}
          BY <2>7, <4>2
        <5> HIDE DEF c
        <5>3. chunk[t] \in Seq(AllRows) /\ x \in AllRows
          BY <1>1, <1>7
        <5>4. Places(chunk'[t], x) = {Len(chunk[t]) + 1}
          BY <5>1, <5>2, <5>3, PlacesAppended
        <5>5. QED BY <2>7, <5>4
      <4>4. InChunk(t, r)' /\ \A y, z \in DOMAIN chunk'[t] : chunk'[t][y] = r /\ chunk'[t][z] = r => y = z
        <5>1. \A y : y \in DOMAIN chunk'[t] /\ chunk'[t][y] = r <=> y = Len(chunk[t]) + 1
          BY <4>3 DEF Places
        <5>2. QED BY <5>1 DEF InChunk
      <4>5. \A u \in Threads : InChunk(u, r)' => u = t
        BY <1>18, <4>2 DEF Others, InChunk
      <4>6. OutOnce(r)' /\ Out(r)'
        BY <4>1, <4>4, <4>5 DEF OutOnce, Out
      <4>7. \A u \in Threads : ~ Pending(u, r)'
        BY <1>2, <1>18, <3>2, <3>3, OthersPending
      <4>8. QED BY <2>1, <3>3, <4>1, <4>6, <4>7 DEF RowInv
    <3>5. CASE i \notin query.keep
      <4>1. Places(chunk'[t], r) = Places(chunk[t], r)
        BY <2>2, <3>5 DEF c
      <4>2. r \notin Selected
        BY <1>8, <2>7, <3>5 DEF Selected
      <4>3. QED BY <1>2, <1>18, <2>1, <2>5, <4>1, <4>2, RowStays
    <3>6. QED BY <3>4, <3>5
  <2>8. QED BY <2>6, <2>7
<1> HIDE DEF c
<1>19. QED BY <1>1, <1>2, <1>11, <1>15, <1>16, <1>17, <1>18, MoveStep

\* A chunk goes to DuckDB: what was in it is returned, once.
LEMMA ReturnedRows == ASSUME RowsInv, NEW t \in Threads, Return(t) PROVE RowsInv'
<1>1. /\ RowTypes /\ ThreadInv(t) /\ query \in Queries /\ nextFile \in Nat /\ nextRow \in Nat
      /\ local[t] \in Cursors /\ local = [local EXCEPT ![t] = local[t]]
      /\ task[t] \in Tasks /\ task = [task EXCEPT ![t] = task[t]]
      /\ chunk[t] \in Seq(AllRows) /\ returned \in [AllRows -> Nat]
  <2>1. RowTypes /\ ThreadInv(t)
    BY DEF RowsInv
  <2>2. QED BY <2>1, ThreadIs DEF RowTypes
<1>2. /\ pc[t] = "return" /\ chunk' = [chunk EXCEPT ![t] = <<>>]
      /\ UNCHANGED <<query, nextFile, nextRow, failures, task, local>>
      /\ returned' = [r \in DOMAIN returned |-> returned[r] + Cardinality(Places(chunk[t], r))]
  BY DEF Return, sharedVars, Places
<1>3. PICK p \in {"idle", "ready", "done"} :
        /\ Goto(t, p)
        /\ p = "ready" => IsMultiFile
        /\ p = "done" => chunk[t] = <<>> /\ ~ IsMultiFile
  BY DEF Return
<1>4. p \in Steps /\ <<>> \in Seq(AllRows) /\ Len(<<>>) <= Capacity
  <2>1. Len(<<>>) = 0 /\ Capacity \in Nat
    BY DirectAssumption
  <2>2. QED BY <2>1 DEF Steps
<1>5. Moves(t, p, task[t], local[t], <<>>)
  BY <1>1, <1>2, <1>3 DEF Moves, Goto
<1>6. ThreadAt(p, task[t], local[t], <<>>)
  BY <1>1, <1>2, <1>3 DEF ThreadInv, ThreadAt
<1>7. \A r : Places(<<>>, r) = {}
  BY DEF Places
<1>8. chunk'[t] = <<>> /\ pc'[t] = p
  BY <1>1, <1>2, <1>3 DEF RowTypes, Goto
<1>9. ASSUME NEW r \in AllRows
      PROVE  \/ Places(chunk[t], r) = {} /\ ~ InChunk(t, r) /\ returned'[r] = returned[r]
             \/ InChunk(t, r) /\ returned[r] = 0 /\ returned'[r] = 1
  <2>1. returned'[r] = returned[r] + Cardinality(Places(chunk[t], r)) /\ returned[r] \in Nat
    BY <1>1, <1>2
  <2>2. CASE ~ InChunk(t, r)
    <3>1. Places(chunk[t], r) = {}
      BY <2>2 DEF Places, InChunk
    <3>2. Cardinality(Places(chunk[t], r)) = 0
      BY <3>1, FS_EmptySet
    <3>3. QED BY <2>1, <2>2, <3>1, <3>2
  <2>3. CASE InChunk(t, r)
    <3>1. /\ returned[r] = 0
          /\ \A i, j \in DOMAIN chunk[t] : chunk[t][i] = r /\ chunk[t][j] = r => i = j
      BY <2>3 DEF RowsInv, RowInv, OutOnce
    <3>2. PICK i \in DOMAIN chunk[t] : chunk[t][i] = r
      BY <2>3 DEF InChunk
    <3>3. Places(chunk[t], r) = {i}
      BY <3>1, <3>2 DEF Places
    <3>4. Cardinality(Places(chunk[t], r)) = 1
      BY <3>3, FS_Singleton
    <3>5. QED BY <2>1, <2>3, <3>1, <3>4
  <2>4. QED BY <2>2, <2>3
<1>10. returned' \in [AllRows -> Nat]
  <2>1. DOMAIN returned = AllRows
    BY <1>1
  <2>2. \A r \in AllRows : returned'[r] \in Nat
    BY <1>1, <1>9
  <2>3. returned' = [r \in AllRows |-> returned'[r]]
    BY <1>2, <2>1
  <2>4. QED BY <2>2, <2>3
<1>11. ASSUME Others(t), NEW r \in AllRows PROVE RowInv(r)'
  <2>1. RowInv(r) /\ (Claimed(r)' <=> Claimed(r)) /\ Selected' = Selected
    BY <1>2, SameQuery DEF RowsInv, Claimed, IsMultiFile
  <2>2. Broken => Broken'
    BY <1>1, <1>2, <1>11, BrokenStays
  <2>3. Pending(t, r)' <=> Pending(t, r)
    <3>1. Pending(t, r)' <=> PendingAt(p, task[t], local[t], r)
      BY <1>2, <1>8, PendingAfter
    <3>2. QED BY <1>2, <1>3, <3>1 DEF Pending, PendingAt
  <2>4. CASE Places(chunk[t], r) = {} /\ returned'[r] = returned[r]
    <3>1. Places(chunk'[t], r) = Places(chunk[t], r)
      BY <1>7, <1>8, <2>4
    <3>2. QED BY <1>2, <1>11, <2>1, <2>2, <2>3, <2>4, <3>1, RowStays
  <2>5. CASE InChunk(t, r) /\ returned'[r] = 1
    <3>1. \A u \in Threads : InChunk(u, r) => u = t
      BY <2>1, <2>5 DEF RowInv, OutOnce
    <3>2. ~ InChunk(t, r)'
      BY <1>8 DEF InChunk
    <3>3. \A u \in Threads : u # t => (InChunk(u, r)' <=> InChunk(u, r))
      BY <1>11 DEF Others, InChunk
    <3>4. \A u \in Threads : ~ InChunk(u, r)'
      BY <3>1, <3>2, <3>3
    <3>5. Out(r) /\ Out(r)' /\ OutOnce(r)'
      BY <2>5, <3>4 DEF Out, OutOnce
    <3>6. \A u \in Threads : ~ Pending(u, r)'
      BY <1>2, <1>11, <2>1, <2>3, <3>5, OthersPending DEF RowInv
    <3>7. QED BY <2>1, <3>5, <3>6 DEF RowInv
  <2>6. QED BY <1>9, <2>4, <2>5
<1>12. /\ nextFile' \in Nat /\ nextFile <= nextFile' /\ nextRow' \in Nat /\ nextRow <= nextRow'
       /\ nextFile' = nextFile /\ pc[t] \notin {"drained", "done", "thrown"}
  BY <1>1, <1>2
<1>13. QED BY <1>1, <1>2, <1>4, <1>5, <1>6, <1>10, <1>11, <1>12, MoveStep

-----------------------------------------------------------------------------
(* The invariant of the rows, and what follows from it.                    *)

LEMMA RowsInit == Init => RowsInv
<1> SUFFICES ASSUME Init PROVE RowsInv
  OBVIOUS
<1>1. query \in Queries
  BY DEF Init
<1>2. Len(query.files) \in Nat \ {0}
  BY <1>1, QueryIs
<1>3. 0 \in 0 .. Len(query.files) - 1
  BY <1>2
<1>4. Entries(0) \in Nat
  BY <1>1, <1>3, QueryIs
<1>5. /\ First(Entries(0)) \in Nat /\ End(Entries(0)) \in Nat /\ First(Entries(0)) <= Entries(0)
      /\ query.entries[1] \in Nat /\ query.entries[2] \in Nat
  BY <1>1, <1>4, QueryIs
<1>6. /\ nextFile = 0 /\ nextRow \in Nat /\ nextRow >= First(Entries(0))
      /\ nextRow = (IF Impossible THEN Entries(0) ELSE First(Entries(0)))
  BY <1>4, <1>5 DEF Init
<1>7. \A t \in Threads : /\ pc[t] = "idle" /\ chunk[t] = <<>>
                         /\ task[t] = [file |-> 0, attempt |-> 0] /\ local[t] = Idle
  BY DEF Init
<1>8. RowTypes
  <2>1. [file |-> 0, attempt |-> 0] \in Tasks
    BY <1>3, DirectAssumption DEF Tasks
  <2>2. Idle \in Cursors
    BY DEF Idle, Cursors
  <2>3. "idle" \in Steps /\ <<>> \in Seq(AllRows)
    BY DEF Steps
  <2>4. /\ pc \in [Threads -> Steps] /\ task \in [Threads -> Tasks] /\ local \in [Threads -> Cursors]
        /\ chunk \in [Threads -> Seq(AllRows)]
    BY <2>1, <2>2, <2>3 DEF Init
  <2>5. \A t \in Threads : Len(chunk[t]) <= Capacity
    BY <1>7, DirectAssumption
  <2>6. failures \subseteq 0 .. Len(query.files) - 1 /\ returned \in [AllRows -> Nat]
    BY DEF Init
  <2>7. QED BY <1>1, <1>6, <2>4, <2>5, <2>6 DEF RowTypes
<1>9. ASSUME NEW t \in Threads PROVE ThreadInv(t)
  <2>1. CursorIsIn(local[t], task[t].file)
    BY <1>4, <1>7 DEF CursorIsIn, Idle
  <2>2. QED BY <1>7, <2>1 DEF ThreadInv, ThreadAt
<1>10. ASSUME NEW r \in AllRows PROVE RowInv(r)
  <2>1. returned[r] = 0 /\ \A t \in Threads : ~ InChunk(t, r)
    BY <1>7 DEF Init, InChunk
  <2>2. OutOnce(r) /\ ~ Out(r)
    BY <2>1 DEF OutOnce, Out
  <2>3. r[1] \in Nat /\ r[2] \in 0 .. Entries(r[1]) - 1 /\ r[2] \in Nat /\ r[1] \in 0 .. Len(query.files) - 1
    BY <1>1, RowIs
  <2>4. \A t \in Threads : ~ Pending(t, r)
    <3>1. Idle.active = FALSE /\ Idle.end = 0
      BY DEF Idle
    <3>2. QED BY <1>7, <2>3, <3>1 DEF Pending, PendingAt, Ahead
  <2>5. ~ (r \in Selected /\ Claimed(r))
    <3>1. CASE IsMultiFile
      BY <1>6, <2>3, <3>1 DEF Claimed
    <3>2. CASE ~ IsMultiFile /\ r \in Selected
      <4>1. query.entries[1] <= r[2] /\ r[2] <= query.entries[2]
        BY <3>2 DEF Selected
      <4>2. ~ Impossible
        BY <1>5, <2>3, <4>1 DEF Impossible
      <4>3. ~ (r[2] < nextRow)
        BY <1>4, <1>5, <1>6, <2>3, <4>1, <4>2 DEF First, Min2
      <4>4. QED BY <3>2, <4>3 DEF Claimed
    <3>3. QED BY <3>1, <3>2
  <2>6. QED BY <2>2, <2>4, <2>5 DEF RowInv
<1>11. nextFile <= Len(query.files) + Cardinality(Spent)
  <2>1. Spent = {}
    BY <1>7 DEF Spent
  <2>2. QED BY <1>2, <1>6, <2>1, FS_EmptySet
<1>12. QED BY <1>6, <1>8, <1>9, <1>10, <1>11 DEF RowsInv

LEMMA RowsStep == AccountInv /\ RowsInv /\ [Next]_vars => RowsInv'
<1> SUFFICES ASSUME AccountInv, RowsInv, [Next]_vars PROVE RowsInv'
  OBVIOUS
<1>1. CASE UNCHANGED vars
  <2>1. UNCHANGED <<query, nextFile, nextRow, failures, pc, task, local, chunk, returned>>
    BY <1>1 DEF vars, sharedVars
  <2>2. PICK t : t \in Threads
    BY DirectAssumption
  <2>3. /\ pc[t] \in Steps /\ task[t] \in Tasks /\ local[t] \in Cursors
        /\ pc = [pc EXCEPT ![t] = pc[t]] /\ task = [task EXCEPT ![t] = task[t]]
        /\ local = [local EXCEPT ![t] = local[t]] /\ chunk = [chunk EXCEPT ![t] = chunk[t]]
        /\ failures \subseteq 0 .. Len(query.files) - 1
    BY <2>2, ThreadIs DEF RowsInv, RowTypes
  <2>4. Moves(t, pc[t], task[t], local[t], chunk[t])
    BY <2>1, <2>3 DEF Moves
  <2>5. ThreadAt(pc[t], task[t], local[t], chunk[t])
    BY <2>2 DEF RowsInv, ThreadInv
  <2>6. \A r \in AllRows : PendingAt(pc[t], task[t], local[t], r) <=> Pending(t, r)
    BY DEF Pending
  <2>7. QED BY <2>1, <2>2, <2>3, <2>4, <2>5, <2>6, QuietStep
<1>2. \A t \in Threads : pc[t] \in {"claim", "open", "failing"} => ~ local[t].active
  BY DEF AccountInv, Between
<1>3. ASSUME NEW t \in Threads, Claim(t) PROVE RowsInv'
  BY <1>2, <1>3, ClaimRows DEF Claim
<1>4. ASSUME NEW t \in Threads, OpenSucceeds(t) PROVE RowsInv'
  BY <1>2, <1>4, OpenedRows DEF OpenSucceeds
<1>5. ASSUME NEW t \in Threads, OpenUnavailable(t) \/ OpenFails(t) \/ RecordFailure(t) PROVE RowsInv'
  <2>1. pc[t] \in {"open", "failing"}
    BY <1>5 DEF OpenUnavailable, OpenFails, RecordFailure
  <2>2. QED BY <1>2, <1>5, <2>1, GivenUpRows
<1>6. QED
  BY <1>1, <1>3, <1>4, <1>5, ExecuteRows, WalkRows, ReadyRows, RetriedRows, ReadRows, BatchRows,
     TakenRows, ReturnedRows DEF Next, Proceed

ScanInv == AccountInv /\ RowsInv

LEMMA ScanIsInvariant == Spec => []ScanInv
<1>1. Init => ScanInv
  BY AccountInit, RowsInit DEF ScanInv
<1>2. ScanInv /\ [Next]_vars => ScanInv'
  BY AccountStep, RowsStep DEF ScanInv
<1>3. QED BY <1>1, <1>2, PTL DEF Spec

\* No counter of RootDirectFileScheduler passes the number of files, next_file_ passes
\* it by at most one claim of each thread, and no chunk is filled above its capacity.
THEOREM ScanTypeCorrect == Spec => []TypeOK
<1>1. ScanInv => TypeOK
  <2> SUFFICES ASSUME ScanInv PROVE TypeOK
    OBVIOUS
  <2>1. AccountInv /\ RowsInv /\ RowTypes /\ Shaped /\ query \in Queries
    BY DEF ScanInv, RowsInv, RowTypes, AccountInv
  <2>2. Len(query.files) \in Nat /\ nextFile \in Nat
    BY <2>1, QueryIs DEF RowTypes
  <2>3. nextFile \in 0 .. Len(query.files) + Cardinality(Threads)
    <3>1. Spent \subseteq Threads
      BY DEF Spent
    <3>2. /\ Cardinality(Spent) <= Cardinality(Threads)
          /\ Cardinality(Spent) \in Nat /\ Cardinality(Threads) \in Nat
      BY <3>1, DirectAssumption, FS_Subset, FS_CardinalityType
    <3>3. nextFile <= Len(query.files) + Cardinality(Spent)
      BY <2>1 DEF RowsInv
    <3>4. QED BY <2>2, <3>2, <3>3
  <2>4. counts \in [Kinds -> 0 .. Len(query.files)]
    <3>1. /\ counts \in [Kinds -> Nat]
          /\ counts["completed"] \in Nat /\ counts["failed"] \in Nat
          /\ counts["unavailable"] \in Nat /\ counts["skipped"] \in Nat
      BY <2>1 DEF Shaped, Kinds
    <3>2. Total <= Len(query.files)
      <4>1. Total \in Nat
        BY <3>1 DEF Total
      <4>2. QED BY <2>1, <2>2, <4>1, Sum, HandIsFinite DEF AccountInv, Min2
    <3>3. \A k \in Kinds : counts[k] \in 0 .. Len(query.files)
      BY <2>2, <3>1, <3>2 DEF Kinds, Total
    <3>4. QED BY <3>1, <3>3
  <2>5. /\ task \in [Threads -> [file: 0 .. Len(query.files) - 1, attempt: 0 .. Attempts]]
        /\ local \in [Threads -> [active: BOOLEAN, row: Nat, end: Nat, cached: BOOLEAN, elem: Nat]]
    BY <2>1 DEF RowTypes, Tasks, Cursors
  <2>6. QED BY <2>1, <2>3, <2>4, <2>5 DEF TypeOK, RowTypes
<1>2. QED BY <1>1, ScanIsInvariant, PTL

\* Whatever the interleaving of the claims, a row is in one chunk or was returned, once,
\* and only if its file, its entry and the row itself pass the filters.
THEOREM RowsReturnedAtMostOnce == Spec => []RowsAtMostOnce
<1>1. ScanInv => RowsAtMostOnce
  <2> SUFFICES ASSUME ScanInv, NEW r \in AllRows
               PROVE  Times(r) <= (IF r \in Selected THEN 1 ELSE 0)
    BY DEF RowsAtMostOnce
  <2> DEFINE Pairs == {p \in Threads \X (1 .. Capacity) :
                          p[2] \in DOMAIN chunk[p[1]] /\ chunk[p[1]][p[2]] = r}
  <2>1. RowInv(r) /\ returned[r] \in Nat
    BY DEF ScanInv, RowsInv, RowTypes
  <2>2. Times(r) = returned[r] + Cardinality(Pairs)
    BY DEF Times
  <2>3. \A p \in Pairs : InChunk(p[1], r) /\ p[1] \in Threads
    BY DEF InChunk
  <2>4. CASE \E p \in Pairs : TRUE
    <3>1. PICK p \in Pairs : TRUE
      BY <2>4
    <3>2. returned[r] = 0 /\ r \in Selected
      BY <2>1, <2>3, <3>1 DEF RowInv, OutOnce, Out
    <3>3. ASSUME NEW q \in Pairs PROVE q = p
      <4>1. q[1] = p[1]
        BY <2>1, <2>3, <3>1 DEF RowInv, OutOnce
      <4>2. q[2] = p[2]
        BY <2>1, <2>3, <3>1, <4>1 DEF RowInv, OutOnce
      <4>3. q = <<q[1], q[2]>> /\ p = <<p[1], p[2]>>
        OBVIOUS
      <4>4. QED BY <4>1, <4>2, <4>3
    <3> HIDE DEF Pairs
    <3>4. Pairs = {p}
      BY <3>1, <3>3
    <3>5. Cardinality(Pairs) = 1
      BY <3>4, FS_Singleton
    <3>6. QED BY <2>2, <3>2, <3>5
  <2>5. CASE ~ \E p \in Pairs : TRUE
    <3> HIDE DEF Pairs
    <3>1. Pairs = {}
      BY <2>5
    <3>2. Cardinality(Pairs) = 0
      BY <3>1, FS_EmptySet
    <3>3. returned[r] <= 1 /\ (returned[r] # 0 => r \in Selected)
      BY <2>1 DEF RowInv, OutOnce, Out
    <3>4. QED BY <2>1, <2>2, <3>2, <3>3
  <2>6. QED BY <2>4, <2>5
<1>2. QED BY <1>1, ScanIsInvariant, PTL

\* When every thread has ended its scan without an error, no selected row is ahead of a
\* cursor, in a chunk, or in a file or a batch that nobody claimed.
THEOREM ScanReturnsAll == Spec => []ResultIsComplete
<1>1. ScanInv => ResultIsComplete
  <2> SUFFICES ASSUME ScanInv, \A t \in Threads : pc[t] = "done", NEW r \in Selected
               PROVE  returned[r] = 1
    BY DEF ResultIsComplete
  <2>1. r \in AllRows /\ query.entries[1] <= r[2] /\ r[2] <= query.entries[2]
    BY DEF Selected
  <2>2. RowInv(r) /\ RowTypes /\ returned[r] \in Nat /\ query \in Queries /\ nextFile \in Nat /\ nextRow \in Nat
    BY <2>1 DEF ScanInv, RowsInv, RowTypes
  <2>3. /\ query.entries[1] \in Nat /\ query.entries[2] \in Nat /\ Len(query.files) \in Nat
        /\ r[1] \in 0 .. Len(query.files) - 1 /\ r[2] \in 0 .. Entries(r[1]) - 1
        /\ r[1] \in Nat /\ r[2] \in Nat /\ Entries(r[1]) \in Nat
    <3>1. r[1] \in 0 .. Len(query.files) - 1 /\ r[2] \in 0 .. Entries(r[1]) - 1 /\ r[1] \in Nat /\ r[2] \in Nat
      BY <2>1, <2>2, RowIs
    <3>2. QED BY <2>2, <3>1, QueryIs
  <2>4. ~ Impossible
    BY <2>1, <2>3 DEF Impossible
  <2>5. ASSUME NEW t \in Threads
        PROVE  /\ ~ Works(local[t]) /\ ~ Pending(t, r) /\ ~ InChunk(t, r)
               /\ IF IsMultiFile THEN nextFile >= Len(query.files) ELSE NoMoreEntries
    <3>1. /\ chunk[t] = <<>> /\ ~ Works(local[t])
          /\ IF IsMultiFile THEN nextFile >= Len(query.files) ELSE NoMoreEntries
      BY <2>4 DEF ScanInv, RowsInv, ThreadInv, ThreadAt
    <3>2. ~ InChunk(t, r)
      BY <3>1 DEF InChunk
    <3>3. local[t].row \in Nat /\ local[t].end \in Nat
      BY <2>2, ThreadIs
    <3>4. ~ Ahead(local[t], r)
      BY <2>3, <3>1, <3>3 DEF Ahead, Works
    <3>5. ~ Pending(t, r)
      BY <3>4 DEF Pending, PendingAt
    <3>6. QED BY <3>1, <3>2, <3>5
  <2>6. PICK t : t \in Threads
    BY DirectAssumption
  <2>7. Claimed(r)
    <3>1. CASE IsMultiFile
      <4>1. nextFile >= Len(query.files)
        BY <2>5, <2>6, <3>1
      <4>2. QED BY <2>2, <2>3, <3>1, <4>1 DEF Claimed
    <3>2. CASE ~ IsMultiFile
      <4>1. r[1] = 0
        <5>1. Len(query.files) = 1
          BY <2>2, <3>2, SingleFile
        <5>2. r[1] \in 0 .. 0
          BY <2>3, <5>1
        <5>3. QED BY <5>2
      <4>2. r[2] < Entries(0) /\ Entries(0) \in Nat
        BY <2>3, <4>1
      <4>3. r[2] < End(Entries(0)) /\ End(Entries(0)) \in Nat
        BY <2>1, <2>3, <4>2 DEF End, Min2
      <4>4. nextRow >= End(Entries(0))
        BY <2>5, <2>6, <3>2 DEF NoMoreEntries
      <4>5. QED BY <2>2, <2>3, <3>2, <4>3, <4>4 DEF Claimed
    <3>3. QED BY <3>1, <3>2
  <2>8. Out(r)
    <3>1. ~ Broken
      BY DEF Broken
    <3>2. QED BY <2>2, <2>5, <2>7, <3>1 DEF RowInv
  <2>9. returned[r] # 0 /\ returned[r] <= 1
    BY <2>2, <2>5, <2>8 DEF Out, RowInv, OutOnce
  <2>10. QED BY <2>2, <2>9
<1>2. QED BY <1>1, ScanIsInvariant, PTL
=============================================================================
