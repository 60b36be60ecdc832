------------------------- MODULE IndexWorkersProofs -------------------------
(***************************************************************************)
(* Theorems about IndexWorkers for every number of files and of threads.   *)
(***************************************************************************)
EXTENDS IndexWorkers, FiniteSetTheorems, TLAPS

(***************************************************************************)
(* Type correctness.                                                       *)
(***************************************************************************)

\* The states of a thread between two steps: it has a file in hand exactly
\* where its code uses one.
Thread == {r \in WorkerState :
             /\ r.pc = "build" => r.file # NoFile
             /\ r.pc \in {"open", "claim", "finish", "done"} => r.file = NoFile}

TInv == BuildTypeOK /\ ws \in [Workers -> Thread]

LEMMA BufferedType ==
    ASSUME NEW r \in WorkerState, r.file # NoFile
    PROVE  Buffered(r) \in WorkerState /\ Buffered(r).file = r.file
BY DEF WorkerState, Buffered

LEMMA RecordedType ==
    ASSUME NEW r \in WorkerState, r.file # NoFile
    PROVE  Recorded(r) \in Thread
BY DEF WorkerState, Thread, Recorded

LEMMA DrainedType ==
    ASSUME NEW r \in WorkerState
    PROVE  /\ Drained(r) \in WorkerState
           /\ Drained(r).file = r.file
<1>1. r.number + 1 \in Nat
  BY DEF WorkerState
<1>2. QED BY <1>1 DEF WorkerState, Drained

\* The positions of a thread without a file, and with one.
LEMMA EmptyHanded ==
    ASSUME NEW r \in WorkerState, NEW p \in {"open", "claim", "finish", "done"}
    PROVE  [r EXCEPT !.pc = p, !.file = NoFile] \in Thread
BY DEF WorkerState, Thread

LEMMA Moved ==
    ASSUME NEW r \in WorkerState, r.file = NoFile,
           NEW p \in {"open", "claim", "finish", "done"}
    PROVE  [r EXCEPT !.pc = p] \in Thread
BY DEF WorkerState, Thread

LEMMA Flushing ==
    ASSUME NEW r \in WorkerState
    PROVE  [r EXCEPT !.pc = "flush"] \in Thread
BY DEF WorkerState, Thread

\* A failing writer and a starting flush keep the types.
LEMMA WriterFailsType ==
    ASSUME TInv, NEW w \in Workers, WriterFails(w)
    PROVE  status' \in [Files -> {"none", "OK", "ERROR"}] /\ ws' \in [Workers -> Thread]
<1>1. [ws[w] EXCEPT !.pc = "done", !.file = NoFile] \in Thread
  <2>1. ws[w] \in WorkerState
    BY DEF TInv, BuildTypeOK
  <2>2. QED BY <2>1, EmptyHanded
<1>2. QED BY <1>1 DEF TInv, BuildTypeOK, WriterFails, SetWorker

LEMMA StartFlushType ==
    ASSUME TInv, NEW w \in Workers, NEW r \in WorkerState, StartFlush(w, r)
    PROVE  /\ pending' \in [Ids -> SUBSET (Nat \X Nat)]
           /\ status' \in [Files -> {"none", "OK", "ERROR"}]
           /\ ws' \in [Workers -> Thread]
<1>1. CASE Collides(w)
  BY <1>1, WriterFailsType DEF StartFlush, TInv, BuildTypeOK
<1>2. CASE ~Collides(w)
  <2>1. base + w \in Nat /\ r.number \in Nat
    BY SizeAssumption DEF TInv, BuildTypeOK, Workers, WorkerState
  <2>2. pending' \in [Ids -> SUBSET (Nat \X Nat)]
    BY <1>2, <2>1 DEF StartFlush, TInv, BuildTypeOK
  <2>3. ws' \in [Workers -> Thread]
    BY <1>2, Flushing DEF StartFlush, SetWorker, TInv
  <2>4. QED BY <1>2, <2>2, <2>3 DEF StartFlush, TInv, BuildTypeOK
<1>3. QED BY <1>1, <1>2

LEMMA CommitSegmentType ==
    ASSUME BuildTypeOK, NEW w \in Workers, CommitSegment(w)
    PROVE  segs' \in [Ids -> SUBSET Segment] /\ pending' \in [Ids -> SUBSET (Nat \X Nat)]
<1>1. base + w \in Nat
  BY SizeAssumption DEF BuildTypeOK, Workers
<1>2. [worker |-> base + w, number |-> ws[w].number, files |-> ws[w].buffer,
       schema |-> ws[w].rows, errors |-> planErr, intact |-> TRUE] \in Segment
  BY <1>1 DEF BuildTypeOK, WorkerState, Segment
<1>3. QED BY <1>1, <1>2 DEF CommitSegment, BuildTypeOK

LEMMA TypeInit == BuildInit => TInv
<1> SUFFICES ASSUME BuildInit PROVE TInv
  OBVIOUS
<1>1. PICK R \in SUBSET (Files \ planErr) :
        /\ status = [f \in Files |-> IF f \in R THEN "OK"
                                     ELSE IF f \in planErr THEN "ERROR" ELSE "none"]
        /\ indexed = Cardinality(R)
        /\ segs = [i \in Ids |->
                     IF i = sid /\ R # {}
                     THEN {[worker |-> 0, number |-> 0, files |-> R,
                            schema |-> Columns, errors |-> planErr, intact |-> TRUE]}
                     ELSE {}]
        /\ dirs = [i \in Ids |-> IF i = sid /\ R # {} THEN {0} ELSE {}]
  BY DEF BuildInit
<1>2. Cardinality(R) \in Nat
  <2>1. IsFiniteSet(Files)
    BY SizeAssumption, FS_Interval DEF Files
  <2>2. QED BY <2>1, FS_Subset, FS_CardinalityType
<1>3. base \in Nat
  <2>1. dirs[sid] = {} \/ dirs[sid] = {0}
    BY <1>1 DEF BuildInit
  <2>2. base = NextWorkerId(dirs[sid])
    BY DEF BuildInit
  <2>3. {m + 1 : m \in {0}} = {1}
    OBVIOUS
  <2>4. (CHOOSE n \in {1} : \A m \in {0} : m < n) = 1
    OBVIOUS
  <2>5. QED BY <2>1, <2>2, <2>3, <2>4 DEF NextWorkerId
<1>4. ws \in [Workers -> Thread] /\ ws \in [Workers -> WorkerState]
  <2>1. FreshWorker \in Thread
    BY DEF FreshWorker, WorkerState, Thread, NoFile
  <2>2. QED BY <2>1 DEF BuildInit, Thread
<1>5. segs \in [Ids -> SUBSET Segment]
  <2>1. [worker |-> 0, number |-> 0, files |-> R, schema |-> Columns, errors |-> planErr, intact |-> TRUE] \in Segment
    BY DEF BuildInit, Segment
  <2>2. QED BY <1>1, <2>1
<1>6. dirs \in [Ids -> SUBSET Nat] /\ pending \in [Ids -> SUBSET (Nat \X Nat)]
  BY <1>1 DEF BuildInit
<1>7. status \in [Files -> {"none", "OK", "ERROR"}]
  BY <1>1
<1>8. sid \in Ids /\ planErr \subseteq Files /\ next \in Nat \ {0}
  BY DEF BuildInit
<1>9. QED
  BY <1>1, <1>2, <1>3, <1>4, <1>5, <1>6, <1>7, <1>8 DEF TInv, BuildTypeOK

LEMMA TypeStep == TInv /\ [BuildNext]_buildVars => TInv'
<1> SUFFICES ASSUME TInv, [BuildNext]_buildVars PROVE TInv'
  OBVIOUS
<1>0. CASE UNCHANGED buildVars
  BY <1>0 DEF TInv, BuildTypeOK, buildVars, Thread
<1>1. ASSUME NEW w \in Workers, WorkerStep(w) PROVE TInv'
  <2> USE <1>1
  <2>a. ws[w] \in WorkerState /\ ws[w] \in Thread /\ base + w \in Nat /\ ws \in [Workers -> Thread]
    BY SizeAssumption DEF TInv, BuildTypeOK, Workers
  <2>b. ASSUME ws' \in [Workers -> Thread] PROVE ws' \in [Workers -> WorkerState]
    BY <2>b DEF Thread
  <2>c. ws[w].pc \in {"open", "claim", "finish", "done"} => ws[w].file = NoFile
    BY <2>a DEF Thread
  <2>d. ASSUME NEW r \in Thread, SetWorker(w, r) PROVE ws' \in [Workers -> Thread]
    BY <2>a, <2>d DEF SetWorker
  <2>1. CASE OpenWriter(w)
    <3>1. ws' \in [Workers -> Thread]
      BY <2>1, <2>a, <2>c, <2>d, Moved DEF OpenWriter
    <3>2. QED BY <2>1, <2>a, <2>b, <3>1 DEF OpenWriter, TInv, BuildTypeOK
  <2>2. CASE OpenWriterFails(w)
    <3>1. ws' \in [Workers -> Thread]
      BY <2>2, <2>a, <2>c, <2>d, Moved DEF OpenWriterFails
    <3>2. QED BY <2>2, <2>a, <2>b, <3>1 DEF OpenWriterFails, TInv, BuildTypeOK
  <2>3. CASE Claim(w)
    <3>1. next + 1 \in Nat \ {0} /\ (next <= NFiles => next \in Files /\ next # NoFile)
      BY SizeAssumption DEF TInv, BuildTypeOK, Files, NoFile
    <3>2. next \in Files => [ws[w] EXCEPT !.pc = "build", !.file = next] \in WorkerState
      BY <2>a DEF WorkerState
    <3>3. next <= NFiles => [ws[w] EXCEPT !.pc = "build", !.file = next] \in Thread
      BY <3>1, <3>2, <2>a DEF Thread, WorkerState
    <3>4. [ws[w] EXCEPT !.pc = "finish"] \in Thread
      BY <2>3, <2>a, <2>c, Moved DEF Claim
    <3>5. next \in Nat /\ NFiles \in Nat
      BY SizeAssumption DEF TInv, BuildTypeOK
    <3>6. ws' \in [Workers -> Thread]
      BY <2>3, <2>a, <2>d, <3>3, <3>4, <3>5 DEF Claim
    <3>7. QED BY <2>3, <2>b, <3>1, <3>6 DEF Claim, TInv, BuildTypeOK
  <2>4. CASE BuildFileFails(w)
    <3>1. ws' \in [Workers -> Thread]
      BY <2>4, <2>a, <2>d, EmptyHanded DEF BuildFileFails
    <3>2. QED BY <2>4, <2>b, <3>1 DEF BuildFileFails, TInv, BuildTypeOK
  <2>5. CASE Append(w)
    <3>1. ws[w].file # NoFile
      BY <2>5, <2>a DEF Append, Thread
    <3>2. ws' \in [Workers -> Thread]
      BY <2>5, <2>a, <2>d, <3>1, BufferedType, RecordedType DEF Append
    <3>3. indexed + 1 \in Nat
      BY DEF TInv, BuildTypeOK
    <3>4. QED BY <2>5, <2>b, <3>2, <3>3 DEF Append, TInv, BuildTypeOK
  <2>6. CASE AppendFails(w)
    BY <2>6, <2>b, WriterFailsType DEF AppendFails, TInv, BuildTypeOK
  <2>7. CASE AppendAndFlush(w)
    <3>1. Buffered(ws[w]) \in WorkerState
      BY <2>7, <2>a, BufferedType DEF AppendAndFlush, Thread
    <3>2. QED BY <2>7, <2>b, <3>1, StartFlushType DEF AppendAndFlush, TInv, BuildTypeOK
  <2>8. CASE Finish(w)
    <3>1. CASE ws[w].buffer = {}
      <4>1. ws' \in [Workers -> Thread]
        BY <2>8, <3>1, <2>a, <2>c, <2>d, Moved DEF Finish
      <4>2. QED BY <2>8, <3>1, <2>b, <4>1 DEF Finish, TInv, BuildTypeOK
    <3>2. CASE ws[w].buffer # {}
      BY <2>8, <3>2, <2>a, <2>b, StartFlushType DEF Finish, TInv, BuildTypeOK
    <3>3. QED BY <3>1, <3>2
  <2>9. CASE CommitFlush(w)
    <3>1. segs' \in [Ids -> SUBSET Segment] /\ pending' \in [Ids -> SUBSET (Nat \X Nat)]
      BY <2>9, CommitSegmentType DEF CommitFlush, TInv
    <3>2. Drained(ws[w]) \in WorkerState /\ Drained(ws[w]).file = ws[w].file
      BY <2>a, DrainedType
    <3>3. CASE ws[w].file = NoFile
      <4>1. ws' \in [Workers -> Thread]
        BY <2>9, <2>d, <3>2, <3>3, Moved DEF CommitFlush
      <4>2. QED BY <2>9, <2>b, <3>1, <3>3, <4>1 DEF CommitFlush, TInv, BuildTypeOK
    <3>4. CASE ws[w].file # NoFile
      <4>1. ws' \in [Workers -> Thread]
        BY <2>9, <2>d, <3>2, <3>4, RecordedType DEF CommitFlush
      <4>2. indexed + 1 \in Nat
        BY DEF TInv, BuildTypeOK
      <4>3. QED BY <2>9, <2>b, <3>1, <3>4, <4>1, <4>2 DEF CommitFlush, TInv, BuildTypeOK
    <3>5. QED BY <3>3, <3>4
  <2>10. CASE FlushFails(w)
    BY <2>10, <2>b, WriterFailsType DEF FlushFails, TInv, BuildTypeOK
  <2>11. CASE FlushFailsLate(w)
    BY <2>11, <2>b, WriterFailsType, CommitSegmentType DEF FlushFailsLate, TInv, BuildTypeOK
  <2>12. QED
    BY <2>1, <2>2, <2>3, <2>4, <2>5, <2>6, <2>7, <2>8, <2>9, <2>10, <2>11 DEF WorkerStep
<1>2. QED BY <1>0, <1>1 DEF BuildNext

\* Every variable of a running BuildFiles keeps its type, for any number of
\* files and threads.
THEOREM TypeCorrect == BuildSpec => []BuildTypeOK
<1>1. TInv => BuildTypeOK
  BY DEF TInv
<1>2. QED
  BY <1>1, TypeInit, TypeStep, PTL DEF BuildSpec

-----------------------------------------------------------------------------
(***************************************************************************)
(* Exactly once: no file is in two segments.                               *)
(***************************************************************************)

\* The files that are still to reach a segment through the hands of a thread.
Held(w) == IF ws[w].pc = "done" THEN {}
           ELSE ws[w].buffer \cup ({ws[w].file} \ {NoFile})

\* The claim counter separates what threads hold from what is left to claim;
\* a file of a segment that is left to claim is OK, so that Claim skips it.
HeldIsClaimed   == \A w \in Workers : \A f \in Held(w) \cup ws[w].staged : f < next
HeldOnce        == \A w, v \in Workers : w # v => Held(w) \cap Held(v) = {}
HeldIsUnwritten == \A w \in Workers, s \in segs[sid] : Held(w) \cap s.files = {}
WrittenIsOK     == \A s \in segs[sid] : \A f \in s.files : f >= next => status[f] = "OK"

OnceInv == HeldIsClaimed /\ HeldOnce /\ HeldIsUnwritten /\ WrittenIsOK /\ ExactlyOnce


\* What a step of one thread leaves alone.
LEMMA OneThread ==
    ASSUME TInv, NEW w \in Workers, NEW r, SetWorker(w, r)
    PROVE  ws'[w] = r /\ \A v \in Workers : v # w => ws'[v] = ws[v]
BY DEF TInv, SetWorker

\* A step that commits no segment and claims no file: a thread may only lose
\* files or stage those it holds, and only statuses of claimed files change.
LEMMA LosingKeepsOnce ==
    ASSUME TInv, OnceInv,
           \A v \in Workers : Held(v)' \subseteq Held(v),
           \A v \in Workers : ws'[v].staged \subseteq ws[v].staged \cup Held(v),
           \A f \in Files : f >= next => status'[f] = status[f],
           segs' = segs, sid' = sid, next' = next
    PROVE  OnceInv'
<1>1. HeldIsClaimed'
  BY DEF OnceInv, HeldIsClaimed
<1>2. HeldOnce'
  BY DEF OnceInv, HeldOnce
<1>3. HeldIsUnwritten'
  BY DEF OnceInv, HeldIsUnwritten
<1>4. \A s \in segs[sid] : s.files \subseteq Files
  BY DEF TInv, BuildTypeOK, Segment
<1>5. WrittenIsOK'
  BY <1>4 DEF OnceInv, WrittenIsOK
<1>6. ExactlyOnce'
  BY DEF OnceInv, ExactlyOnce
<1>7. QED BY <1>1, <1>2, <1>3, <1>5, <1>6 DEF OnceInv

\* A flush moves the files of the buffer from the hands of the thread into a
\* segment; the thread holds nothing afterwards.
LEMMA CommitKeepsOnce ==
    ASSUME TInv, OnceInv, NEW w \in Workers,
           ws[w].pc = "flush", CommitSegment(w),
           Held(w)' = {}, \A v \in Workers : v # w => Held(v)' = Held(v),
           \A v \in Workers : ws'[v].staged \subseteq ws[v].staged \cup Held(v),
           \A f \in Files : f >= next => status'[f] = status[f],
           sid' = sid, next' = next
    PROVE  OnceInv'
<1> DEFINE new == [worker |-> base + w, number |-> ws[w].number, files |-> ws[w].buffer,
                   schema |-> ws[w].rows, errors |-> planErr, intact |-> TRUE]
<1>1. new.files \subseteq Held(w)
  BY DEF Held
<1>2. sid \in Ids /\ segs'[sid] = segs[sid] \cup {new}
      /\ \A i \in Ids : i # sid => segs'[i] = segs[i]
  BY DEF CommitSegment, TInv, BuildTypeOK
<1> HIDE DEF new
<1>3. \A v \in Workers : Held(v)' \subseteq Held(v)
  OBVIOUS
<1>4. HeldIsClaimed'
  BY <1>3 DEF OnceInv, HeldIsClaimed
<1>5. HeldOnce'
  BY <1>3 DEF OnceInv, HeldOnce
<1>6. HeldIsUnwritten'
  <2>1. ASSUME NEW v \in Workers PROVE Held(v)' \cap new.files = {}
    BY <1>1 DEF OnceInv, HeldOnce
  <2>2. QED BY <1>2, <1>3, <2>1 DEF OnceInv, HeldIsUnwritten
<1>7. WrittenIsOK'
  <2>1. \A s \in segs[sid] : s.files \subseteq Files
    BY DEF TInv, BuildTypeOK, Segment
  <2>2. \A f \in new.files : f \in Files /\ f < next
    BY <1>1 DEF OnceInv, HeldIsClaimed, new, TInv, BuildTypeOK, WorkerState
  <2>3. next \in Nat /\ \A f \in Files : f \in Nat
    BY SizeAssumption DEF TInv, BuildTypeOK, Files
  <2>4. QED BY <1>2, <2>1, <2>2, <2>3 DEF OnceInv, WrittenIsOK
<1>8. ExactlyOnce'
  <2>1. \A s \in segs[sid] : s.files \cap new.files = {}
    BY <1>1 DEF OnceInv, HeldIsUnwritten
  <2>2. QED BY <1>2, <2>1 DEF OnceInv, ExactlyOnce
<1>9. QED BY <1>4, <1>5, <1>6, <1>7, <1>8 DEF OnceInv

\* Claim takes the next file only when no thread and no segment has it.
LEMMA ClaimKeepsOnce ==
    ASSUME TInv, OnceInv, NEW w \in Workers, Claim(w)
    PROVE  OnceInv'
<1>1. next \in Nat /\ next' = next + 1 /\ segs' = segs /\ sid' = sid /\ status' = status
  BY DEF Claim, TInv, BuildTypeOK
<1>2. ws[w] \in WorkerState /\ ws[w].pc = "claim" /\ ws[w].file = NoFile
  BY DEF Claim, TInv, BuildTypeOK, Thread
<1>3. /\ ws'[w].buffer = ws[w].buffer /\ ws'[w].staged = ws[w].staged
      /\ ws'[w].pc # "done"
      /\ ws'[w].file = NoFile \/ (ws'[w].file = next /\ next <= NFiles /\ status[next] # "OK")
      /\ \A v \in Workers : v # w => ws'[v] = ws[v]
  <2> DEFINE r == IF next > NFiles THEN [ws[w] EXCEPT !.pc = "finish"]
                  ELSE IF next \in planErr \/ status[next] = "OK" THEN ws[w]
                  ELSE [ws[w] EXCEPT !.pc = "build", !.file = next]
  <2>1. ws'[w] = r /\ \A v \in Workers : v # w => ws'[v] = ws[v]
    BY OneThread DEF Claim
  <2>2. NFiles \in Nat
    BY SizeAssumption
  <2>a. /\ next > NFiles => r = [ws[w] EXCEPT !.pc = "finish"]
        /\ next <= NFiles =>
             \/ r = ws[w]
             \/ r = [ws[w] EXCEPT !.pc = "build", !.file = next] /\ status[next] # "OK"
    BY <1>1, <2>2
  <2>3. /\ r.buffer = ws[w].buffer /\ r.staged = ws[w].staged /\ r.pc # "done"
        /\ r.file = NoFile \/ (r.file = next /\ next <= NFiles /\ status[next] # "OK")
    BY <1>1, <1>2, <2>2, <2>a DEF WorkerState
  <2> HIDE DEF r
  <2>4. QED BY <2>1, <2>3
<1>4. Held(w)' \subseteq Held(w) \cup {next} /\ \A v \in Workers : v # w => Held(v)' = Held(v)
  BY <1>2, <1>3 DEF Held
<1>5. next \in Held(w)' => next \in Files /\ status[next] # "OK"
  <2>1. next \notin Held(w)
    BY <1>1 DEF OnceInv, HeldIsClaimed
  <2>2. next \in Held(w)' => ws'[w].file = next /\ next # NoFile
    BY <2>1, <1>2, <1>3 DEF Held
  <2>3. QED BY <2>2, <1>1, <1>3, SizeAssumption DEF Files, NoFile
<1>6. \A v \in Workers : \A f \in Held(v) \cup ws[v].staged : f \in Nat
  BY SizeAssumption DEF Held, TInv, BuildTypeOK, WorkerState, Files, NoFile
<1>7. HeldIsClaimed'
  <2>1. ASSUME NEW v \in Workers, NEW f \in Held(v)' \cup ws'[v].staged PROVE f < next + 1
    <3>1. f \in Held(v) \cup ws[v].staged \/ f = next
      BY <1>3, <1>4
    <3>2. QED BY <3>1, <1>1, <1>6 DEF OnceInv, HeldIsClaimed
  <2>2. QED BY <2>1, <1>1 DEF HeldIsClaimed
<1>8. HeldOnce'
  <2>1. \A v \in Workers : next \notin Held(v)
    BY <1>1 DEF OnceInv, HeldIsClaimed
  <2>2. QED BY <1>4, <2>1 DEF OnceInv, HeldOnce
<1>9. HeldIsUnwritten'
  <2>1. ASSUME NEW s \in segs[sid], next \in s.files PROVE status[next] = "OK"
    BY <2>1, <1>1 DEF OnceInv, WrittenIsOK
  <2>2. QED BY <1>1, <1>4, <1>5, <2>1 DEF OnceInv, HeldIsUnwritten
<1>10. WrittenIsOK'
  <2>1. \A s \in segs[sid] : s.files \subseteq Files
    BY DEF TInv, BuildTypeOK, Segment
  <2>2. \A f \in Files : f >= next + 1 => f >= next
    BY <1>1, SizeAssumption DEF Files
  <2>3. QED BY <1>1, <2>1, <2>2 DEF OnceInv, WrittenIsOK
<1>11. ExactlyOnce'
  BY <1>1 DEF OnceInv, ExactlyOnce
<1>12. QED BY <1>7, <1>8, <1>9, <1>10, <1>11 DEF OnceInv

\* A writer that fails, or a flush that starts, only touches claimed files.
LEMMA FailingLoses ==
    ASSUME TInv, OnceInv, NEW w \in Workers, WriterFails(w)
    PROVE  /\ Held(w)' = {} /\ \A v \in Workers : v # w => Held(v)' = Held(v)
           /\ \A v \in Workers : ws'[v].staged = ws[v].staged
           /\ \A f \in Files : f >= next => status'[f] = status[f]
<1>1. ws'[w] = [ws[w] EXCEPT !.pc = "done", !.file = NoFile]
      /\ \A v \in Workers : v # w => ws'[v] = ws[v]
  BY OneThread DEF WriterFails
<1>2. ws'[w].pc = "done" /\ ws'[w].staged = ws[w].staged
  BY <1>1 DEF TInv, BuildTypeOK, WorkerState
<1>3. ASSUME NEW f \in Files, f >= next PROVE f # ws[w].file /\ f \notin ws[w].staged
  <2>1. next \in Nat /\ f \in Nat
    BY SizeAssumption DEF TInv, BuildTypeOK, Files
  <2>2. f \notin ws[w].staged /\ f \notin Held(w)
    BY <1>3, <2>1 DEF OnceInv, HeldIsClaimed
  <2>3. ws[w].pc = "done" => ws[w].file = NoFile
    BY DEF TInv, Thread
  <2>4. f # NoFile
    BY SizeAssumption DEF Files, NoFile
  <2>5. QED BY <2>2, <2>3, <2>4 DEF Held
<1>4. QED BY <1>1, <1>2, <1>3 DEF Held, WriterFails

LEMMA StartFlushLoses ==
    ASSUME TInv, OnceInv, NEW w \in Workers, NEW r \in WorkerState, StartFlush(w, r),
           ws[w].pc # "done", r.file = ws[w].file, r.staged = ws[w].staged,
           r.buffer \subseteq Held(w)
    PROVE  /\ \A v \in Workers : Held(v)' \subseteq Held(v) /\ ws'[v].staged = ws[v].staged
           /\ \A f \in Files : f >= next => status'[f] = status[f]
<1>1. CASE Collides(w)
  BY <1>1, FailingLoses DEF StartFlush
<1>2. CASE ~Collides(w)
  <2>1. ws'[w] = [r EXCEPT !.pc = "flush"] /\ \A v \in Workers : v # w => ws'[v] = ws[v]
    BY <1>2, OneThread DEF StartFlush
  <2>2. /\ ws'[w].pc = "flush" /\ ws'[w].file = r.file
        /\ ws'[w].buffer = r.buffer /\ ws'[w].staged = r.staged
    BY <2>1 DEF WorkerState
  <2>3. QED BY <1>2, <2>1, <2>2 DEF StartFlush, Held
<1>3. QED BY <1>1, <1>2

\* The file in hand of a thread was claimed.
LEMMA HandIsClaimed ==
    ASSUME TInv, OnceInv, NEW w \in Workers, ws[w].file # NoFile
    PROVE  ws[w].file \in Held(w) /\ ws[w].file < next
<1>1. ws[w].pc # "done"
  BY DEF TInv, Thread
<1>2. QED BY <1>1 DEF Held, OnceInv, HeldIsClaimed

LEMMA OnceInit == BuildInit => OnceInv
<1> SUFFICES ASSUME BuildInit PROVE OnceInv
  OBVIOUS
<1>1. \A w \in Workers : Held(w) = {} /\ ws[w].staged = {}
  BY DEF BuildInit, FreshWorker, Held
<1>2. HeldIsClaimed /\ HeldOnce /\ HeldIsUnwritten
  BY <1>1 DEF HeldIsClaimed, HeldOnce, HeldIsUnwritten
<1>3. PICK R \in SUBSET (Files \ planErr) :
        /\ status = [f \in Files |-> IF f \in R THEN "OK"
                                     ELSE IF f \in planErr THEN "ERROR" ELSE "none"]
        /\ segs = [i \in Ids |->
                     IF i = sid /\ R # {}
                     THEN {[worker |-> 0, number |-> 0, files |-> R,
                            schema |-> Columns, errors |-> planErr, intact |-> TRUE]}
                     ELSE {}]
  BY DEF BuildInit
<1>4. \A i \in Ids : \A s \in segs[i] : s.files = R /\ \A t \in segs[i] : t = s
  <2> DEFINE old == [worker |-> 0, number |-> 0, files |-> R, schema |-> Columns, errors |-> planErr, intact |-> TRUE]
  <2>1. \A i \in Ids : segs[i] = {} \/ segs[i] = {old}
    BY <1>3
  <2>2. old.files = R
    OBVIOUS
  <2> HIDE DEF old
  <2>3. QED BY <2>1, <2>2
<1>5. WrittenIsOK /\ ExactlyOnce
  BY <1>3, <1>4 DEF WrittenIsOK, ExactlyOnce, BuildInit
<1>6. QED BY <1>2, <1>5 DEF OnceInv

LEMMA OnceStep == TInv /\ OnceInv /\ [BuildNext]_buildVars => OnceInv'
<1> SUFFICES ASSUME TInv, OnceInv, [BuildNext]_buildVars PROVE OnceInv'
  OBVIOUS
<1>0. CASE UNCHANGED buildVars
  BY <1>0 DEF buildVars, OnceInv, HeldIsClaimed, HeldOnce, HeldIsUnwritten, WrittenIsOK,
              ExactlyOnce, Held
<1>1. ASSUME NEW w \in Workers, WorkerStep(w) PROVE OnceInv'
  <2>a. ws[w] \in WorkerState /\ ws[w] \in Thread /\ next \in Nat
        /\ \A f \in Files : f \in Nat
    BY SizeAssumption DEF TInv, BuildTypeOK, Files
  <2>b. ASSUME NEW r \in WorkerState, SetWorker(w, r), ws[w].pc # "done",
               r.file \in {NoFile, ws[w].file},
               r.buffer \subseteq Held(w), r.staged \subseteq ws[w].staged \cup Held(w)
        PROVE  \A v \in Workers : Held(v)' \subseteq Held(v)
                                  /\ ws'[v].staged \subseteq ws[v].staged \cup Held(v)
    <3>1. ws'[w] = r /\ \A v \in Workers : v # w => ws'[v] = ws[v]
      BY <2>b, OneThread
    <3>2. QED BY <2>b, <3>1 DEF Held
  <2>c. ASSUME ws[w].file # NoFile, NEW x, status' = [status EXCEPT ![ws[w].file] = x]
        PROVE  \A f \in Files : f >= next => status'[f] = status[f]
    <3>1. ws[w].file < next /\ ws[w].file \in Files
      BY <2>a, <2>c, HandIsClaimed DEF WorkerState
    <3>2. QED BY <2>a, <2>c, <3>1
  <2>1. CASE OpenWriter(w)
    <3> DEFINE r == [ws[w] EXCEPT !.pc = "claim"]
    <3>1. /\ r \in WorkerState /\ r.file = ws[w].file
          /\ r.buffer = ws[w].buffer /\ r.staged = ws[w].staged
      BY <2>a DEF WorkerState
    <3>2. SetWorker(w, r) /\ ws[w].pc # "done"
      BY <2>1 DEF OpenWriter
    <3>3. ws[w].buffer \subseteq Held(w)
      BY <3>2 DEF Held
    <3> HIDE DEF r
    <3>4. QED BY <2>1, <2>b, <3>1, <3>2, <3>3, LosingKeepsOnce DEF OpenWriter
  <2>2. CASE OpenWriterFails(w)
    <3> DEFINE r == [ws[w] EXCEPT !.pc = "done"]
    <3>1. /\ r \in WorkerState /\ r.file = ws[w].file
          /\ r.buffer = ws[w].buffer /\ r.staged = ws[w].staged
      BY <2>a DEF WorkerState
    <3>2. SetWorker(w, r) /\ ws[w].pc # "done"
      BY <2>2 DEF OpenWriterFails
    <3>3. ws[w].buffer \subseteq Held(w)
      BY <3>2 DEF Held
    <3> HIDE DEF r
    <3>4. QED BY <2>2, <2>b, <3>1, <3>2, <3>3, LosingKeepsOnce DEF OpenWriterFails
  <2>3. CASE Claim(w)
    BY <2>3, ClaimKeepsOnce
  <2>4. CASE BuildFileFails(w)
    <3> DEFINE r == [ws[w] EXCEPT !.pc = "claim", !.file = NoFile]
    <3>1. /\ r \in WorkerState /\ r.file = NoFile
          /\ r.buffer = ws[w].buffer /\ r.staged = ws[w].staged
      BY <2>a DEF WorkerState
    <3>2. SetWorker(w, r) /\ ws[w].pc # "done" /\ ws[w].file # NoFile
      BY <2>4, <2>a DEF BuildFileFails, Thread
    <3>3. ws[w].buffer \subseteq Held(w)
      BY <3>2 DEF Held
    <3>4. status' = [status EXCEPT ![ws[w].file] = "ERROR"]
      BY <2>4 DEF BuildFileFails
    <3> HIDE DEF r
    <3>5. QED BY <2>4, <2>b, <2>c, <3>1, <3>2, <3>3, <3>4, LosingKeepsOnce DEF BuildFileFails
  <2>5. CASE Append(w)
    <3> DEFINE r == Recorded(Buffered(ws[w]))
    <3>1. ws[w].file # NoFile /\ ws[w].pc # "done" /\ SetWorker(w, r)
      BY <2>5, <2>a DEF Append, Thread
    <3>2. r \in WorkerState
      BY <2>a, <3>1, BufferedType, RecordedType DEF Thread
    <3>3. /\ r.file = NoFile /\ r.buffer = ws[w].buffer \cup {ws[w].file}
          /\ r.staged = ws[w].staged \cup {ws[w].file}
      BY <2>a DEF WorkerState, Recorded, Buffered
    <3>4. ws[w].buffer \cup {ws[w].file} \subseteq Held(w)
      BY <3>1 DEF Held
    <3>5. status' = [status EXCEPT ![ws[w].file] = "OK"]
      BY <2>5 DEF Append
    <3> HIDE DEF r
    <3>6. QED BY <2>5, <2>b, <2>c, <3>1, <3>2, <3>3, <3>4, <3>5, LosingKeepsOnce DEF Append
  <2>6. CASE AppendFails(w)
    BY <2>6, FailingLoses, LosingKeepsOnce DEF AppendFails
  <2>7. CASE AppendAndFlush(w)
    <3> DEFINE r == Buffered(ws[w])
    <3>1. ws[w].file # NoFile /\ ws[w].pc # "done" /\ StartFlush(w, r)
      BY <2>7, <2>a DEF AppendAndFlush, Thread
    <3>2. r \in WorkerState
      BY <2>a, <3>1, BufferedType
    <3>3. /\ r.file = ws[w].file /\ r.staged = ws[w].staged
          /\ r.buffer = ws[w].buffer \cup {ws[w].file}
      BY <2>a DEF WorkerState, Buffered
    <3>4. r.buffer \subseteq Held(w)
      BY <3>1, <3>3 DEF Held
    <3> HIDE DEF r
    <3>5. QED BY <2>7, <3>1, <3>2, <3>3, <3>4, StartFlushLoses, LosingKeepsOnce DEF AppendAndFlush
  <2>8. CASE Finish(w)
    <3>1. ws[w].pc # "done" /\ ws[w].buffer \subseteq Held(w)
      BY <2>8 DEF Finish, Held
    <3>2. CASE ws[w].buffer = {}
      <4> DEFINE r == [ws[w] EXCEPT !.pc = "done"]
      <4>1. /\ r \in WorkerState /\ r.file = ws[w].file
            /\ r.buffer = ws[w].buffer /\ r.staged = ws[w].staged
        BY <2>a DEF WorkerState
      <4>2. SetWorker(w, r)
        BY <2>8, <3>2 DEF Finish
      <4> HIDE DEF r
      <4>3. QED BY <2>8, <3>2, <2>b, <3>1, <4>1, <4>2, LosingKeepsOnce DEF Finish
    <3>3. CASE ws[w].buffer # {}
      BY <2>8, <2>a, <3>1, <3>3, StartFlushLoses, LosingKeepsOnce DEF Finish
    <3>4. QED BY <3>2, <3>3
  <2>9. CASE CommitFlush(w)
    <3>1. ws[w].pc = "flush" /\ CommitSegment(w) /\ sid' = sid /\ next' = next
      BY <2>9 DEF CommitFlush
    <3>2. Drained(ws[w]) \in WorkerState /\ Drained(ws[w]).file = ws[w].file
          /\ Drained(ws[w]).buffer = {} /\ Drained(ws[w]).staged = ws[w].staged
      BY <2>a, DrainedType DEF WorkerState, Drained
    <3>3. CASE ws[w].file = NoFile
      <4> DEFINE r == [Drained(ws[w]) EXCEPT !.pc = "done"]
      <4>1. SetWorker(w, r) /\ status' = status
        BY <2>9, <3>3 DEF CommitFlush
      <4>2. r.pc = "done" /\ r.staged = ws[w].staged
        BY <3>2 DEF WorkerState
      <4>3. ws'[w] = r /\ \A v \in Workers : v # w => ws'[v] = ws[v]
        BY <4>1, OneThread
      <4> HIDE DEF r
      <4>4. QED BY <3>1, <4>1, <4>2, <4>3, CommitKeepsOnce DEF Held
    <3>4. CASE ws[w].file # NoFile
      <4> DEFINE r == Recorded(Drained(ws[w]))
      <4>1. SetWorker(w, r) /\ status' = [status EXCEPT ![ws[w].file] = "OK"]
        BY <2>9, <3>4 DEF CommitFlush
      <4>2. /\ r.pc = "claim" /\ r.file = NoFile /\ r.buffer = {}
            /\ r.staged = ws[w].staged \cup {ws[w].file}
        BY <3>2 DEF WorkerState, Recorded
      <4>3. ws'[w] = r /\ \A v \in Workers : v # w => ws'[v] = ws[v]
        BY <4>1, OneThread
      <4>4. ws[w].file \in Held(w)
        BY <3>4, HandIsClaimed
      <4> HIDE DEF r
      <4>5. Held(w)' = {} /\ \A v \in Workers : v # w => Held(v)' = Held(v)
        BY <4>2, <4>3 DEF Held
      <4>6. \A v \in Workers : ws'[v].staged \subseteq ws[v].staged \cup Held(v)
        BY <4>2, <4>3, <4>4
      <4>7. \A f \in Files : f >= next => status'[f] = status[f]
        BY <2>c, <3>4, <4>1
      <4>8. QED BY <3>1, <4>5, <4>6, <4>7, CommitKeepsOnce
    <3>5. QED BY <3>3, <3>4
  <2>10. CASE FlushFails(w)
    BY <2>10, FailingLoses, LosingKeepsOnce DEF FlushFails
  <2>11. CASE FlushFailsLate(w)
    BY <2>11, FailingLoses, CommitKeepsOnce DEF FlushFailsLate
  <2>12. QED
    BY <1>1, <2>1, <2>2, <2>3, <2>4, <2>5, <2>6, <2>7, <2>8, <2>9, <2>10, <2>11 DEF WorkerStep
<1>2. QED BY <1>0, <1>1 DEF BuildNext

\* However many threads claim from the counter, and whatever fails, no file
\* reaches two segments: compaction never doubles the rows of a file.
THEOREM FilesAreWrittenOnce == BuildSpec => []ExactlyOnce
<1>1. OnceInv => ExactlyOnce
  BY DEF OnceInv
<1>2. QED
  BY <1>1, TypeInit, TypeStep, OnceInit, OnceStep, PTL DEF BuildSpec

-----------------------------------------------------------------------------
(***************************************************************************)
(* The fields the helpers change, and those they leave.                    *)
(***************************************************************************)

LEMMA BufferedFields ==
    ASSUME NEW r \in WorkerState
    PROVE  /\ Buffered(r).buffer = r.buffer \cup {r.file}
           /\ Buffered(r).rows = r.rows \cup (Columns \ r.columns)
           /\ Buffered(r).pc = r.pc /\ Buffered(r).file = r.file
           /\ Buffered(r).columns = r.columns /\ Buffered(r).staged = r.staged
BY DEF WorkerState, Buffered

LEMMA RecordedFields ==
    ASSUME NEW r \in WorkerState
    PROVE  /\ Recorded(r).pc = "claim" /\ Recorded(r).file = NoFile
           /\ Recorded(r).columns = Columns /\ Recorded(r).staged = r.staged \cup {r.file}
           /\ Recorded(r).buffer = r.buffer /\ Recorded(r).rows = r.rows
BY DEF WorkerState, Recorded

LEMMA EmptiedFields ==
    ASSUME NEW r \in WorkerState, NEW p
    PROVE  /\ [r EXCEPT !.pc = p, !.file = NoFile].pc = p
           /\ [r EXCEPT !.pc = p, !.file = NoFile].file = NoFile
           /\ [r EXCEPT !.pc = p, !.file = NoFile].buffer = r.buffer
           /\ [r EXCEPT !.pc = p, !.file = NoFile].rows = r.rows
           /\ [r EXCEPT !.pc = p, !.file = NoFile].columns = r.columns
           /\ [r EXCEPT !.pc = p, !.file = NoFile].staged = r.staged
BY DEF WorkerState

\* The segment a flush adds.
LEMMA CommitSegmentAdds ==
    ASSUME TInv, NEW w \in Workers, CommitSegment(w)
    PROVE  \E s : /\ segs'[sid] = segs[sid] \cup {s}
                  /\ s.worker = base + w /\ s.files = ws[w].buffer /\ s.schema = ws[w].rows
<1> DEFINE new == [worker |-> base + w, number |-> ws[w].number, files |-> ws[w].buffer,
                   schema |-> ws[w].rows, errors |-> planErr, intact |-> TRUE]
<1>1. segs'[sid] = segs[sid] \cup {new}
  BY DEF CommitSegment, TInv, BuildTypeOK
<1>2. new.worker = base + w /\ new.files = ws[w].buffer /\ new.schema = ws[w].rows
  OBVIOUS
<1> HIDE DEF new
<1>3. QED BY <1>1, <1>2

-----------------------------------------------------------------------------
(***************************************************************************)
(* OK is durable.                                                          *)
(***************************************************************************)

\* A file that is OK is in a segment, or a thread that is still able to take
\* it back has its rows.
OKIsKept ==
    \A f \in Files : status[f] = "OK" =>
        \/ \E s \in segs[sid] : f \in s.files
        \/ \E w \in Workers : ws[w].pc # "done" /\ f \in ws[w].buffer /\ f \in ws[w].staged

\* A flush writes the file in hand, and a thread starts with nothing.
BufferOK ==
    \A w \in Workers :
        /\ ws[w].pc = "flush" /\ ws[w].file # NoFile => ws[w].file \in ws[w].buffer
        /\ ws[w].pc = "open" => ws[w].buffer = {}

DurableInv == OKIsKept /\ BufferOK

\* It is enough to look at the thread that steps: a file that is OK was OK
\* without its help, or is in a segment, or is still in its buffer.
LEMMA StepKeepsDurable ==
    ASSUME TInv, DurableInv, NEW w \in Workers, sid' = sid, segs[sid] \subseteq segs'[sid],
           \A v \in Workers : v # w => ws'[v] = ws[v],
           ws'[w].pc = "flush" /\ ws'[w].file # NoFile => ws'[w].file \in ws'[w].buffer,
           ws'[w].pc # "open",
           \A f \in Files : status'[f] = "OK" =>
               \/ /\ status[f] = "OK"
                  /\ ~ (ws[w].pc # "done" /\ f \in ws[w].buffer /\ f \in ws[w].staged)
               \/ \E s \in segs'[sid] : f \in s.files
               \/ ws'[w].pc # "done" /\ f \in ws'[w].buffer /\ f \in ws'[w].staged
    PROVE  DurableInv'
<1>1. BufferOK'
  BY DEF DurableInv, BufferOK
<1>2. ASSUME NEW f \in Files, status'[f] = "OK"
      PROVE  \/ \E s \in segs'[sid] : f \in s.files
             \/ \E v \in Workers : ws'[v].pc # "done" /\ f \in ws'[v].buffer /\ f \in ws'[v].staged
  <2>1. CASE /\ status[f] = "OK"
             /\ ~ (ws[w].pc # "done" /\ f \in ws[w].buffer /\ f \in ws[w].staged)
    <3>1. CASE \E s \in segs[sid] : f \in s.files
      BY <3>1
    <3>2. CASE \E v \in Workers : ws[v].pc # "done" /\ f \in ws[v].buffer /\ f \in ws[v].staged
      BY <2>1, <3>2
    <3>3. QED BY <2>1, <3>1, <3>2 DEF DurableInv, OKIsKept
  <2>2. QED BY <1>2, <2>1
<1>3. OKIsKept'
  BY <1>2 DEF OKIsKept
<1>4. QED BY <1>1, <1>3 DEF DurableInv

\* The files of a writer that fails are OK no longer.
LEMMA FailingKeepsDurable ==
    ASSUME TInv, DurableInv, NEW w \in Workers, sid' = sid, segs[sid] \subseteq segs'[sid],
           WriterFails(w)
    PROVE  DurableInv'
<1>1. ws'[w] = [ws[w] EXCEPT !.pc = "done", !.file = NoFile]
      /\ \A v \in Workers : v # w => ws'[v] = ws[v]
  BY OneThread DEF WriterFails
<1>2. ws'[w].pc = "done"
  BY <1>1, EmptiedFields DEF TInv, BuildTypeOK
<1>3. \A f \in Files : status'[f] = "OK" => status[f] = "OK" /\ f \notin ws[w].staged
  BY DEF WriterFails
<1>4. QED BY <1>1, <1>2, <1>3, StepKeepsDurable

LEMMA DurableInit == BuildInit => DurableInv
<1> SUFFICES ASSUME BuildInit PROVE DurableInv
  OBVIOUS
<1>1. PICK R \in SUBSET (Files \ planErr) :
        /\ status = [f \in Files |-> IF f \in R THEN "OK"
                                     ELSE IF f \in planErr THEN "ERROR" ELSE "none"]
        /\ segs = [i \in Ids |->
                     IF i = sid /\ R # {}
                     THEN {[worker |-> 0, number |-> 0, files |-> R,
                            schema |-> Columns, errors |-> planErr, intact |-> TRUE]}
                     ELSE {}]
  BY DEF BuildInit
<1> DEFINE old == [worker |-> 0, number |-> 0, files |-> R, schema |-> Columns, errors |-> planErr, intact |-> TRUE]
<1>2. R # {} => segs[sid] = {old}
  BY <1>1 DEF BuildInit
<1>3. old.files = R
  OBVIOUS
<1> HIDE DEF old
<1>4. OKIsKept
  BY <1>1, <1>2, <1>3 DEF OKIsKept
<1>5. BufferOK
  BY DEF BuildInit, FreshWorker, BufferOK
<1>6. QED BY <1>4, <1>5 DEF DurableInv

LEMMA DurableStep == TInv /\ DurableInv /\ [BuildNext]_buildVars => DurableInv'
<1> SUFFICES ASSUME TInv, DurableInv, [BuildNext]_buildVars PROVE DurableInv'
  OBVIOUS
<1>0. CASE UNCHANGED buildVars
  BY <1>0 DEF buildVars, DurableInv, OKIsKept, BufferOK
<1>1. ASSUME NEW w \in Workers, WorkerStep(w) PROVE DurableInv'
  <2>a. ws[w] \in WorkerState /\ ws[w] \in Thread
    BY DEF TInv, BuildTypeOK
  <2>b. /\ ws[w].pc = "flush" /\ ws[w].file # NoFile => ws[w].file \in ws[w].buffer
        /\ ws[w].pc = "open" => ws[w].buffer = {}
    BY DEF DurableInv, BufferOK
  <2>1. CASE OpenWriter(w)
    <3>1. ws'[w] = [ws[w] EXCEPT !.pc = "claim"] /\ \A v \in Workers : v # w => ws'[v] = ws[v]
      BY <2>1, OneThread DEF OpenWriter
    <3>2. ws'[w].pc = "claim"
      BY <2>a, <3>1 DEF WorkerState
    <3>3. QED BY <2>1, <2>b, <3>1, <3>2, StepKeepsDurable DEF OpenWriter
  <2>2. CASE OpenWriterFails(w)
    <3>1. ws'[w] = [ws[w] EXCEPT !.pc = "done"] /\ \A v \in Workers : v # w => ws'[v] = ws[v]
      BY <2>2, OneThread DEF OpenWriterFails
    <3>2. ws'[w].pc = "done"
      BY <2>a, <3>1 DEF WorkerState
    <3>3. QED BY <2>2, <2>b, <3>1, <3>2, StepKeepsDurable DEF OpenWriterFails
  <2>3. CASE Claim(w)
    <3> DEFINE r == IF next > NFiles THEN [ws[w] EXCEPT !.pc = "finish"]
                    ELSE IF next \in planErr \/ status[next] = "OK" THEN ws[w]
                    ELSE [ws[w] EXCEPT !.pc = "build", !.file = next]
    <3>1. ws'[w] = r /\ \A v \in Workers : v # w => ws'[v] = ws[v]
      BY <2>3, OneThread DEF Claim
    <3>2. /\ r.buffer = ws[w].buffer /\ r.staged = ws[w].staged
          /\ r.pc \in {"claim", "build", "finish"}
      <4>1. \/ r = ws[w]
            \/ r = [ws[w] EXCEPT !.pc = "finish"]
            \/ r = [ws[w] EXCEPT !.pc = "build", !.file = next]
        OBVIOUS
      <4>2. ws[w].pc = "claim"
        BY <2>3 DEF Claim
      <4> HIDE DEF r
      <4>3. QED BY <2>a, <4>1, <4>2 DEF WorkerState
    <3> HIDE DEF r
    <3>3. QED BY <2>3, <3>1, <3>2, StepKeepsDurable DEF Claim
  <2>4. CASE BuildFileFails(w)
    <3>0. ws'[w] = [ws[w] EXCEPT !.pc = "claim", !.file = NoFile]
          /\ \A v \in Workers : v # w => ws'[v] = ws[v]
      BY <2>4, OneThread DEF BuildFileFails
    <3>1. ws'[w].pc = "claim" /\ ws'[w].buffer = ws[w].buffer /\ ws'[w].staged = ws[w].staged
      BY <2>a, <3>0 DEF WorkerState
    <3>2. \A f \in Files : status'[f] = "OK" => status[f] = "OK"
      BY <2>4 DEF BuildFileFails, TInv, BuildTypeOK
    <3>3. sid' = sid /\ segs[sid] \subseteq segs'[sid] /\ ws[w].pc = "build"
      BY <2>4 DEF BuildFileFails
    <3>4. ws'[w].pc # "open" /\ ws'[w].pc # "flush" /\ ws'[w].pc # "done"
      BY <3>1
    <3>5. \A f \in Files : status'[f] = "OK" =>
            \/ /\ status[f] = "OK"
               /\ ~ (ws[w].pc # "done" /\ f \in ws[w].buffer /\ f \in ws[w].staged)
            \/ ws'[w].pc # "done" /\ f \in ws'[w].buffer /\ f \in ws'[w].staged
      BY <3>1, <3>2, <3>4
    <3>6. QED BY <3>0, <3>3, <3>4, <3>5, StepKeepsDurable
  <2>5. CASE Append(w)
    <3>1. ws[w].file # NoFile
      BY <2>5, <2>a DEF Append, Thread
    <3>2. Buffered(ws[w]) \in WorkerState
      BY <2>a, <3>1, BufferedType
    <3>3. ws'[w] = Recorded(Buffered(ws[w])) /\ \A v \in Workers : v # w => ws'[v] = ws[v]
      BY <2>5, OneThread DEF Append
    <3>4. /\ ws'[w].pc = "claim" /\ ws'[w].buffer = ws[w].buffer \cup {ws[w].file}
          /\ ws'[w].staged = ws[w].staged \cup {ws[w].file}
      BY <2>a, <3>2, <3>3, BufferedFields, RecordedFields
    <3>5. \A f \in Files : status'[f] = "OK" => status[f] = "OK" \/ f = ws[w].file
      BY <2>5 DEF Append
    <3>6. QED BY <2>5, <3>3, <3>4, <3>5, StepKeepsDurable DEF Append
  <2>6. CASE AppendFails(w)
    BY <2>6, FailingKeepsDurable DEF AppendFails
  <2>c. ASSUME NEW r \in WorkerState, StartFlush(w, r), ~Collides(w), segs' = segs, sid' = sid,
               r.file # NoFile => r.file \in r.buffer, ws[w].buffer \subseteq r.buffer,
               r.staged = ws[w].staged
        PROVE  DurableInv'
    <3>1. ws'[w] = [r EXCEPT !.pc = "flush"] /\ \A v \in Workers : v # w => ws'[v] = ws[v]
      BY <2>c, OneThread DEF StartFlush
    <3>2. /\ ws'[w].pc = "flush" /\ ws'[w].file = r.file
          /\ ws'[w].buffer = r.buffer /\ ws'[w].staged = r.staged
      BY <2>c, <3>1 DEF WorkerState
    <3>3. status' = status
      BY <2>c DEF StartFlush
    <3>4. ws[w].pc # "done" => ws'[w].pc # "done"
      BY <3>2
    <3>5. \A f \in Files : status'[f] = "OK" =>
            \/ /\ status[f] = "OK"
               /\ ~ (ws[w].pc # "done" /\ f \in ws[w].buffer /\ f \in ws[w].staged)
            \/ ws'[w].pc # "done" /\ f \in ws'[w].buffer /\ f \in ws'[w].staged
      BY <2>c, <3>2, <3>3
    <3>6. QED BY <2>c, <3>1, <3>2, <3>5, StepKeepsDurable
  <2>7. CASE AppendAndFlush(w)
    <3>1. ws[w].file # NoFile
      BY <2>7, <2>a DEF AppendAndFlush, Thread
    <3>2. CASE Collides(w)
      BY <2>7, <3>2, FailingKeepsDurable DEF AppendAndFlush, StartFlush
    <3>3. CASE ~Collides(w)
      BY <2>7, <3>3, <2>a, <2>c, <3>1, BufferedType, BufferedFields DEF AppendAndFlush
    <3>4. QED BY <3>2, <3>3
  <2>8. CASE Finish(w)
    <3>1. CASE ws[w].buffer = {}
      <4>1. ws'[w] = [ws[w] EXCEPT !.pc = "done"] /\ \A v \in Workers : v # w => ws'[v] = ws[v]
        BY <2>8, <3>1, OneThread DEF Finish
      <4>2. ws'[w].pc = "done"
        BY <2>a, <4>1 DEF WorkerState
      <4>3. QED BY <2>8, <3>1, <4>1, <4>2, StepKeepsDurable DEF Finish
    <3>2. CASE ws[w].buffer # {} /\ Collides(w)
      BY <2>8, <3>2, FailingKeepsDurable DEF Finish, StartFlush
    <3>3. CASE ws[w].buffer # {} /\ ~Collides(w)
      <4>1. ws[w].file = NoFile
        BY <2>8, <2>a DEF Finish, Thread
      <4>2. QED BY <2>8, <2>a, <2>c, <3>3, <4>1 DEF Finish
    <3>4. QED BY <3>1, <3>2, <3>3
  <2>9. CASE CommitFlush(w)
    <3>1. PICK s : /\ segs'[sid] = segs[sid] \cup {s}
                   /\ s.worker = base + w /\ s.files = ws[w].buffer /\ s.schema = ws[w].rows
      BY <2>9, CommitSegmentAdds DEF CommitFlush
    <3>2. Drained(ws[w]) \in WorkerState
      BY <2>a, DrainedType
    <3>3. ws'[w].pc \in {"claim", "done"} /\ \A v \in Workers : v # w => ws'[v] = ws[v]
      <4>1. CASE ws[w].file = NoFile
        <5>1. ws'[w] = [Drained(ws[w]) EXCEPT !.pc = "done"]
              /\ \A v \in Workers : v # w => ws'[v] = ws[v]
          BY <2>9, <4>1, OneThread DEF CommitFlush
        <5>2. QED BY <3>2, <5>1 DEF WorkerState
      <4>2. CASE ws[w].file # NoFile
        BY <2>9, <3>2, <4>2, OneThread, RecordedFields DEF CommitFlush
      <4>3. QED BY <4>1, <4>2
    <3>4. \A f \in Files : status'[f] = "OK" =>
                             status[f] = "OK" \/ (f = ws[w].file /\ ws[w].file # NoFile)
      <4>1. CASE ws[w].file = NoFile
        BY <2>9, <4>1 DEF CommitFlush
      <4>2. CASE ws[w].file # NoFile
        <5>1. status' = [status EXCEPT ![ws[w].file] = "OK"]
          BY <2>9, <4>2 DEF CommitFlush
        <5>2. QED BY <4>2, <5>1 DEF TInv, BuildTypeOK
      <4>3. QED BY <4>1, <4>2
    <3>5. ws[w].pc = "flush" /\ sid' = sid
      BY <2>9 DEF CommitFlush
    <3>6. QED BY <2>b, <3>1, <3>3, <3>4, <3>5, StepKeepsDurable
  <2>10. CASE FlushFails(w)
    BY <2>10, FailingKeepsDurable DEF FlushFails
  <2>11. CASE FlushFailsLate(w)
    BY <2>11, CommitSegmentAdds, FailingKeepsDurable DEF FlushFailsLate
  <2>12. QED
    BY <1>1, <2>1, <2>2, <2>3, <2>4, <2>5, <2>6, <2>7, <2>8, <2>9, <2>10, <2>11 DEF WorkerStep
<1>2. QED BY <1>0, <1>1 DEF BuildNext

\* A file reported OK at the join is in a durable segment, whichever writers
\* failed on the way: no file is published as indexed without its metadata.
THEOREM ReportedFilesAreDurable == BuildSpec => []OKIsDurable
<1>1. DurableInv => OKIsDurable
  BY DEF DurableInv, OKIsKept, OKIsDurable, AllDone
<1>2. QED
  BY <1>1, TypeInit, TypeStep, DurableInit, DurableStep, PTL DEF BuildSpec

-----------------------------------------------------------------------------
(***************************************************************************)
(* Schema rows.                                                            *)
(***************************************************************************)

\* A column is written by a thread when its rows are buffered or in one of
\* the thread's segments.
Written(w, c) ==
    \/ c \in ws[w].rows
    \/ \E t \in segs[sid] : t.worker = base + w /\ c \in t.schema

ColumnsAreWritten ==
    \A w \in Workers, c \in Columns :
        c \in ws[w].columns \/ ws[w].buffer # {} => Written(w, c)

FlushIsNotEmpty == \A w \in Workers : ws[w].pc = "flush" => ws[w].buffer # {}

SchemaInv == ColumnsAreWritten /\ FlushIsNotEmpty

\* A step without a commit may add to the schema rows of its thread; a column
\* it has written from now on has its rows among them or had been written.
LEMMA StepKeepsSchema ==
    ASSUME SchemaInv, NEW w \in Workers, sid' = sid, base' = base, segs' = segs,
           \A v \in Workers : v # w => ws'[v] = ws[v],
           ws[w].rows \subseteq ws'[w].rows,
           \A c \in Columns : c \in ws'[w].columns \/ ws'[w].buffer # {} =>
               c \in ws[w].columns \/ ws[w].buffer # {} \/ c \in ws'[w].rows,
           ws'[w].pc = "flush" => ws'[w].buffer # {}
    PROVE  SchemaInv'
<1>1. ASSUME NEW v \in Workers, NEW c \in Columns, Written(v, c) PROVE Written(v, c)'
  BY <1>1 DEF Written
<1>2. ASSUME NEW c \in Columns, c \in ws'[w].rows PROVE Written(w, c)'
  BY <1>2 DEF Written
<1>3. ColumnsAreWritten'
  BY <1>1, <1>2 DEF SchemaInv, ColumnsAreWritten
<1>4. FlushIsNotEmpty'
  BY DEF SchemaInv, FlushIsNotEmpty
<1>5. QED BY <1>3, <1>4 DEF SchemaInv

\* A flush moves the schema rows of its thread into a segment of the thread.
LEMMA CommitKeepsSchema ==
    ASSUME TInv, SchemaInv, NEW w \in Workers, sid' = sid, base' = base,
           ws[w].pc = "flush", CommitSegment(w),
           \A v \in Workers : v # w => ws'[v] = ws[v], ws'[w].pc # "flush"
    PROVE  SchemaInv'
<1>1. PICK s : /\ segs'[sid] = segs[sid] \cup {s}
               /\ s.worker = base + w /\ s.files = ws[w].buffer /\ s.schema = ws[w].rows
  BY CommitSegmentAdds
<1>2. ASSUME NEW c \in Columns
      PROVE  \E t \in segs'[sid] : t.worker = base + w /\ c \in t.schema
  <2>1. Written(w, c)
    BY DEF SchemaInv, ColumnsAreWritten, FlushIsNotEmpty
  <2>2. QED BY <1>1, <2>1 DEF Written
<1>3. ASSUME NEW v \in Workers, NEW c \in Columns, v # w, Written(v, c) PROVE Written(v, c)'
  BY <1>1, <1>3 DEF Written
<1>4. ColumnsAreWritten'
  BY <1>2, <1>3 DEF SchemaInv, ColumnsAreWritten, Written
<1>5. FlushIsNotEmpty'
  BY DEF SchemaInv, FlushIsNotEmpty
<1>6. QED BY <1>4, <1>5 DEF SchemaInv

LEMMA FailingFields ==
    ASSUME TInv, NEW w \in Workers, WriterFails(w)
    PROVE  /\ \A v \in Workers : v # w => ws'[v] = ws[v]
           /\ ws'[w].pc = "done" /\ ws'[w].buffer = ws[w].buffer
           /\ ws'[w].rows = ws[w].rows /\ ws'[w].columns = ws[w].columns
<1>1. ws'[w] = [ws[w] EXCEPT !.pc = "done", !.file = NoFile]
      /\ \A v \in Workers : v # w => ws'[v] = ws[v]
  BY OneThread DEF WriterFails
<1>2. QED BY <1>1, EmptiedFields DEF TInv, BuildTypeOK

LEMMA SchemaInit == BuildInit => SchemaInv
<1> SUFFICES ASSUME BuildInit PROVE SchemaInv
  OBVIOUS
<1>1. ColumnsAreWritten /\ FlushIsNotEmpty
  BY DEF BuildInit, FreshWorker, ColumnsAreWritten, FlushIsNotEmpty
<1>2. QED BY <1>1 DEF SchemaInv

LEMMA SchemaStep == TInv /\ SchemaInv /\ [BuildNext]_buildVars => SchemaInv'
<1> SUFFICES ASSUME TInv, SchemaInv, [BuildNext]_buildVars PROVE SchemaInv'
  OBVIOUS
<1>0. CASE UNCHANGED buildVars
  BY <1>0 DEF buildVars, SchemaInv, ColumnsAreWritten, FlushIsNotEmpty, Written
<1>1. ASSUME NEW w \in Workers, WorkerStep(w) PROVE SchemaInv'
  <2>a. ws[w] \in WorkerState /\ ws[w] \in Thread
    BY DEF TInv, BuildTypeOK
  <2>b. ASSUME NEW r, SetWorker(w, r), sid' = sid, base' = base, segs' = segs,
               r.pc # "flush", r.buffer = ws[w].buffer, r.rows = ws[w].rows,
               r.columns = ws[w].columns
        PROVE  SchemaInv'
    <3>1. ws'[w] = r /\ \A v \in Workers : v # w => ws'[v] = ws[v]
      BY <2>b, OneThread
    <3>2. QED BY <2>b, <3>1, StepKeepsSchema
  <2>c. ASSUME WriterFails(w), sid' = sid, base' = base, segs' = segs
        PROVE  SchemaInv'
    BY <2>c, FailingFields, StepKeepsSchema
  <2>1. CASE OpenWriter(w)
    <3> DEFINE r == [ws[w] EXCEPT !.pc = "claim"]
    <3>1. /\ r.pc # "flush" /\ r.buffer = ws[w].buffer
          /\ r.rows = ws[w].rows /\ r.columns = ws[w].columns
      BY <2>a DEF WorkerState
    <3>2. SetWorker(w, r)
      BY <2>1 DEF OpenWriter
    <3> HIDE DEF r
    <3>3. QED BY <2>1, <2>b, <3>1, <3>2 DEF OpenWriter
  <2>2. CASE OpenWriterFails(w)
    <3> DEFINE r == [ws[w] EXCEPT !.pc = "done"]
    <3>1. /\ r.pc # "flush" /\ r.buffer = ws[w].buffer
          /\ r.rows = ws[w].rows /\ r.columns = ws[w].columns
      BY <2>a DEF WorkerState
    <3>2. SetWorker(w, r)
      BY <2>2 DEF OpenWriterFails
    <3> HIDE DEF r
    <3>3. QED BY <2>2, <2>b, <3>1, <3>2 DEF OpenWriterFails
  <2>3. CASE Claim(w)
    <3> DEFINE r == IF next > NFiles THEN [ws[w] EXCEPT !.pc = "finish"]
                    ELSE IF next \in planErr \/ status[next] = "OK" THEN ws[w]
                    ELSE [ws[w] EXCEPT !.pc = "build", !.file = next]
    <3>1. SetWorker(w, r) /\ ws[w].pc = "claim"
      BY <2>3 DEF Claim
    <3>2. /\ r.pc # "flush" /\ r.buffer = ws[w].buffer
          /\ r.rows = ws[w].rows /\ r.columns = ws[w].columns
      <4>1. \/ r = ws[w]
            \/ r = [ws[w] EXCEPT !.pc = "finish"]
            \/ r = [ws[w] EXCEPT !.pc = "build", !.file = next]
        OBVIOUS
      <4> HIDE DEF r
      <4>2. QED BY <2>a, <3>1, <4>1 DEF WorkerState
    <3> HIDE DEF r
    <3>3. QED BY <2>3, <2>b, <3>1, <3>2 DEF Claim
  <2>4. CASE BuildFileFails(w)
    <3> DEFINE r == [ws[w] EXCEPT !.pc = "claim", !.file = NoFile]
    <3>1. /\ r.pc # "flush" /\ r.buffer = ws[w].buffer
          /\ r.rows = ws[w].rows /\ r.columns = ws[w].columns
      BY <2>a DEF WorkerState
    <3>2. SetWorker(w, r)
      BY <2>4 DEF BuildFileFails
    <3> HIDE DEF r
    <3>3. QED BY <2>4, <2>b, <3>1, <3>2 DEF BuildFileFails
  <2>5. CASE Append(w)
    <3>1. ws[w].file # NoFile
      BY <2>5, <2>a DEF Append, Thread
    <3>2. Buffered(ws[w]) \in WorkerState
      BY <2>a, <3>1, BufferedType
    <3>3. ws'[w] = Recorded(Buffered(ws[w])) /\ \A v \in Workers : v # w => ws'[v] = ws[v]
      BY <2>5, OneThread DEF Append
    <3>4. ws'[w].pc = "claim" /\ ws'[w].rows = ws[w].rows \cup (Columns \ ws[w].columns)
      BY <2>a, <3>2, <3>3, BufferedFields, RecordedFields
    <3>5. QED BY <2>5, <3>3, <3>4, StepKeepsSchema DEF Append
  <2>6. CASE AppendFails(w)
    BY <2>6, <2>c DEF AppendFails
  <2>7. CASE AppendAndFlush(w)
    <3>1. CASE Collides(w)
      BY <2>7, <2>c, <3>1 DEF AppendAndFlush, StartFlush
    <3>2. CASE ~Collides(w)
      <4> DEFINE r == [Buffered(ws[w]) EXCEPT !.pc = "flush"]
      <4>1. ws'[w] = r /\ \A v \in Workers : v # w => ws'[v] = ws[v]
        BY <2>7, <3>2, OneThread DEF AppendAndFlush, StartFlush
      <4>2. Buffered(ws[w]) \in WorkerState
        BY <2>7, <2>a, BufferedType DEF AppendAndFlush, Thread
      <4>3. /\ r.buffer = Buffered(ws[w]).buffer /\ r.rows = Buffered(ws[w]).rows
            /\ r.columns = Buffered(ws[w]).columns
        BY <4>2 DEF WorkerState
      <4> HIDE DEF r
      <4>4. /\ ws'[w].buffer = ws[w].buffer \cup {ws[w].file}
            /\ ws'[w].rows = ws[w].rows \cup (Columns \ ws[w].columns)
            /\ ws'[w].columns = ws[w].columns
        BY <2>a, <4>1, <4>3, BufferedFields
      <4>5. QED BY <2>7, <4>1, <4>4, StepKeepsSchema DEF AppendAndFlush
    <3>3. QED BY <3>1, <3>2
  <2>8. CASE Finish(w)
    <3>1. CASE ws[w].buffer = {}
      <4> DEFINE r == [ws[w] EXCEPT !.pc = "done"]
      <4>1. /\ r.pc # "flush" /\ r.buffer = ws[w].buffer
            /\ r.rows = ws[w].rows /\ r.columns = ws[w].columns
        BY <2>a DEF WorkerState
      <4>2. SetWorker(w, r)
        BY <2>8, <3>1 DEF Finish
      <4> HIDE DEF r
      <4>3. QED BY <2>8, <2>b, <4>1, <4>2 DEF Finish
    <3>2. CASE ws[w].buffer # {} /\ Collides(w)
      BY <2>8, <2>c, <3>2 DEF Finish, StartFlush
    <3>3. CASE ws[w].buffer # {} /\ ~Collides(w)
      <4> DEFINE r == [ws[w] EXCEPT !.pc = "flush"]
      <4>1. ws'[w] = r /\ \A v \in Workers : v # w => ws'[v] = ws[v]
        BY <2>8, <3>3, OneThread DEF Finish, StartFlush
      <4>2. r.buffer = ws[w].buffer /\ r.rows = ws[w].rows /\ r.columns = ws[w].columns
        BY <2>a DEF WorkerState
      <4> HIDE DEF r
      <4>3. QED BY <2>8, <3>3, <4>1, <4>2, StepKeepsSchema DEF Finish
    <3>4. QED BY <3>1, <3>2, <3>3
  <2>9. CASE CommitFlush(w)
    <3>1. Drained(ws[w]) \in WorkerState
      BY <2>a, DrainedType
    <3>2. ws'[w].pc # "flush" /\ \A v \in Workers : v # w => ws'[v] = ws[v]
      <4>1. CASE ws[w].file = NoFile
        <5>1. ws'[w] = [Drained(ws[w]) EXCEPT !.pc = "done"]
              /\ \A v \in Workers : v # w => ws'[v] = ws[v]
          BY <2>9, <4>1, OneThread DEF CommitFlush
        <5>2. QED BY <3>1, <5>1 DEF WorkerState
      <4>2. CASE ws[w].file # NoFile
        BY <2>9, <3>1, <4>2, OneThread, RecordedFields DEF CommitFlush
      <4>3. QED BY <4>1, <4>2
    <3>3. QED BY <2>9, <3>2, CommitKeepsSchema DEF CommitFlush
  <2>10. CASE FlushFails(w)
    BY <2>10, <2>c DEF FlushFails
  <2>11. CASE FlushFailsLate(w)
    BY <2>11, FailingFields, CommitKeepsSchema DEF FlushFailsLate
  <2>12. QED
    BY <1>1, <2>1, <2>2, <2>3, <2>4, <2>5, <2>6, <2>7, <2>8, <2>9, <2>10, <2>11 DEF WorkerStep
<1>2. QED BY <1>0, <1>1 DEF BuildNext

\* A flush is the only step that adds a segment, and the schema rows of its
\* thread are then in segments.
LEMMA SegmentsGrow ==
    ASSUME TInv, SchemaInv, BuildNext
    PROVE  \/ segs'[sid] = segs[sid]
           \/ \E w \in Workers : \E s :
                 /\ segs'[sid] = segs[sid] \cup {s} /\ s.worker = base + w
                 /\ s.files = ws[w].buffer /\ s.files # {}
                 /\ \A c \in Columns :
                       \E t \in segs'[sid] : t.worker = base + w /\ c \in t.schema
<1>1. PICK w \in Workers : WorkerStep(w)
  BY DEF BuildNext
<1>2. segs' = segs \/ (CommitSegment(w) /\ ws[w].pc = "flush")
  BY <1>1 DEF WorkerStep, OpenWriter, OpenWriterFails, Claim, BuildFileFails, Append, AppendFails,
              AppendAndFlush, Finish, CommitFlush, FlushFails, FlushFailsLate
<1>3. CASE CommitSegment(w) /\ ws[w].pc = "flush"
  <2>1. PICK s : /\ segs'[sid] = segs[sid] \cup {s}
                 /\ s.worker = base + w /\ s.files = ws[w].buffer /\ s.schema = ws[w].rows
    BY <1>3, CommitSegmentAdds
  <2>2. ws[w].buffer # {}
    BY <1>3 DEF SchemaInv, FlushIsNotEmpty
  <2>3. ASSUME NEW c \in Columns
        PROVE  \E t \in segs'[sid] : t.worker = base + w /\ c \in t.schema
    <3>1. Written(w, c)
      BY <2>2 DEF SchemaInv, ColumnsAreWritten
    <3>2. QED BY <2>1, <3>1 DEF Written
  <2>4. QED BY <2>1, <2>2, <2>3
<1>4. QED BY <1>2, <1>3

LEMMA CoveredInit == BuildInit => SchemaCovered
<1> SUFFICES ASSUME BuildInit PROVE SchemaCovered
  OBVIOUS
<1>1. PICK R \in SUBSET (Files \ planErr) :
        segs = [i \in Ids |->
                   IF i = sid /\ R # {}
                   THEN {[worker |-> 0, number |-> 0, files |-> R,
                          schema |-> Columns, errors |-> planErr, intact |-> TRUE]}
                   ELSE {}]
  BY DEF BuildInit
<1> DEFINE old == [worker |-> 0, number |-> 0, files |-> R, schema |-> Columns, errors |-> planErr, intact |-> TRUE]
<1>2. segs[sid] = {} \/ segs[sid] = {old}
  BY <1>1 DEF BuildInit
<1>3. old.schema = Columns
  OBVIOUS
<1> HIDE DEF old
<1>4. QED BY <1>2, <1>3 DEF SchemaCovered

LEMMA CoveredStep == TInv /\ SchemaInv /\ SchemaCovered /\ [BuildNext]_buildVars => SchemaCovered'
<1> SUFFICES ASSUME TInv, SchemaInv, SchemaCovered, [BuildNext]_buildVars PROVE SchemaCovered'
  OBVIOUS
<1>1. CASE UNCHANGED buildVars
  BY <1>1 DEF buildVars, SchemaCovered
<1>2. CASE BuildNext
  <2>1. sid' = sid
    BY <1>2 DEF BuildNext, WorkerStep, OpenWriter, OpenWriterFails, Claim, BuildFileFails, Append,
                AppendFails, AppendAndFlush, Finish, CommitFlush, FlushFails, FlushFailsLate
  <2>2. QED BY <1>2, <2>1, SegmentsGrow DEF SchemaCovered
<1>3. QED BY <1>1, <1>2

\* Whatever batch of a thread is lost, a thread with a segment has segments
\* that carry the schema rows of every column: the union of the schema tables
\* of one build is never short of a column.
THEOREM SchemaIsCovered == BuildSpec => []SchemaCovered
<1>1. QED
  BY TypeInit, TypeStep, SchemaInit, SchemaStep, CoveredInit, CoveredStep, PTL DEF BuildSpec

-----------------------------------------------------------------------------
(***************************************************************************)
(* What one step of a thread changes.                                      *)
(***************************************************************************)

\* Three kinds of steps: those that touch neither segments nor pending
\* directories, those that create a pending directory, and the rename.
Quiet(w) ==
    /\ UNCHANGED <<segs, pending>>
    /\ ws'[w].pc \notin {"open", "flush"} /\ ws'[w].number = ws[w].number
    /\ ws[w].pc = "flush" => ws'[w].pc = "done"
    /\ ws'[w].pc # "done" /\ ws[w].pc = "open" => base + w \in dirs'[sid]

Opens(w) ==
    /\ UNCHANGED segs /\ ~ Collides(w)
    /\ pending' = [pending EXCEPT ![sid] = @ \cup {<<base + w, ws[w].number>>}]
    /\ ws[w].pc \in {"build", "finish"}
    /\ ws'[w].pc = "flush" /\ ws'[w].number = ws[w].number

Renames(w) ==
    /\ ws[w].pc = "flush" /\ CommitSegment(w)
    /\ ws'[w].pc = "done" \/ (ws'[w].pc = "claim" /\ ws'[w].number = ws[w].number + 1)

LEMMA NumberFields ==
    ASSUME NEW r \in WorkerState
    PROVE  /\ Buffered(r).number = r.number /\ Recorded(r).number = r.number
           /\ Drained(r).number = r.number + 1 /\ Drained(r).buffer = {}
BY DEF WorkerState, Buffered, Recorded, Drained

LEMMA StepEffect ==
    ASSUME TInv, NEW w \in Workers, WorkerStep(w)
    PROVE  /\ UNCHANGED <<sid, planErr, base>> /\ ws[w].pc # "done"
           /\ \A v \in Workers : v # w => ws'[v] = ws[v]
           /\ \A i \in Ids : dirs[i] \subseteq dirs'[i]
           /\ ws'[w].buffer \subseteq ws[w].buffer \cup ({ws[w].file} \ {NoFile})
           /\ \/ ws'[w].file \in {NoFile, ws[w].file}
              \/ ws'[w].file = next /\ next \notin planErr
           /\ Quiet(w) \/ Opens(w) \/ Renames(w)
<1> USE DEF Quiet, Opens, Renames
<1>a. /\ ws[w] \in WorkerState /\ ws[w] \in Thread /\ sid \in Ids
      /\ dirs \in [Ids -> SUBSET Nat]
  BY DEF TInv, BuildTypeOK
<1>b. ASSUME NEW r, SetWorker(w, r)
      PROVE  ws'[w] = r /\ \A v \in Workers : v # w => ws'[v] = ws[v]
  BY <1>b, OneThread
<1>c. ASSUME WriterFails(w)
      PROVE  /\ \A v \in Workers : v # w => ws'[v] = ws[v]
             /\ ws'[w].pc = "done" /\ ws'[w].file = NoFile /\ ws'[w].buffer = ws[w].buffer
             /\ ws'[w].number = ws[w].number
  <2>1. ws'[w] = [ws[w] EXCEPT !.pc = "done", !.file = NoFile]
        /\ \A v \in Workers : v # w => ws'[v] = ws[v]
    BY <1>b, <1>c DEF WriterFails
  <2>2. QED BY <1>a, <2>1 DEF WorkerState
<1>d. ASSUME NEW r \in WorkerState, StartFlush(w, r), r.number = ws[w].number, r.file = ws[w].file,
             ws[w].pc \in {"build", "finish"}, segs' = segs,
             r.buffer \subseteq ws[w].buffer \cup ({ws[w].file} \ {NoFile})
      PROVE  /\ \A v \in Workers : v # w => ws'[v] = ws[v]
             /\ ws'[w].buffer \subseteq ws[w].buffer \cup ({ws[w].file} \ {NoFile})
             /\ ws'[w].file \in {NoFile, ws[w].file}
             /\ Quiet(w) \/ Opens(w)
  <2>1. CASE Collides(w)
    BY <1>c, <1>d, <2>1 DEF StartFlush
  <2>2. CASE ~ Collides(w)
    <3>1. ws'[w] = [r EXCEPT !.pc = "flush"] /\ \A v \in Workers : v # w => ws'[v] = ws[v]
      BY <1>b, <1>d, <2>2 DEF StartFlush
    <3>2. /\ ws'[w].pc = "flush" /\ ws'[w].number = r.number
          /\ ws'[w].buffer = r.buffer /\ ws'[w].file = r.file
      BY <1>d, <3>1 DEF WorkerState
    <3>3. QED BY <1>d, <2>2, <3>1, <3>2 DEF StartFlush
  <2>3. QED BY <2>1, <2>2
<1>1. CASE OpenWriter(w)
  <2>1. ws'[w] = [ws[w] EXCEPT !.pc = "claim"] /\ \A v \in Workers : v # w => ws'[v] = ws[v]
    BY <1>1, <1>b DEF OpenWriter
  <2>2. /\ ws'[w].pc = "claim" /\ ws'[w].number = ws[w].number
        /\ ws'[w].buffer = ws[w].buffer /\ ws'[w].file = ws[w].file
    BY <1>a, <2>1 DEF WorkerState
  <2>3. QED BY <1>1, <1>a, <2>1, <2>2 DEF OpenWriter
<1>2. CASE OpenWriterFails(w)
  <2>1. ws'[w] = [ws[w] EXCEPT !.pc = "done"] /\ \A v \in Workers : v # w => ws'[v] = ws[v]
    BY <1>2, <1>b DEF OpenWriterFails
  <2>2. /\ ws'[w].pc = "done" /\ ws'[w].number = ws[w].number
        /\ ws'[w].buffer = ws[w].buffer /\ ws'[w].file = ws[w].file
    BY <1>a, <2>1 DEF WorkerState
  <2>3. QED BY <1>2, <1>a, <2>1, <2>2 DEF OpenWriterFails
<1>3. CASE Claim(w)
  <2> DEFINE r == IF next > NFiles THEN [ws[w] EXCEPT !.pc = "finish"]
                  ELSE IF next \in planErr \/ status[next] = "OK" THEN ws[w]
                  ELSE [ws[w] EXCEPT !.pc = "build", !.file = next]
  <2>1. ws'[w] = r /\ \A v \in Workers : v # w => ws'[v] = ws[v]
    BY <1>3, <1>b DEF Claim
  <2>2. \/ r = [ws[w] EXCEPT !.pc = "finish"]
        \/ r = ws[w]
        \/ r = [ws[w] EXCEPT !.pc = "build", !.file = next] /\ next \notin planErr
    OBVIOUS
  <2>3. ws[w].pc = "claim"
    BY <1>3 DEF Claim
  <2> HIDE DEF r
  <2>4. /\ r.pc \in {"claim", "build", "finish"} /\ r.number = ws[w].number
        /\ r.buffer = ws[w].buffer
        /\ r.file = ws[w].file \/ (r.file = next /\ next \notin planErr)
    BY <1>a, <2>2, <2>3 DEF WorkerState
  <2>5. QED BY <1>3, <2>1, <2>3, <2>4 DEF Claim
<1>4. CASE BuildFileFails(w)
  <2>1. ws'[w] = [ws[w] EXCEPT !.pc = "claim", !.file = NoFile]
        /\ \A v \in Workers : v # w => ws'[v] = ws[v]
    BY <1>4, <1>b DEF BuildFileFails
  <2>2. /\ ws'[w].pc = "claim" /\ ws'[w].number = ws[w].number
        /\ ws'[w].buffer = ws[w].buffer /\ ws'[w].file = NoFile
    BY <1>a, <2>1 DEF WorkerState
  <2>3. QED BY <1>4, <2>1, <2>2 DEF BuildFileFails
<1>5. CASE Append(w)
  <2>1. ws'[w] = Recorded(Buffered(ws[w])) /\ \A v \in Workers : v # w => ws'[v] = ws[v]
    BY <1>5, <1>b DEF Append
  <2>2. ws[w].file # NoFile /\ Buffered(ws[w]) \in WorkerState
    BY <1>5, <1>a, BufferedType DEF Append, Thread
  <2>3. /\ ws'[w].pc = "claim" /\ ws'[w].number = ws[w].number /\ ws'[w].file = NoFile
        /\ ws'[w].buffer = ws[w].buffer \cup {ws[w].file}
    BY <1>a, <2>1, <2>2, BufferedFields, RecordedFields, NumberFields
  <2>4. QED BY <1>5, <2>1, <2>2, <2>3 DEF Append
<1>6. CASE AppendFails(w)
  BY <1>6, <1>c DEF AppendFails
<1>7. CASE AppendAndFlush(w)
  <2>1. ws[w].file # NoFile /\ Buffered(ws[w]) \in WorkerState
    BY <1>7, <1>a, BufferedType DEF AppendAndFlush, Thread
  <2>2. QED BY <1>7, <1>a, <1>d, <2>1, BufferedFields, NumberFields DEF AppendAndFlush
<1>8. CASE Finish(w)
  <2>1. CASE ws[w].buffer = {}
    <3>1. ws'[w] = [ws[w] EXCEPT !.pc = "done"] /\ \A v \in Workers : v # w => ws'[v] = ws[v]
      BY <1>8, <1>b, <2>1 DEF Finish
    <3>2. /\ ws'[w].pc = "done" /\ ws'[w].number = ws[w].number
          /\ ws'[w].buffer = ws[w].buffer /\ ws'[w].file = ws[w].file
      BY <1>a, <3>1 DEF WorkerState
    <3>3. QED BY <1>8, <2>1, <3>1, <3>2 DEF Finish
  <2>2. CASE ws[w].buffer # {}
    BY <1>8, <1>a, <1>d, <2>2 DEF Finish
  <2>3. QED BY <2>1, <2>2
<1>9. CASE CommitFlush(w)
  <2>1. ws[w].pc = "flush" /\ CommitSegment(w) /\ UNCHANGED <<dirs, sid, planErr, base>>
    BY <1>9 DEF CommitFlush
  <2>2. /\ Drained(ws[w]) \in WorkerState /\ Drained(ws[w]).buffer = {}
        /\ Drained(ws[w]).number = ws[w].number + 1 /\ Drained(ws[w]).file = ws[w].file
    BY <1>a, DrainedType, NumberFields
  <2>3. CASE ws[w].file = NoFile
    <3>1. ws'[w] = [Drained(ws[w]) EXCEPT !.pc = "done"] /\ \A v \in Workers : v # w => ws'[v] = ws[v]
      BY <1>9, <1>b, <2>3 DEF CommitFlush
    <3>2. ws'[w].pc = "done" /\ ws'[w].buffer = {} /\ ws'[w].file = ws[w].file
      BY <2>2, <3>1 DEF WorkerState
    <3>3. QED BY <2>1, <3>1, <3>2
  <2>4. CASE ws[w].file # NoFile
    <3>1. ws'[w] = Recorded(Drained(ws[w])) /\ \A v \in Workers : v # w => ws'[v] = ws[v]
      BY <1>9, <1>b, <2>4 DEF CommitFlush
    <3>2. /\ ws'[w].pc = "claim" /\ ws'[w].buffer = {} /\ ws'[w].file = NoFile
          /\ ws'[w].number = ws[w].number + 1
      BY <2>2, <3>1, RecordedFields, NumberFields
    <3>3. QED BY <2>1, <3>1, <3>2
  <2>5. QED BY <2>3, <2>4
<1>10. CASE FlushFails(w)
  BY <1>10, <1>c DEF FlushFails
<1>11. CASE FlushFailsLate(w)
  BY <1>11, <1>c DEF FlushFailsLate
<1>12. QED
  BY <1>1, <1>2, <1>3, <1>4, <1>5, <1>6, <1>7, <1>8, <1>9, <1>10, <1>11 DEF WorkerStep

-----------------------------------------------------------------------------
(***************************************************************************)
(* The names of the directories.                                           *)
(***************************************************************************)

\* Every segment and every pending directory lies below a worker directory.
NamesAreTaken ==
    \A i \in Ids :
        /\ \A s \in segs[i] : s.worker \in dirs[i]
        /\ \A p \in pending[i] : p[1] \in dirs[i]

\* The next number of a thread is larger than those below its directory.
NumbersAreFree ==
    \A w \in Workers :
        /\ ws[w].pc \notin {"open", "done"} => base + w \in dirs[sid]
        /\ ws[w].pc # "done" =>
              /\ \A s \in segs[sid] : s.worker = base + w => s.number < ws[w].number
              /\ \A m \in Nat : <<base + w, m>> \in pending[sid] =>
                     m < ws[w].number \/ (m = ws[w].number /\ ws[w].pc = "flush")

NamesInv == NamesAreTaken /\ NumbersAreFree

\* CommitSegment in terms of sets.
LEMMA CommitSegmentFrame ==
    ASSUME TInv, NEW w \in Workers, CommitSegment(w)
    PROVE  \E s : /\ segs'[sid] = segs[sid] \cup {s}
                  /\ s.worker = base + w /\ s.number = ws[w].number /\ s.files = ws[w].buffer
                  /\ s.errors = planErr
                  /\ pending'[sid] = pending[sid] \ {<<base + w, ws[w].number>>}
                  /\ \A i \in Ids : i # sid => segs'[i] = segs[i] /\ pending'[i] = pending[i]
<1> DEFINE new == [worker |-> base + w, number |-> ws[w].number, files |-> ws[w].buffer,
                   schema |-> ws[w].rows, errors |-> planErr, intact |-> TRUE]
<1>1. /\ segs'[sid] = segs[sid] \cup {new}
      /\ pending'[sid] = pending[sid] \ {<<base + w, ws[w].number>>}
      /\ \A i \in Ids : i # sid => segs'[i] = segs[i] /\ pending'[i] = pending[i]
  BY DEF CommitSegment, TInv, BuildTypeOK
<1>2. /\ new.worker = base + w /\ new.number = ws[w].number /\ new.files = ws[w].buffer
      /\ new.errors = planErr
  OBVIOUS
<1> HIDE DEF new
<1>3. QED BY <1>1, <1>2

LEMMA NamesInit == BuildInit => NamesInv
<1> SUFFICES ASSUME BuildInit PROVE NamesInv
  OBVIOUS
<1>1. PICK R \in SUBSET (Files \ planErr) :
        /\ segs = [i \in Ids |->
                     IF i = sid /\ R # {}
                     THEN {[worker |-> 0, number |-> 0, files |-> R,
                            schema |-> Columns, errors |-> planErr, intact |-> TRUE]}
                     ELSE {}]
        /\ dirs = [i \in Ids |-> IF i = sid /\ R # {} THEN {0} ELSE {}]
  BY DEF BuildInit
<1> DEFINE old == [worker |-> 0, number |-> 0, files |-> R, schema |-> Columns, errors |-> planErr, intact |-> TRUE]
<1>2. old.worker = 0
  OBVIOUS
<1>3. \A i \in Ids : segs[i] = {} \/ (segs[i] = {old} /\ dirs[i] = {0})
  BY <1>1
<1> HIDE DEF old
<1>4. NamesAreTaken
  BY <1>2, <1>3 DEF NamesAreTaken, BuildInit
<1>5. \A s \in segs[sid] : s.worker = 0 /\ base = 1
  <2>1. ASSUME segs[sid] # {} PROVE base = 1
    <3>1. dirs[sid] = {0}
      BY <1>3, <2>1 DEF BuildInit
    <3>2. base = NextWorkerId({0})
      BY <3>1 DEF BuildInit
    <3>3. {m + 1 : m \in {0}} = {1}
      OBVIOUS
    <3>4. QED BY <3>2, <3>3 DEF NextWorkerId
  <2>2. QED BY <1>2, <1>3, <2>1 DEF BuildInit
<1>6. NumbersAreFree
  <2>1. \A w \in Workers : ws[w].pc = "open" /\ w \in Nat
    BY SizeAssumption DEF BuildInit, FreshWorker, Workers
  <2>2. pending[sid] = {}
    BY DEF BuildInit
  <2>3. QED BY <1>5, <2>1, <2>2 DEF NumbersAreFree
<1>7. QED BY <1>4, <1>6 DEF NamesInv

LEMMA NamesStep == TInv /\ NamesInv /\ [BuildNext]_buildVars => NamesInv'
<1> SUFFICES ASSUME TInv, NamesInv, [BuildNext]_buildVars PROVE NamesInv'
  OBVIOUS
<1>0. CASE UNCHANGED buildVars
  BY <1>0 DEF buildVars, NamesInv, NamesAreTaken, NumbersAreFree
<1>1. ASSUME NEW w \in Workers, WorkerStep(w) PROVE NamesInv'
  <2>a. /\ UNCHANGED <<sid, planErr, base>> /\ ws[w].pc # "done" /\ sid \in Ids
        /\ \A v \in Workers : v # w => ws'[v] = ws[v]
        /\ \A i \in Ids : dirs[i] \subseteq dirs'[i]
        /\ Quiet(w) \/ Opens(w) \/ Renames(w)
    BY <1>1, StepEffect DEF TInv, BuildTypeOK
  <2>b. /\ base \in Nat /\ \A v \in Workers : v \in Nat /\ ws[v].number \in Nat /\ base + v \in Nat
        /\ segs \in [Ids -> SUBSET Segment] /\ pending \in [Ids -> SUBSET (Nat \X Nat)]
    BY SizeAssumption DEF TInv, BuildTypeOK, Workers, WorkerState
  <2>c. \A v \in Workers : v # w => base + v # base + w
    BY <2>b
  <2>d. \A v \in Workers : v # w /\ ws'[v].pc \notin {"open", "done"} => base + v \in dirs'[sid]
    BY <2>a DEF NamesInv, NumbersAreFree
  <2>1. CASE Quiet(w)
    <3>1. NamesAreTaken'
      BY <2>1, <2>a DEF Quiet, NamesInv, NamesAreTaken
    <3>2. ws'[w].pc \notin {"open", "done"} => base + w \in dirs'[sid]
      BY <2>1, <2>a DEF Quiet, NamesInv, NumbersAreFree
    <3>3. NumbersAreFree'
      BY <2>1, <2>a, <2>b, <2>d, <3>2 DEF Quiet, NamesInv, NumbersAreFree
    <3>4. QED BY <3>1, <3>3 DEF NamesInv
  <2>2. CASE Opens(w)
    <3>1. base + w \in dirs[sid]
      BY <2>2 DEF Opens, NamesInv, NumbersAreFree
    <3>2. /\ pending'[sid] = pending[sid] \cup {<<base + w, ws[w].number>>}
          /\ \A i \in Ids : i # sid => pending'[i] = pending[i]
      BY <2>2, <2>a, <2>b DEF Opens
    <3>3. NamesAreTaken'
      BY <2>2, <2>a, <3>1, <3>2 DEF Opens, NamesInv, NamesAreTaken
    <3>4. NumbersAreFree'
      BY <2>2, <2>a, <2>b, <2>c, <2>d, <3>1, <3>2 DEF Opens, NamesInv, NumbersAreFree
    <3>5. QED BY <3>3, <3>4 DEF NamesInv
  <2>3. CASE Renames(w)
    <3>1. base + w \in dirs[sid]
      BY <2>3 DEF Renames, NamesInv, NumbersAreFree
    <3>2. PICK s : /\ segs'[sid] = segs[sid] \cup {s}
                   /\ s.worker = base + w /\ s.number = ws[w].number
                   /\ pending'[sid] = pending[sid] \ {<<base + w, ws[w].number>>}
                   /\ \A i \in Ids : i # sid => segs'[i] = segs[i] /\ pending'[i] = pending[i]
      BY <2>3, CommitSegmentFrame DEF Renames
    <3>3. NamesAreTaken'
      BY <2>a, <3>1, <3>2 DEF NamesInv, NamesAreTaken
    <3>4. ASSUME NEW v \in Workers, v # w, ws[v].pc # "done"
          PROVE  /\ \A t \in segs'[sid] : t.worker = base + v => t.number < ws[v].number
                 /\ \A m \in Nat : <<base + v, m>> \in pending'[sid] =>
                        m < ws[v].number \/ (m = ws[v].number /\ ws[v].pc = "flush")
      BY <2>c, <3>2, <3>4 DEF NamesInv, NumbersAreFree
    <3>5. ASSUME ws'[w].pc # "done"
          PROVE  /\ \A t \in segs'[sid] : t.worker = base + w => t.number < ws[w].number + 1
                 /\ \A m \in Nat : <<base + w, m>> \in pending'[sid] => m < ws[w].number + 1
      <4>1. ASSUME NEW t \in segs'[sid], t.worker = base + w PROVE t.number < ws[w].number + 1
        <5>1. CASE t = s
          BY <2>b, <3>2, <5>1
        <5>2. CASE t \in segs[sid]
          <6>1. t.number < ws[w].number /\ t.number \in Nat
            BY <2>a, <2>b, <4>1, <5>2 DEF NamesInv, NumbersAreFree, Segment
          <6>2. QED BY <2>b, <6>1
        <5>3. QED BY <3>2, <5>1, <5>2
      <4>2. ASSUME NEW m \in Nat, <<base + w, m>> \in pending'[sid] PROVE m < ws[w].number + 1
        BY <2>a, <2>b, <3>2, <4>2 DEF NamesInv, NumbersAreFree
      <4>3. QED BY <4>1, <4>2
    <3>6. NumbersAreFree'
      BY <2>3, <2>a, <2>d, <3>1, <3>4, <3>5 DEF Renames, NumbersAreFree
    <3>7. QED BY <3>3, <3>6 DEF NamesInv
  <2>4. QED BY <2>a, <2>1, <2>2, <2>3
<1>2. QED BY <1>0, <1>1 DEF BuildNext

\* No thread of a resumed build ever meets a directory name of an earlier run:
\* its worker id is new, and its segment numbers grow.
THEOREM NamesNeverCollide == BuildSpec => []NoCheckpointCollision
<1>1. TInv /\ NamesInv => NoCheckpointCollision
  <2> SUFFICES ASSUME TInv, NamesInv, NEW w \in Workers, ws[w].pc \in {"build", "finish"}
               PROVE  ~ Collides(w)
    BY DEF NoCheckpointCollision
  <2>1. ws[w].number \in Nat
    BY DEF TInv, BuildTypeOK, WorkerState
  <2>2. <<base + w, ws[w].number>> \notin pending[sid]
    BY <2>1 DEF NamesInv, NumbersAreFree
  <2>3. ASSUME NEW s \in segs[sid], s.worker = base + w, s.number = ws[w].number PROVE FALSE
    BY <2>1, <2>3 DEF NamesInv, NumbersAreFree
  <2>4. QED BY <2>2, <2>3 DEF Collides
<1>2. QED
  BY <1>1, TypeInit, TypeStep, NamesInit, NamesStep, PTL DEF BuildSpec
=============================================================================
