-------------------------- MODULE DatasetScanProofs --------------------------
(***************************************************************************)
(* Proofs about DatasetScan: the threads.  The invariant says, for each    *)
(* task of the plan, who has it, and for each row of a task, whether the   *)
(* thread that has the task is still to read the row, has it in hand to be *)
(* granted, or has passed it.  No row is returned twice, every row that    *)
(* matches is returned unless the limit is reached, and the rows granted   *)
(* never exceed the limit.                                                 *)
(*                                                                         *)
(* The predicates take the state of the threads as parameters (L is local, *)
(* P pc, R rows, m emitted, h stop, g next_group): a step is a fact about  *)
(* two values of each, and the plan is the same in both.                   *)
(***************************************************************************)
EXTENDS DatasetPlanProofs

-----------------------------------------------------------------------------
(***************************************************************************)
(* One thread.                                                             *)
(***************************************************************************)

Places == {"plan", "start", "count", "scan", "reserve", "stop", "return", "done", "failed"}

Item == [idx: Nat \ {0}, value: Value]
AnyLocal == [next: Nat \ {0}, last: Nat, has: BOOLEAN, task: AnyTask, entry: Nat,
             vals: Seq(Item), offset: Nat, at: Nat, from: Nat, open: BOOLEAN, rest: Seq(Item),
             out: Nat, seen: Nat]

\* The values of an entry, with their places.
Size(f, e) == Len(q.files[f].target[e + 1])
ValueAt(f, e, i) == [idx |-> i, value |-> q.files[f].target[e + 1][i]]

\* The values thread l has not taken from its buffer and cursor, and those of
\* the same entry that came before the buffer.
Rem(l) == Len(l.vals) - l.offset + Len(l.rest)
Gone(l) == Size(l.from, l.at) - Len(l.vals) - Len(l.rest)

\* The task in hand and the counters.
LocalOK(l, p) ==
    /\ l \in AnyLocal
    /\ l.last <= Len(tasks) /\ l.offset <= Len(l.vals) /\ l.out <= VectorSize
    /\ ~l.open => l.rest = <<>>
    /\ ~l.has => ~l.open
    /\ l.has => /\ l.next - 1 \in DOMAIN tasks /\ l.next - 1 <= l.last
                /\ l.task = ClippedTask(tasks[l.next - 1])
                /\ l.task.begin <= l.entry /\ l.entry <= l.task.end /\ l.task.begin < l.task.end
    /\ p = "reserve" => l.has /\ l.out < VectorSize /\ l.offset >= 1
    /\ q.count => ~l.has /\ l.next > l.last

\* The buffer and the cursor hold the end of an entry the query wants.
OfEntry(l) ==
    /\ l.from \in DOMAIN q.files /\ l.at \in Entries(l.from) /\ Covered(tasks, l.from, l.at)
    /\ PassesDatasetEntryFilters(l.from, l.at) /\ PassesPathPredicates(l.from, l.at)
    /\ Gone(l) >= 0
    /\ \A i \in 1 .. Len(l.vals) : l.vals[i] = ValueAt(l.from, l.at, Gone(l) + i)
    /\ \A i \in 1 .. Len(l.rest) : l.rest[i] = ValueAt(l.from, l.at, Gone(l) + Len(l.vals) + i)

\* Once the task has been begun it is the entry before the current one; with
\* typed_values the buffer may be older, until then.
BufferOK(l, p) ==
    /\ l.vals # <<>> \/ l.rest # <<>> => OfEntry(l)
    /\ l.has /\ (Rem(l) > 0 \/ p = "reserve") /\ l.entry > l.task.begin =>
          l.from = l.task.file /\ l.at = l.entry - 1
    /\ ~q.typed /\ (Rem(l) > 0 \/ p = "reserve") => l.has /\ l.entry > l.task.begin

\* Task k is in the hands of thread l: being read, or still to do in its group.
Owns(l, k) == (l.has /\ k = l.next - 1) \/ (l.next <= k /\ k <= l.last)

\* l has passed row r of the task it reads; l holds r, to be granted.
Behind(l, r) ==
    /\ r.entry < l.entry
    /\ r.entry = l.entry - 1 => r.idx <= Size(r.file, r.entry) - Rem(l)
RowAt(l) == [file |-> l.from, entry |-> l.at, idx |-> l.vals[l.offset].idx, value |-> l.vals[l.offset].value]
InHand(l, p, r) == p = "reserve" /\ RowAt(l) = r

\* Where the thread with task k is with row r of it: past it for good, or not
\* there yet.
Passed(l, p, k, r) == Owns(l, k) => l.has /\ k = l.next - 1 /\ Behind(l, r) /\ ~InHand(l, p, r)
Awaits(l, p, k, r) ==
    \/ Owns(l, k) /\ (l.has /\ k = l.next - 1 => ~Behind(l, r))
    \/ InHand(l, p, r)

Of(k, r) == k \in DOMAIN tasks /\ Holding(tasks, k, r.file, r.entry)

\* A step of a thread, from l at p to l2 at p2: it takes no task, it does not go
\* back to a row, the row it has in hand is then behind it, and of the rows that
\* match it leaves out none.
MovesOn(l, p, l2, p2) ==
    /\ LocalOK(l2, p2) /\ BufferOK(l2, p2)
    /\ \A k \in DOMAIN tasks : Owns(l2, k) => Owns(l, k)
    /\ ~q.typed => \A r \in AllRows : \A k : Of(k, r) /\ Passed(l, p, k, r) => Passed(l2, p2, k, r)
LetsGo(l, l2, p2) ==
    \A k, r : (Owns(l, k) => l.has /\ k = l.next - 1 /\ Behind(l, r)) => Passed(l2, p2, k, r)
KeepsRow(l, p, l2, p2, r) == \A k : Of(k, r) /\ Awaits(l, p, k, r) => Awaits(l2, p2, k, r)

-----------------------------------------------------------------------------
(***************************************************************************)
(* Facts about the task and the entry a thread reads.                      *)
(***************************************************************************)

LEMMA VectorFacts == VectorSize \in Nat /\ VectorSize >= 1
BY DatasetAssumption

LEMMA EntryFacts ==
    ASSUME q \in Queries, NEW f \in DOMAIN q.files, NEW e \in Entries(f)
    PROVE  /\ Size(f, e) \in Nat
           /\ \A i \in 1 .. Size(f, e) : ValueAt(f, e, i) \in Item
           /\ Len(Flat(q.files[f].target, e)) = Size(f, e)
           /\ Flat(q.files[f].target, e) \in Seq(Item)
           /\ \A i \in 1 .. Size(f, e) : Flat(q.files[f].target, e)[i] = ValueAt(f, e, i)
<1> DEFINE v == q.files[f].target[e + 1]
           F == Flat(q.files[f].target, e)
<1>1. v \in Seq(Value)
  BY FileFacts
<1>2. Len(v) \in Nat /\ DOMAIN v = 1 .. Len(v) /\ \A i \in 1 .. Len(v) : v[i] \in Value
  BY <1>1
<1>3. F = [i \in DOMAIN v |-> [idx |-> i, value |-> v[i]]]
  BY DEF Flat
<1>4. Size(f, e) = Len(v) /\ \A i : ValueAt(f, e, i) = [idx |-> i, value |-> v[i]]
  BY DEF Size, ValueAt
<1> HIDE DEF v, F
<1>5. \A i \in 1 .. Len(v) : [idx |-> i, value |-> v[i]] \in Item
  BY <1>2 DEF Item
<1>6. F \in [1 .. Len(v) -> Item]
  BY <1>2, <1>3, <1>5
<1>7. F \in Seq(Item) /\ Len(F) = Len(v)
  BY <1>2, <1>6
<1>8. \A i \in 1 .. Len(v) : F[i] = [idx |-> i, value |-> v[i]]
  BY <1>2, <1>3
<1>9. QED BY <1>2, <1>4, <1>5, <1>7, <1>8 DEF F

\* The task in hand: a part of a task of the plan that has every row of it that
\* matches.
LEMMA HandFacts ==
    ASSUME PlanInv, NEW l, NEW p, LocalOK(l, p), l.has
    PROVE  /\ q \in Queries /\ l.next - 1 \in DOMAIN tasks /\ Owns(l, l.next - 1)
           /\ l.task.file = tasks[l.next - 1].file /\ l.task.file \in DOMAIN q.files
           /\ l.task.begin \in Nat /\ l.task.end \in Nat /\ l.entry \in Nat
           /\ \A e : e \in Inside(l.task) => /\ e \in Inside(tasks[l.next - 1]) /\ e \in Entries(l.task.file)
                                             /\ Covered(tasks, l.task.file, e) /\ e \in Nat
           /\ Ordinary => \A r \in Matching : Of(l.next - 1, r) =>
                 r.file = l.task.file /\ r.entry \in Inside(l.task)
<1> DEFINE k == l.next - 1
           t == tasks[k]
           u == ClippedTask(t)
<1>1. q \in Queries /\ k \in DOMAIN tasks /\ l.task = u /\ l \in AnyLocal
  BY DEF PlanInv, LocalOK
<1>2. /\ t \in AnyTask /\ t.file \in DOMAIN q.files /\ Inside(t) \subseteq Entries(t.file)
  BY <1>1, TaskFacts
<1>3. /\ u \in LooseTask /\ u.file = t.file /\ t.begin <= u.begin /\ u.end <= t.end
      /\ \A e \in Inside(t) : /\ \A X \in EntryRange : Admits(X, e)
                              /\ \A X \in EventRange : Admits(X, q.files[t.file].base + e)
                              => e \in Inside(u)
  BY <1>1, <1>2, ClippedTaskFacts
<1>4. l.task.begin \in Nat /\ l.task.end \in Nat /\ l.entry \in Nat
  BY <1>1 DEF AnyLocal, AnyTask
<1>5. ASSUME NEW e \in Inside(u)
      PROVE  e \in Inside(t) /\ e \in Entries(t.file) /\ Covered(tasks, t.file, e) /\ e \in Nat
  <2>1. /\ t.begin \in Int /\ t.end \in Int /\ u.begin \in Nat /\ u.end \in Int
    BY <1>2, <1>3 DEF AnyTask, LooseTask
  <2>2. e \in u.begin .. u.end - 1
    BY DEF Inside
  <2>3. e \in t.begin .. t.end - 1 /\ e \in Nat
    BY <1>3, <2>1, <2>2
  <2>4. e \in Inside(t)
    BY <2>3 DEF Inside
  <2>5. QED BY <1>1, <1>2, <2>3, <2>4 DEF Covered, Holding
<1>6. ASSUME Ordinary, NEW r \in Matching, Of(k, r) PROVE r.file = t.file /\ r.entry \in Inside(u)
  <2>1. r.file = t.file /\ r.entry \in Inside(t)
    BY <1>6 DEF Of, Holding
  <2>2. /\ \A X \in EntryRange : Admits(X, r.entry)
        /\ \A X \in EventRange : Admits(X, q.files[t.file].base + r.entry)
    BY <1>1, <1>6, <2>1, MatchingIsCandidate
  <2>3. QED BY <1>3, <2>1, <2>2
<1>7. QED BY <1>1, <1>2, <1>3, <1>4, <1>5, <1>6 DEF Owns

-----------------------------------------------------------------------------
(***************************************************************************)
(* The steps of a thread.                                                  *)
(***************************************************************************)

\* A step that leaves the buffer, the task and the group alone.
LEMMA Carries ==
    ASSUME NEW l, NEW p, NEW p2, NEW o \in 0 .. VectorSize, NEW s \in Nat, LocalOK(l, p), BufferOK(l, p),
           p2 = "reserve" => p = "reserve" /\ o < VectorSize
    PROVE  /\ MovesOn(l, p, [l EXCEPT !.out = o, !.seen = s], p2)
           /\ \A r : p2 = "reserve" \/ ~InHand(l, p, r) => KeepsRow(l, p, [l EXCEPT !.out = o, !.seen = s], p2, r)
           /\ p2 # "reserve" => LetsGo(l, [l EXCEPT !.out = o, !.seen = s], p2)
<1> DEFINE z == [l EXCEPT !.out = o, !.seen = s]
<1>1. /\ z \in AnyLocal /\ z.out = o /\ z.next = l.next /\ z.last = l.last /\ z.has = l.has /\ z.task = l.task
      /\ z.entry = l.entry /\ z.vals = l.vals /\ z.offset = l.offset /\ z.at = l.at /\ z.from = l.from
      /\ z.open = l.open /\ z.rest = l.rest
  <2>1. l \in AnyLocal /\ o \in Nat
    BY VectorFacts DEF LocalOK
  <2>2. QED BY <2>1 DEF AnyLocal
<1> HIDE DEF z
<1>2. o <= VectorSize
  BY VectorFacts
<1>3. LocalOK(z, p2)
  BY <1>1, <1>2 DEF LocalOK
<1>4. OfEntry(l) => OfEntry(z)
  BY <1>1 DEF OfEntry, Gone
<1>5. BufferOK(z, p2)
  BY <1>1, <1>4 DEF BufferOK, Rem
<1>6. \A k : Owns(z, k) <=> Owns(l, k)
  BY <1>1 DEF Owns
<1>7. \A r : Behind(z, r) <=> Behind(l, r)
  BY <1>1 DEF Behind, Rem
<1>8. RowAt(z) = RowAt(l)
  BY <1>1 DEF RowAt
<1>9. \A r : (InHand(z, p2, r) => InHand(l, p, r)) /\ (p2 = "reserve" /\ InHand(l, p, r) => InHand(z, p2, r))
  BY <1>8 DEF InHand
<1>10. \A k, r : Passed(l, p, k, r) => Passed(z, p2, k, r)
  BY <1>1, <1>6, <1>7, <1>9 DEF Passed
<1>11. \A k, r : Awaits(l, p, k, r) /\ (p2 = "reserve" \/ ~InHand(l, p, r)) => Awaits(z, p2, k, r)
  BY <1>1, <1>6, <1>7, <1>9 DEF Awaits
<1>12. ASSUME p2 # "reserve" PROVE LetsGo(l, z, p2)
  <2>1. \A r : ~InHand(z, p2, r)
    BY <1>12 DEF InHand
  <2>2. QED BY <1>1, <1>6, <1>7, <2>1 DEF LetsGo, Passed
<1>13. QED BY <1>3, <1>5, <1>6, <1>10, <1>11, <1>12 DEF MovesOn, KeepsRow, z

Taking(l, n, t, b, v) ==
    [l EXCEPT !.next = n, !.has = TRUE, !.task = t, !.entry = b, !.vals = v, !.offset = 0]
Taken(l, n, t, b, v, z) ==
    /\ z \in AnyLocal /\ z.next = n /\ z.last = l.last /\ z.has = TRUE /\ z.task = t /\ z.out = l.out
    /\ z.entry = b /\ z.vals = v /\ z.offset = 0 /\ z.at = l.at /\ z.from = l.from
    /\ z.open = l.open /\ z.rest = l.rest /\ z.seen = l.seen

LEMMA TaskTaken ==
    ASSUME NEW l \in AnyLocal, NEW n \in Nat \ {0}, NEW t \in AnyTask, NEW b \in Nat, NEW v \in Seq(Item)
    PROVE  Taken(l, n, t, b, v, Taking(l, n, t, b, v))
<1> DEFINE I == Seq(Item)
           K == AnyTask
           z == Taking(l, n, t, b, v)
<1>1. v \in I /\ t \in K /\ l \in [next: Nat \ {0}, last: Nat, has: BOOLEAN, task: K, entry: Nat,
             vals: I, offset: Nat, at: Nat, from: Nat, open: BOOLEAN, rest: I, out: Nat, seen: Nat]
  BY DEF AnyLocal
<1> HIDE DEF I, K
<1>2. /\ z \in [next: Nat \ {0}, last: Nat, has: BOOLEAN, task: K, entry: Nat,
             vals: I, offset: Nat, at: Nat, from: Nat, open: BOOLEAN, rest: I, out: Nat, seen: Nat]
      /\ z.next = n /\ z.last = l.last /\ z.has = TRUE /\ z.task = t /\ z.out = l.out
      /\ z.entry = b /\ z.vals = v /\ z.offset = 0 /\ z.at = l.at /\ z.from = l.from
      /\ z.open = l.open /\ z.rest = l.rest /\ z.seen = l.seen
  BY <1>1 DEF Taking
<1>3. QED BY <1>2 DEF AnyLocal, I, K, Taken

\* ClaimTask: the next task, clipped to t, with the buffer v, or none of it.
Claimed(l, t, v) ==
    IF t.begin >= t.end THEN [l EXCEPT !.next = l.next + 1]
    ELSE [l EXCEPT !.next = l.next + 1, !.has = TRUE, !.task = t, !.entry = t.begin, !.vals = v, !.offset = 0]

LEMMA ClaimTaskThread ==
    ASSUME PlanInv, NEW l, LocalOK(l, "scan"), BufferOK(l, "scan"), ~l.has, l.next <= l.last,
           NEW v, v = IF q.typed THEN l.vals ELSE <<>>, NEW t, t = ClippedTask(tasks[l.next]),
           NEW z, z = Claimed(l, t, v)
    PROVE  /\ MovesOn(l, "scan", z, "scan")
           /\ Ordinary => \A r \in Matching : KeepsRow(l, "scan", z, "scan", r)
<1>1. /\ q \in Queries /\ l \in AnyLocal /\ l.next \in Nat /\ l.next >= 1 /\ l.last \in Nat /\ l.last <= Len(tasks)
      /\ ~l.open /\ l.rest = <<>> /\ ~q.count
  BY DEF PlanInv, LocalOK, AnyLocal
<1>2. l.next \in DOMAIN tasks
  <2>1. tasks \in Seq(AnyTask)
    BY DEF PlanInv, IsPlan, Disjoint
  <2>2. QED BY <1>1, <2>1
<1>3. /\ tasks[l.next] \in AnyTask /\ tasks[l.next].file \in DOMAIN q.files
      /\ Inside(tasks[l.next]) \subseteq Entries(tasks[l.next].file)
  BY <1>2, TaskFacts
<1>4. /\ t \in LooseTask /\ t.file = tasks[l.next].file
      /\ \A e \in Inside(tasks[l.next]) :
            /\ \A X \in EntryRange : Admits(X, e)
            /\ \A X \in EventRange : Admits(X, q.files[tasks[l.next].file].base + e)
            => e \in Inside(t)
  BY <1>1, <1>3, ClippedTaskFacts
<1>5. ASSUME Ordinary, NEW r \in Matching, Of(l.next, r) PROVE r.entry \in Inside(t)
  <2>1. r.file = t.file /\ r.entry \in Inside(tasks[l.next])
    BY <1>4, <1>5 DEF Of, Holding
  <2>2. QED BY <1>1, <1>4, <1>5, <2>1, MatchingIsCandidate
<1>6. \A p, k, r : Passed(l, p, k, r) => ~Owns(l, k)
  BY DEF Passed
<1>7. \A k, r : Awaits(l, "scan", k, r) => Owns(l, k)
  BY DEF Awaits, InHand
<1>8. \A k : Owns(l, k) <=> l.next <= k /\ k <= l.last
  BY DEF Owns
<1>9. CASE t.begin >= t.end
  <2>1. /\ z \in AnyLocal /\ z.next = l.next + 1 /\ z.last = l.last /\ z.has = l.has /\ z.out = l.out
        /\ z.entry = l.entry /\ z.vals = l.vals /\ z.offset = l.offset /\ z.at = l.at /\ z.from = l.from
        /\ z.open = l.open /\ z.rest = l.rest
    <3> DEFINE n == l.next + 1
    <3>1. l \in AnyLocal /\ n \in Nat \ {0} /\ z = [l EXCEPT !.next = n]
      BY <1>1, <1>9 DEF Claimed
    <3> HIDE DEF n
    <3>2. /\ z \in AnyLocal /\ z.next = n /\ z.last = l.last /\ z.has = l.has /\ z.out = l.out
          /\ z.entry = l.entry /\ z.vals = l.vals /\ z.offset = l.offset /\ z.at = l.at /\ z.from = l.from
          /\ z.open = l.open /\ z.rest = l.rest
      BY <3>1 DEF AnyLocal
    <3>3. QED BY <3>2 DEF n
  <2>2. LocalOK(z, "scan")
    BY <1>1, <2>1 DEF LocalOK
  <2>3. BufferOK(z, "scan")
    <3>1. OfEntry(l) => OfEntry(z)
      BY ONLY <2>1 DEF OfEntry, Gone
    <3>2. QED BY <2>1, <3>1 DEF BufferOK, Rem
  <2>4. \A k \in DOMAIN tasks : k \in Int
    BY DEF PlanInv, IsPlan, Disjoint
  <2>5. \A k \in DOMAIN tasks : Owns(z, k) <=> Owns(l, k) /\ k # l.next
    <3> SUFFICES ASSUME NEW k \in DOMAIN tasks PROVE Owns(z, k) <=> Owns(l, k) /\ k # l.next
      OBVIOUS
    <3>1. k \in Int /\ l.next \in Int
      BY <1>1, <2>4
    <3>2. Owns(z, k) <=> l.next + 1 <= k /\ k <= l.last
      BY <2>1 DEF Owns
    <3>3. l.next + 1 <= k <=> l.next <= k /\ k # l.next
      BY <3>1
    <3>4. QED BY <1>8, <3>2, <3>3
  <2>6. \A k, r : Of(k, r) /\ Passed(l, "scan", k, r) => Passed(z, "scan", k, r)
    BY <1>6, <2>5 DEF Of, Passed
  <2>7. ASSUME Ordinary, NEW r \in Matching PROVE KeepsRow(l, "scan", z, "scan", r)
    <3> SUFFICES ASSUME NEW k, Of(k, r), Awaits(l, "scan", k, r) PROVE Awaits(z, "scan", k, r)
      BY DEF KeepsRow
    <3>1. Inside(t) = {}
      <4>1. t.begin \in Nat /\ t.end \in Int
        BY <1>4 DEF LooseTask
      <4>2. QED BY <1>9, <4>1 DEF Inside
    <3>2. k # l.next
      BY <1>5, <2>7, <3>1
    <3>3. Owns(z, k)
      BY <1>7, <2>5, <3>2 DEF Of
    <3>4. QED BY <2>1, <3>3 DEF Awaits
  <2>8. QED BY <2>2, <2>3, <2>5, <2>6, <2>7 DEF MovesOn
<1>10. CASE ~ (t.begin >= t.end)
  <2>1. t.begin \in Nat /\ t.end \in Nat /\ t.begin < t.end /\ t \in AnyTask
    <3>1. /\ t.begin \in Nat /\ t.end \in Int /\ t.file \in Nat /\ t.offset \in Nat /\ t.size \in Nat
          /\ t = [file |-> t.file, begin |-> t.begin, end |-> t.end, offset |-> t.offset, size |-> t.size]
      BY <1>4 DEF LooseTask
    <3>2. t.end \in Nat /\ t.begin < t.end
      BY <1>10, <3>1
    <3>3. QED BY <3>1, <3>2 DEF AnyTask
  <2>2. v \in Seq(Item)
    BY <1>1 DEF AnyLocal
  <2>3. z = Taking(l, l.next + 1, t, t.begin, v)
    BY <1>10 DEF Claimed, Taking
  <2>4. /\ z \in AnyLocal /\ z.next = l.next + 1 /\ z.last = l.last /\ z.has = TRUE /\ z.task = t /\ z.out = l.out
        /\ z.entry = t.begin /\ z.vals = v /\ z.offset = 0 /\ z.at = l.at /\ z.from = l.from
        /\ z.open = l.open /\ z.rest = l.rest
    <3>1. l.next + 1 \in Nat \ {0}
      BY <1>1
    <3>2. Taken(l, l.next + 1, t, t.begin, v, Taking(l, l.next + 1, t, t.begin, v))
      BY <1>1, <2>1, <2>2, <3>1, TaskTaken
    <3>3. QED BY <2>3, <3>2 DEF Taken
  <2>5. LocalOK(z, "scan")
    <3>1. z.next - 1 = l.next /\ t.begin <= t.begin /\ t.begin <= t.end /\ 0 <= Len(v)
      BY <1>1, <2>1, <2>2, <2>4
    <3>2. z.last <= Len(tasks) /\ z.offset <= Len(z.vals) /\ z.out <= VectorSize
      BY <1>1, <2>4, <3>1 DEF LocalOK
    <3>3. z.next - 1 \in DOMAIN tasks /\ z.next - 1 <= z.last /\ z.task = ClippedTask(tasks[z.next - 1])
          /\ z.task.begin <= z.entry /\ z.entry <= z.task.end /\ z.task.begin < z.task.end
      BY <1>2, <2>1, <2>4, <3>1
    <3>4. QED BY <1>1, <2>4, <3>2, <3>3 DEF LocalOK
  <2>6. BufferOK(z, "scan")
    <3>1. z.vals # <<>> \/ z.rest # <<>> => OfEntry(z)
      <4> SUFFICES ASSUME z.vals # <<>> PROVE OfEntry(z)
        BY <1>1, <2>4
      <4>1. v = l.vals
        BY <2>4
      <4>2. OfEntry(l)
        BY <2>4, <4>1 DEF BufferOK
      <4>3. QED BY ONLY <2>4, <4>1, <4>2 DEF OfEntry, Gone
    <3>2. ~ (z.entry > z.task.begin)
      BY <2>1, <2>4
    <3>3. ~q.typed => Rem(z) = 0
      BY <1>1, <2>4 DEF Rem
    <3>4. QED BY <3>1, <3>2, <3>3 DEF BufferOK
  <2>7. \A k \in DOMAIN tasks : k \in Int
    BY DEF PlanInv, IsPlan, Disjoint
  <2>8. z.next - 1 = l.next
    BY <1>1, <2>4
  <2>9. \A k \in DOMAIN tasks : Owns(z, k) <=> Owns(l, k)
    BY <1>1, <1>8, <2>4, <2>7, <2>8 DEF Owns
  <2>10. \A k, r : Of(k, r) /\ Passed(l, "scan", k, r) => Passed(z, "scan", k, r)
    BY <1>6, <2>9 DEF Of, Passed
  <2>11. ASSUME Ordinary, NEW r \in Matching PROVE KeepsRow(l, "scan", z, "scan", r)
    <3> SUFFICES ASSUME NEW k, Of(k, r), Awaits(l, "scan", k, r) PROVE Awaits(z, "scan", k, r)
      BY DEF KeepsRow
    <3>1. Owns(z, k)
      BY <1>7, <2>9 DEF Of
    <3>2. ASSUME k = l.next PROVE ~Behind(z, r)
      <4>1. r.entry \in Inside(t)
        BY <1>5, <2>11, <3>2
      <4>2. t.begin <= r.entry /\ r.entry \in Int
        BY <2>1, <4>1 DEF Inside
      <4>3. ~ (r.entry < t.begin)
        BY <2>1, <4>2
      <4>4. QED BY <2>4, <4>3 DEF Behind
    <3>3. QED BY <2>8, <3>1, <3>2 DEF Awaits
  <2>12. QED BY <2>5, <2>6, <2>9, <2>10, <2>11 DEF MovesOn
<1>11. QED BY <1>9, <1>10

-----------------------------------------------------------------------------
(***************************************************************************)
(* Reading an entry.                                                       *)
(***************************************************************************)

\* The first n values of s, and the others.
Split(s, n, a, b) ==
    /\ a \in Seq(Item) /\ b \in Seq(Item) /\ Len(a) = n /\ Len(b) = Len(s) - n
    /\ \A i \in 1 .. Len(a) : a[i] = s[i]
    /\ \A i \in 1 .. Len(b) : b[i] = s[n + i]

LEMMA SplitFacts ==
    ASSUME NEW s \in Seq(Item), NEW n \in 0 .. Len(s)
    PROVE  Split(s, n, SubSeq(s, 1, n), SubSeq(s, n + 1, Len(s)))
<1> DEFINE m == Len(s)
           a == SubSeq(s, 1, n)
           b == SubSeq(s, n + 1, m)
           I == Item
<1>1. m \in Nat /\ n \in Nat /\ n <= m
  OBVIOUS
<1>2. s \in Seq(I) /\ m = Len(s)
  OBVIOUS
<1> HIDE DEF m, I
<1>3. a \in Seq(I) /\ Len(a) = n /\ \A i \in 1 .. Len(a) : a[i] = s[i]
  BY <1>1, <1>2
<1>4. b \in Seq(I) /\ Len(b) = m - n /\ \A i \in 1 .. Len(b) : b[i] = s[n + i]
  BY <1>1, <1>2
<1>5. QED BY <1>2, <1>3, <1>4 DEF Split, I, m

LEMMA WholeFacts ==
    ASSUME NEW s \in Seq(Item)
    PROVE  Split(s, Len(s), s, <<>>)
BY DEF Split

\* The buffer v and the cursor s, open or not, at entry a of file f; e is next.
Loading(l, e, f, a, v, s, o) ==
    [l EXCEPT !.entry = e, !.from = f, !.at = a, !.vals = v, !.rest = s, !.offset = 0, !.open = o]
Loaded(l, e, f, a, v, s, o, z) ==
    /\ z \in AnyLocal /\ z.next = l.next /\ z.last = l.last /\ z.has = l.has /\ z.task = l.task /\ z.out = l.out
    /\ z.entry = e /\ z.vals = v /\ z.offset = 0 /\ z.at = a /\ z.from = f
    /\ (z.open <=> o) /\ z.rest = s /\ z.seen = l.seen

LEMMA LoadedFacts ==
    ASSUME NEW l \in AnyLocal, NEW e \in Nat, NEW f \in Nat, NEW a \in Nat, NEW v \in Seq(Item),
           NEW s \in Seq(Item), NEW o \in BOOLEAN
    PROVE  Loaded(l, e, f, a, v, s, o, Loading(l, e, f, a, v, s, o))
<1> DEFINE I == Seq(Item)
           K == AnyTask
           z == Loading(l, e, f, a, v, s, o)
<1>1. v \in I /\ s \in I /\ l \in [next: Nat \ {0}, last: Nat, has: BOOLEAN, task: K, entry: Nat,
             vals: I, offset: Nat, at: Nat, from: Nat, open: BOOLEAN, rest: I, out: Nat, seen: Nat]
  BY DEF AnyLocal
<1> HIDE DEF I, K
<1>2. /\ z \in [next: Nat \ {0}, last: Nat, has: BOOLEAN, task: K, entry: Nat,
             vals: I, offset: Nat, at: Nat, from: Nat, open: BOOLEAN, rest: I, out: Nat, seen: Nat]
      /\ z.next = l.next /\ z.last = l.last /\ z.has = l.has /\ z.task = l.task /\ z.out = l.out
      /\ z.entry = e /\ z.vals = v /\ z.offset = 0 /\ z.at = a /\ z.from = f
      /\ z.open = o /\ z.rest = s /\ z.seen = l.seen
  BY <1>1 DEF Loading
<1>3. QED BY <1>2 DEF AnyLocal, I, K, Loaded

\* LoadNextEntry: another page of the open cursor.
LEMMA NextPageThread ==
    ASSUME PlanInv, NEW l, LocalOK(l, "scan"), BufferOK(l, "scan"), l.has, l.offset >= Len(l.vals), l.open,
           NEW n \in Nat, n <= Len(l.rest), NEW v, NEW s, Split(l.rest, n, v, s),
           NEW o \in BOOLEAN, ~o => n = Len(l.rest), NEW z, Loaded(l, l.entry, l.from, l.at, v, s, o, z)
    PROVE  /\ MovesOn(l, "scan", z, "scan")
           /\ \A r : KeepsRow(l, "scan", z, "scan", r)
<1>1. /\ z \in AnyLocal /\ z.next = l.next /\ z.last = l.last /\ z.has = l.has /\ z.task = l.task /\ z.out = l.out
      /\ z.entry = l.entry /\ z.vals = v /\ z.offset = 0 /\ z.at = l.at /\ z.from = l.from
      /\ (z.open <=> o) /\ z.rest = s
  BY DEF Loaded
<1>2. /\ v \in Seq(Item) /\ s \in Seq(Item) /\ Len(v) = n /\ Len(s) = Len(l.rest) - n
      /\ \A i \in 1 .. Len(v) : v[i] = l.rest[i]
      /\ \A i \in 1 .. Len(s) : s[i] = l.rest[n + i]
  BY DEF Split
<1>3. /\ l.vals \in Seq(Item) /\ l.rest \in Seq(Item) /\ l.offset \in Nat /\ l.offset <= Len(l.vals)
      /\ Len(l.vals) \in Nat /\ Len(l.rest) \in Nat /\ q \in Queries
  <2>1. l \in AnyLocal /\ l.offset <= Len(l.vals)
    BY DEF LocalOK
  <2>2. l.vals \in Seq(Item) /\ l.rest \in Seq(Item) /\ l.offset \in Nat
    BY ONLY <2>1 DEF AnyLocal
  <2>3. Len(l.vals) \in Nat /\ Len(l.rest) \in Nat
    BY ONLY <2>2
  <2>4. q \in Queries
    BY DEF PlanInv
  <2>5. QED BY ONLY <2>1, <2>2, <2>3, <2>4
<1>4. l.offset = Len(l.vals)
  BY <1>3
<1>5. Rem(z) = Rem(l) /\ Rem(l) = Len(l.rest)
  BY <1>1, <1>2, <1>3, <1>4 DEF Rem
<1>6. LocalOK(z, "scan")
  <2>1. ~o => s = <<>>
    BY <1>2, <1>3
  <2>2. QED BY <1>1, <1>2, <2>1 DEF LocalOK
<1>7. ASSUME z.vals # <<>> \/ z.rest # <<>> PROVE OfEntry(z)
  <2>1. l.rest # <<>>
    <3> SUFFICES ASSUME l.rest = <<>> PROVE FALSE
      OBVIOUS
    <3>1. Len(v) = 0 /\ Len(s) = 0
      BY <1>2, <1>3
    <3>2. v = <<>> /\ s = <<>>
      BY <1>2, <3>1
    <3>3. QED BY <1>1, <1>7, <3>2
  <2>2. OfEntry(l)
    BY <2>1 DEF BufferOK
  <2> DEFINE g == Gone(l)
             x == Size(l.from, l.at)
  <2>3. /\ l.from \in DOMAIN q.files /\ l.at \in Entries(l.from) /\ Covered(tasks, l.from, l.at)
        /\ PassesDatasetEntryFilters(l.from, l.at) /\ PassesPathPredicates(l.from, l.at)
        /\ g >= 0
        /\ \A i \in 1 .. Len(l.rest) : l.rest[i] = ValueAt(l.from, l.at, g + Len(l.vals) + i)
    BY <2>2 DEF OfEntry
  <2>4. x \in Nat /\ g = x - Len(l.vals) - Len(l.rest)
    BY <1>3, <2>3, EntryFacts DEF Gone
  <2>5. Gone(z) = x - Len(v) - Len(s)
    BY <1>1 DEF Gone
  <2> HIDE DEF g, x
  <2>6. g \in Int /\ Gone(z) = g + Len(l.vals) /\ Gone(z) >= 0
    <3>1. Gone(z) = x - n - (Len(l.rest) - n)
      BY <1>2, <2>5
    <3>2. x \in Nat /\ Len(l.vals) \in Nat /\ Len(l.rest) \in Nat /\ n \in Nat
      BY <1>3, <2>4
    <3>3. x - Len(l.vals) - Len(l.rest) >= 0
      BY <2>3, <2>4
    <3>4. /\ x - Len(l.vals) - Len(l.rest) \in Int
          /\ x - n - (Len(l.rest) - n) = x - Len(l.vals) - Len(l.rest) + Len(l.vals)
          /\ x - n - (Len(l.rest) - n) >= 0
      <4> DEFINE a == Len(l.vals)
                 t == Len(l.rest)
      <4>1. x \in Nat /\ a \in Nat /\ t \in Nat /\ n \in Nat /\ x - a - t >= 0
        BY ONLY <3>2, <3>3
      <4> HIDE DEF a, t
      <4>2. x - a - t \in Int /\ x - n - (t - n) = x - a - t + a /\ x - n - (t - n) >= 0
        BY ONLY <4>1
      <4>3. QED BY ONLY <4>2 DEF a, t
    <3>5. QED BY <2>4, <3>1, <3>4
  <2>7. ASSUME NEW i \in 1 .. Len(v) PROVE v[i] = ValueAt(l.from, l.at, Gone(z) + i)
    <3>1. i \in 1 .. Len(l.rest)
      BY <1>2, <1>3
    <3>2. QED BY <1>2, <2>3, <2>6, <3>1
  <2>8. ASSUME NEW i \in 1 .. Len(s) PROVE s[i] = ValueAt(l.from, l.at, Gone(z) + Len(v) + i)
    <3>1. n + i \in 1 .. Len(l.rest) /\ g + Len(l.vals) + (n + i) = g + Len(l.vals) + n + i
      <4>1. i \in 1 .. Len(l.rest) - n
        BY <1>2
      <4>2. Len(l.vals) \in Nat /\ Len(l.rest) \in Nat /\ n \in Nat /\ g \in Int
        BY <1>3, <2>6
      <4> DEFINE a == Len(l.vals)
                 t == Len(l.rest)
      <4>3. i \in 1 .. t - n /\ a \in Nat /\ t \in Nat /\ n \in Nat /\ g \in Int
        BY ONLY <4>1, <4>2
      <4> HIDE DEF a, t
      <4>4. n + i \in 1 .. t /\ g + a + (n + i) = g + a + n + i
        BY ONLY <4>3
      <4>5. QED BY ONLY <4>4 DEF a, t
    <3>2. s[i] = ValueAt(l.from, l.at, g + Len(l.vals) + (n + i))
      BY <1>2, <2>3, <3>1
    <3>3. QED BY <1>2, <2>6, <3>1, <3>2
  <2>9. QED BY <1>1, <2>3, <2>6, <2>7, <2>8 DEF OfEntry
<1>8. BufferOK(z, "scan")
  <2>1. /\ z.has /\ (Rem(z) > 0 \/ "scan" = "reserve") /\ z.entry > z.task.begin =>
              z.from = z.task.file /\ z.at = z.entry - 1
        /\ ~q.typed /\ (Rem(z) > 0 \/ "scan" = "reserve") => z.has /\ z.entry > z.task.begin
    BY <1>1, <1>5 DEF BufferOK
  <2>2. QED BY <1>7, <2>1 DEF BufferOK
<1>9. \A k : Owns(z, k) <=> Owns(l, k)
  BY <1>1 DEF Owns
<1>10. \A r : (Behind(z, r) <=> Behind(l, r)) /\ ~InHand(z, "scan", r) /\ ~InHand(l, "scan", r)
  BY <1>1, <1>5 DEF Behind, InHand
<1>11. \A k, r : Passed(l, "scan", k, r) => Passed(z, "scan", k, r)
  BY <1>1, <1>9, <1>10 DEF Passed
<1>12. \A k, r : Awaits(l, "scan", k, r) => Awaits(z, "scan", k, r)
  BY <1>1, <1>9, <1>10 DEF Awaits
<1>13. QED BY <1>6, <1>8, <1>9, <1>11, <1>12 DEF MovesOn, KeepsRow

LEMMA InsideSize ==
    ASSUME q \in Queries, NEW r \in AllRows
    PROVE  /\ r.entry \in Nat /\ r.idx \in Nat /\ Size(r.file, r.entry) \in Nat
           /\ r.idx <= Size(r.file, r.entry)
<1>1. /\ r.file \in DOMAIN q.files /\ r.entry \in Entries(r.file) /\ r.entry \in Nat
      /\ r.idx \in DOMAIN q.files[r.file].target[r.entry + 1] /\ r.idx \in Nat
  BY RowFacts
<1> DEFINE v == q.files[r.file].target[r.entry + 1]
<1>2. v \in Seq(Value)
  BY <1>1, FileFacts
<1>3. Size(r.file, r.entry) = Len(v)
  BY DEF Size
<1> HIDE DEF v
<1>4. DOMAIN v = 1 .. Len(v) /\ Len(v) \in Nat
  BY <1>2
<1>5. r.idx \in 1 .. Len(v)
  BY <1>1, <1>4 DEF v
<1>6. QED BY <1>1, <1>3, <1>4, <1>5

\* The entry moves on while the buffer is empty: rows before it stay behind.
LEMMA EntryMoves ==
    ASSUME PlanInv, NEW l, LocalOK(l, "scan"), l.has, Rem(l) = 0, NEW z, z.next = l.next, z.last = l.last,
           z.has = l.has, z.entry = l.entry + 1
    PROVE  /\ \A k : Owns(z, k) <=> Owns(l, k)
           /\ \A r \in AllRows : \A k : Passed(l, "scan", k, r) => Passed(z, "scan", k, r)
           /\ \A r \in AllRows : Behind(z, r) => Behind(l, r) \/ r.entry = l.entry
           /\ \A r \in AllRows : (\A k : Of(k, r) /\ k = l.next - 1 /\ Behind(z, r) => Behind(l, r)) =>
                 KeepsRow(l, "scan", z, "scan", r)
<1>1. l.entry \in Nat /\ q \in Queries
  BY DEF LocalOK, AnyLocal, PlanInv
<1>2. \A k : Owns(z, k) <=> Owns(l, k)
  BY DEF Owns
<1>3. \A r \in AllRows : /\ r.entry \in Nat /\ r.idx \in Nat /\ Size(r.file, r.entry) \in Nat
                          /\ r.idx <= Size(r.file, r.entry)
  BY <1>1, InsideSize
<1>4. ASSUME NEW r \in AllRows, Behind(l, r) PROVE Behind(z, r)
  <2>1. r.entry < l.entry
    BY <1>4 DEF Behind
  <2>2. r.entry < l.entry + 1 /\ r.entry # (l.entry + 1) - 1
    BY <1>1, <1>3, <2>1
  <2>3. QED BY <2>2 DEF Behind
<1>5. ASSUME NEW r \in AllRows, Behind(z, r), r.entry # l.entry PROVE Behind(l, r)
  <2>1. r.entry < l.entry + 1
    BY <1>5 DEF Behind
  <2>2. r.entry < l.entry
    BY <1>1, <1>3, <1>5, <2>1
  <2>3. r.idx <= Size(r.file, r.entry) - Rem(l)
    BY <1>3
  <2>4. QED BY <2>2, <2>3 DEF Behind
<1>6. \A r : ~InHand(l, "scan", r) /\ ~InHand(z, "scan", r)
  BY DEF InHand
<1>7. ASSUME NEW r \in AllRows, NEW k, Passed(l, "scan", k, r) PROVE Passed(z, "scan", k, r)
  BY <1>2, <1>4, <1>6, <1>7 DEF Passed
<1>8. ASSUME NEW r \in AllRows, \A k : Of(k, r) /\ k = l.next - 1 /\ Behind(z, r) => Behind(l, r)
      PROVE  KeepsRow(l, "scan", z, "scan", r)
  <2> SUFFICES ASSUME NEW k, Of(k, r), Awaits(l, "scan", k, r) PROVE Awaits(z, "scan", k, r)
    BY DEF KeepsRow
  <2>1. Owns(l, k) /\ (l.has /\ k = l.next - 1 => ~Behind(l, r))
    BY <1>6 DEF Awaits
  <2>2. z.has /\ k = z.next - 1 => ~Behind(z, r)
    BY <1>8, <2>1
  <2>3. QED BY <1>2, <2>1, <2>2 DEF Awaits
<1>9. QED BY <1>2, <1>5, <1>7, <1>8

\* The loop over the entries skips one.
Skipping(l) == [l EXCEPT !.entry = l.entry + 1]
Skipped(l, z) ==
    /\ z \in AnyLocal /\ z.next = l.next /\ z.last = l.last /\ z.has = l.has /\ z.task = l.task /\ z.out = l.out
    /\ z.entry = l.entry + 1 /\ z.vals = l.vals /\ z.offset = l.offset /\ z.at = l.at /\ z.from = l.from
    /\ (z.open <=> l.open) /\ z.rest = l.rest /\ z.seen = l.seen

LEMMA SkippedFacts ==
    ASSUME NEW l \in AnyLocal
    PROVE  Skipped(l, Skipping(l))
<1> DEFINE I == Seq(Item)
           K == AnyTask
           z == Skipping(l)
<1>1. l \in [next: Nat \ {0}, last: Nat, has: BOOLEAN, task: K, entry: Nat,
             vals: I, offset: Nat, at: Nat, from: Nat, open: BOOLEAN, rest: I, out: Nat, seen: Nat]
  BY DEF AnyLocal
<1> HIDE DEF I, K
<1>2. l.entry + 1 \in Nat
  BY <1>1
<1>3. /\ z \in [next: Nat \ {0}, last: Nat, has: BOOLEAN, task: K, entry: Nat,
             vals: I, offset: Nat, at: Nat, from: Nat, open: BOOLEAN, rest: I, out: Nat, seen: Nat]
      /\ z.next = l.next /\ z.last = l.last /\ z.has = l.has /\ z.task = l.task /\ z.out = l.out
      /\ z.entry = l.entry + 1 /\ z.vals = l.vals /\ z.offset = l.offset /\ z.at = l.at /\ z.from = l.from
      /\ z.open = l.open /\ z.rest = l.rest /\ z.seen = l.seen
  BY <1>1, <1>2 DEF Skipping
<1>4. QED BY <1>3 DEF AnyLocal, I, K, Skipped

LEMMA SkipEntryThread ==
    ASSUME PlanInv, NEW l, LocalOK(l, "scan"), BufferOK(l, "scan"), l.has, l.offset >= Len(l.vals), ~l.open,
           l.entry < l.task.end, NEW z, Skipped(l, z),
           ~ (PassesDatasetEntryFilters(l.task.file, l.entry) /\ PassesPathPredicates(l.task.file, l.entry))
    PROVE  /\ MovesOn(l, "scan", z, "scan")
           /\ Ordinary => \A r \in Matching : KeepsRow(l, "scan", z, "scan", r)
<1>1. /\ z \in AnyLocal /\ z.next = l.next /\ z.last = l.last /\ z.has = l.has /\ z.task = l.task /\ z.out = l.out
      /\ z.entry = l.entry + 1 /\ z.vals = l.vals /\ z.offset = l.offset /\ z.at = l.at /\ z.from = l.from
      /\ (z.open <=> l.open) /\ z.rest = l.rest
  BY DEF Skipped
<1>2. /\ l.vals \in Seq(Item) /\ l.rest = <<>> /\ l.offset \in Nat /\ l.offset <= Len(l.vals) /\ l.entry \in Nat
      /\ q \in Queries
  BY DEF LocalOK, AnyLocal, PlanInv
<1>3. Rem(l) = 0 /\ Rem(z) = 0
  BY <1>1, <1>2 DEF Rem
<1>4. LocalOK(z, "scan")
  <2>1. l.task.begin \in Nat /\ l.task.end \in Nat /\ l.task.begin <= l.entry
    BY HandFacts DEF LocalOK
  <2>2. l.task.begin <= l.entry + 1 /\ l.entry + 1 <= l.task.end
    BY <1>2, <2>1
  <2>3. QED BY <1>1, <2>2 DEF LocalOK
<1>5. BufferOK(z, "scan")
  <2>1. OfEntry(l) => OfEntry(z)
    BY <1>1 DEF OfEntry, Gone
  <2>2. QED BY <1>1, <1>3, <2>1 DEF BufferOK
<1>6. /\ \A k : Owns(z, k) <=> Owns(l, k)
      /\ \A r \in AllRows : \A k : Passed(l, "scan", k, r) => Passed(z, "scan", k, r)
      /\ \A r \in AllRows : Behind(z, r) => Behind(l, r) \/ r.entry = l.entry
      /\ \A r \in AllRows : (\A k : Of(k, r) /\ k = l.next - 1 /\ Behind(z, r) => Behind(l, r)) =>
            KeepsRow(l, "scan", z, "scan", r)
  BY <1>1, <1>3, EntryMoves
<1>7. ASSUME Ordinary, NEW r \in Matching PROVE KeepsRow(l, "scan", z, "scan", r)
  <2>1. r \in AllRows
    BY <1>2, MatchingFacts
  <2>2. PassesDatasetEntryFilters(r.file, r.entry) /\ PassesPathPredicates(r.file, r.entry)
    BY <1>2, <1>7, MatchingIsCandidate
  <2>3. ASSUME NEW k, Of(k, r), k = l.next - 1, Behind(z, r) PROVE Behind(l, r)
    <3>1. r.file = l.task.file
      BY <1>7, <2>3, HandFacts
    <3>2. QED BY <1>6, <2>1, <2>2, <2>3, <3>1
  <2>4. QED BY <1>6, <2>1, <2>3
<1>8. QED BY <1>4, <1>5, <1>6, <1>7 DEF MovesOn

\* BeginNumericEntry: the buffer and the cursor hold the values of the entry.
LEMMA BeginEntryThread ==
    ASSUME PlanInv, NEW l, LocalOK(l, "scan"), BufferOK(l, "scan"), l.has, l.offset >= Len(l.vals), ~l.open,
           l.entry < l.task.end,
           PassesDatasetEntryFilters(l.task.file, l.entry), PassesPathPredicates(l.task.file, l.entry),
           NEW n \in Nat, n <= Size(l.task.file, l.entry), NEW v, NEW s,
           Split(Flat(q.files[l.task.file].target, l.entry), n, v, s),
           NEW o \in BOOLEAN, ~o => n = Size(l.task.file, l.entry),
           NEW z, Loaded(l, l.entry + 1, l.task.file, l.entry, v, s, o, z)
    PROVE  /\ MovesOn(l, "scan", z, "scan")
           /\ \A r \in AllRows : KeepsRow(l, "scan", z, "scan", r)
<1> DEFINE f == l.task.file
           e == l.entry
           x == Size(f, e)
           V == Flat(q.files[f].target, e)
<1>1. /\ z \in AnyLocal /\ z.next = l.next /\ z.last = l.last /\ z.has = l.has /\ z.task = l.task /\ z.out = l.out
      /\ z.entry = e + 1 /\ z.vals = v /\ z.offset = 0 /\ z.at = e /\ z.from = f
      /\ (z.open <=> o) /\ z.rest = s
  BY DEF Loaded
<1>2. /\ l.vals \in Seq(Item) /\ l.rest = <<>> /\ l.offset \in Nat /\ l.offset <= Len(l.vals) /\ e \in Nat
      /\ q \in Queries
  BY DEF LocalOK, AnyLocal, PlanInv
<1>3. Rem(l) = 0
  BY <1>2 DEF Rem
<1>4. /\ l.task.begin \in Nat /\ l.task.end \in Nat /\ l.task.begin <= e /\ f \in DOMAIN q.files
  BY HandFacts DEF LocalOK
<1>5. e \in Inside(l.task)
  BY <1>2, <1>4 DEF Inside
<1>6. e \in Entries(f) /\ Covered(tasks, f, e)
  BY <1>5, HandFacts
<1>7. /\ x \in Nat /\ Len(V) = x /\ V \in Seq(Item) /\ \A i \in 1 .. x : V[i] = ValueAt(f, e, i)
  BY <1>2, <1>4, <1>6, EntryFacts
<1>8. /\ v \in Seq(Item) /\ s \in Seq(Item) /\ Len(v) = n /\ Len(s) = x - n
      /\ \A i \in 1 .. Len(v) : v[i] = V[i]
      /\ \A i \in 1 .. Len(s) : s[i] = V[n + i]
  BY <1>7 DEF Split
<1> HIDE DEF f, e, x, V
<1>9. LocalOK(z, "scan")
  <2>1. ~o => s = <<>>
    <3> SUFFICES ASSUME ~o PROVE s = <<>>
      OBVIOUS
    <3>1. Len(s) = 0
      BY <1>7, <1>8 DEF x, f, e
    <3>2. QED BY <1>8, <3>1
  <2>2. l.task.begin <= e + 1 /\ e + 1 <= l.task.end
    BY <1>2, <1>4 DEF e
  <2>3. QED BY <1>1, <1>8, <2>1, <2>2 DEF LocalOK
<1>10. Gone(z) = 0
  <2>1. Gone(z) = x - n - (x - n)
    BY <1>1, <1>8 DEF Gone, x
  <2>2. QED BY <1>7, <2>1
<1>11. OfEntry(z)
  <2>1. ASSUME NEW i \in 1 .. Len(v) PROVE v[i] = ValueAt(f, e, 0 + i)
    <3>1. i \in 1 .. x /\ 0 + i = i
      BY <1>7, <1>8 DEF x, f, e
    <3>2. QED BY <1>7, <1>8, <3>1
  <2>2. ASSUME NEW i \in 1 .. Len(s) PROVE s[i] = ValueAt(f, e, 0 + Len(v) + i)
    <3>1. i \in 1 .. x - n
      BY <1>8
    <3>2. n + i \in 1 .. x /\ 0 + n + i = n + i
      BY <1>7, <3>1
    <3>3. QED BY <1>7, <1>8, <3>2
  <2>3. PassesDatasetEntryFilters(f, e) /\ PassesPathPredicates(f, e)
    BY DEF f, e
  <2>4. QED BY <1>1, <1>4, <1>6, <1>10, <2>1, <2>2, <2>3 DEF OfEntry
<1>12. BufferOK(z, "scan")
  <2>1. z.entry - 1 = e /\ z.entry > z.task.begin
    BY <1>1, <1>2, <1>4
  <2>2. z.has /\ z.from = z.task.file /\ z.at = z.entry - 1
    BY <1>1, <2>1 DEF f
  <2>3. QED BY <1>11, <2>1, <2>2 DEF BufferOK
<1>13. /\ \A k : Owns(z, k) <=> Owns(l, k)
       /\ \A r \in AllRows : \A k : Passed(l, "scan", k, r) => Passed(z, "scan", k, r)
       /\ \A r \in AllRows : Behind(z, r) => Behind(l, r) \/ r.entry = l.entry
       /\ \A r \in AllRows : (\A k : Of(k, r) /\ k = l.next - 1 /\ Behind(z, r) => Behind(l, r)) =>
             KeepsRow(l, "scan", z, "scan", r)
  BY <1>1, <1>3, EntryMoves DEF e
<1>14. Rem(z) = x
  <2>1. Rem(z) = n - 0 + (x - n)
    BY <1>1, <1>8 DEF Rem
  <2>2. QED BY <1>7, <2>1
<1>15. ASSUME NEW r \in AllRows, NEW k, Of(k, r), k = l.next - 1, Behind(z, r) PROVE Behind(l, r)
  <2> SUFFICES ASSUME r.entry = e PROVE FALSE
    BY <1>13, <1>15 DEF e
  <2>1. r.file = f
    BY <1>15, HandFacts DEF Of, Holding, f
  <2>2. r.idx <= x - x
    <3>1. z.entry - 1 = e
      BY <1>1, <1>2
    <3>2. r.idx <= Size(r.file, r.entry) - Rem(z)
      BY <1>15, <3>1 DEF Behind
    <3>3. QED BY <1>14, <2>1, <3>2 DEF x
  <2>3. r.idx \in Nat \ {0}
    BY <1>2, RowFacts
  <2>4. QED BY <1>7, <2>2, <2>3
<1>16. \A r \in AllRows : KeepsRow(l, "scan", z, "scan", r)
  BY <1>13, <1>15
<1>17. QED BY <1>9, <1>12, <1>13, <1>16 DEF MovesOn

\* LoadNextEntry returns false: the task is over.
Ending(l) == [l EXCEPT !.has = FALSE]
Ended(l, z) ==
    /\ z \in AnyLocal /\ z.next = l.next /\ z.last = l.last /\ z.has = FALSE /\ z.task = l.task /\ z.out = l.out
    /\ z.entry = l.entry /\ z.vals = l.vals /\ z.offset = l.offset /\ z.at = l.at /\ z.from = l.from
    /\ (z.open <=> l.open) /\ z.rest = l.rest /\ z.seen = l.seen

LEMMA EndedFacts ==
    ASSUME NEW l \in AnyLocal
    PROVE  Ended(l, Ending(l))
<1> DEFINE I == Seq(Item)
           K == AnyTask
           z == Ending(l)
<1>1. l \in [next: Nat \ {0}, last: Nat, has: BOOLEAN, task: K, entry: Nat,
             vals: I, offset: Nat, at: Nat, from: Nat, open: BOOLEAN, rest: I, out: Nat, seen: Nat]
  BY DEF AnyLocal
<1> HIDE DEF I, K
<1>2. /\ z \in [next: Nat \ {0}, last: Nat, has: BOOLEAN, task: K, entry: Nat,
             vals: I, offset: Nat, at: Nat, from: Nat, open: BOOLEAN, rest: I, out: Nat, seen: Nat]
      /\ z.next = l.next /\ z.last = l.last /\ z.has = FALSE /\ z.task = l.task /\ z.out = l.out
      /\ z.entry = l.entry /\ z.vals = l.vals /\ z.offset = l.offset /\ z.at = l.at /\ z.from = l.from
      /\ z.open = l.open /\ z.rest = l.rest /\ z.seen = l.seen
  BY <1>1 DEF Ending
<1>3. QED BY <1>2 DEF AnyLocal, I, K, Ended

LEMMA EndTaskThread ==
    ASSUME PlanInv, NEW l, LocalOK(l, "scan"), BufferOK(l, "scan"), l.has, l.offset >= Len(l.vals), ~l.open,
           l.entry = l.task.end, NEW z, Ended(l, z)
    PROVE  /\ MovesOn(l, "scan", z, "scan")
           /\ Ordinary => \A r \in Matching : KeepsRow(l, "scan", z, "scan", r)
<1>1. /\ z \in AnyLocal /\ z.next = l.next /\ z.last = l.last /\ z.has = FALSE /\ z.task = l.task /\ z.out = l.out
      /\ z.entry = l.entry /\ z.vals = l.vals /\ z.offset = l.offset /\ z.at = l.at /\ z.from = l.from
      /\ (z.open <=> l.open) /\ z.rest = l.rest
  BY DEF Ended
<1>2. /\ l.vals \in Seq(Item) /\ l.rest = <<>> /\ l.offset \in Nat /\ l.offset <= Len(l.vals) /\ l.entry \in Nat
      /\ q \in Queries /\ l.next \in Nat /\ l.last \in Nat
  BY DEF LocalOK, AnyLocal, PlanInv
<1>3. Rem(l) = 0 /\ Rem(z) = 0
  BY <1>1, <1>2 DEF Rem
<1>4. LocalOK(z, "scan")
  BY <1>1 DEF LocalOK
<1>5. BufferOK(z, "scan")
  <2>1. OfEntry(l) => OfEntry(z)
    BY <1>1 DEF OfEntry, Gone
  <2>2. QED BY <1>1, <1>3, <2>1 DEF BufferOK
<1>6. \A k : Owns(z, k) <=> l.next <= k /\ k <= l.last
  BY <1>1 DEF Owns
<1>7. \A k : Owns(l, k) <=> k = l.next - 1 \/ Owns(z, k)
  BY <1>6 DEF Owns
<1>8. \A r : ~InHand(l, "scan", r) /\ ~InHand(z, "scan", r)
  BY DEF InHand
<1>9. ASSUME NEW k, Owns(z, k), k = l.next - 1 PROVE FALSE
  BY <1>2, <1>6, <1>9
<1>10. \A k, r : Passed(l, "scan", k, r) => Passed(z, "scan", k, r)
  BY <1>7, <1>9 DEF Passed
<1>11. ASSUME Ordinary, NEW r \in Matching PROVE KeepsRow(l, "scan", z, "scan", r)
  <2> SUFFICES ASSUME NEW k, Of(k, r), Awaits(l, "scan", k, r) PROVE Awaits(z, "scan", k, r)
    BY DEF KeepsRow
  <2>1. Owns(l, k) /\ (k = l.next - 1 => ~Behind(l, r))
    BY <1>8 DEF Awaits
  <2>2. CASE k = l.next - 1
    <3>1. r \in AllRows
      BY <1>2, MatchingFacts
    <3>2. r.file = l.task.file /\ r.entry \in Inside(l.task)
      BY <1>11, <2>2, HandFacts
    <3>3. l.task.begin \in Nat
      BY HandFacts
    <3>4. r.entry < l.entry
      BY <1>2, <3>2, <3>3 DEF Inside
    <3>5. r.idx <= Size(r.file, r.entry) - Rem(l)
      BY <1>2, <1>3, <3>1, InsideSize
    <3>6. QED BY <2>1, <2>2, <3>4, <3>5 DEF Behind
  <2>3. CASE k # l.next - 1
    BY <1>1, <1>7, <2>1, <2>3 DEF Awaits
  <2>4. QED BY <2>2, <2>3
<1>12. QED BY <1>4, <1>5, <1>7, <1>10, <1>11 DEF MovesOn

\* The next value of the buffer is dropped, or in hand to be granted.
Taking1(l, s) == [l EXCEPT !.offset = l.offset + 1, !.seen = s]
TookValue(l, z) ==
    /\ z \in AnyLocal /\ z.next = l.next /\ z.last = l.last /\ z.has = l.has /\ z.task = l.task /\ z.out = l.out
    /\ z.entry = l.entry /\ z.vals = l.vals /\ z.offset = l.offset + 1 /\ z.at = l.at /\ z.from = l.from
    /\ (z.open <=> l.open) /\ z.rest = l.rest

LEMMA TookValueFacts ==
    ASSUME NEW l \in AnyLocal, NEW s \in Nat
    PROVE  TookValue(l, Taking1(l, s)) /\ Taking1(l, s).seen = s
<1> DEFINE I == Seq(Item)
           K == AnyTask
           z == Taking1(l, s)
<1>1. l \in [next: Nat \ {0}, last: Nat, has: BOOLEAN, task: K, entry: Nat,
             vals: I, offset: Nat, at: Nat, from: Nat, open: BOOLEAN, rest: I, out: Nat, seen: Nat]
  BY DEF AnyLocal
<1> HIDE DEF I, K
<1>2. l.offset + 1 \in Nat
  BY <1>1
<1>3. /\ z \in [next: Nat \ {0}, last: Nat, has: BOOLEAN, task: K, entry: Nat,
             vals: I, offset: Nat, at: Nat, from: Nat, open: BOOLEAN, rest: I, out: Nat, seen: Nat]
      /\ z.next = l.next /\ z.last = l.last /\ z.has = l.has /\ z.task = l.task /\ z.out = l.out
      /\ z.entry = l.entry /\ z.vals = l.vals /\ z.offset = l.offset + 1 /\ z.at = l.at /\ z.from = l.from
      /\ z.open = l.open /\ z.rest = l.rest /\ z.seen = s
  BY <1>1, <1>2 DEF Taking1
<1>4. QED BY <1>3 DEF AnyLocal, I, K, TookValue

\* The value before the offset is that of a row of the entry.
LEMMA RowAtFacts ==
    ASSUME PlanInv, NEW l \in AnyLocal, OfEntry(l), l.offset >= 1, l.offset <= Len(l.vals)
    PROVE  /\ RowAt(l) \in AllRows /\ RowAt(l).file = l.from /\ RowAt(l).entry = l.at
           /\ RowAt(l).idx = Size(l.from, l.at) - Rem(l) /\ RowAt(l).value = l.vals[l.offset].value
           /\ \A r \in AllRows : /\ r.file = l.from /\ r.entry = l.at /\ r.idx = Size(l.from, l.at) - Rem(l)
                                 => r = RowAt(l)
<1> DEFINE f == l.from
           e == l.at
           x == Size(f, e)
           v == q.files[f].target[e + 1]
           i == x - Rem(l)
           a == Len(l.vals)
           b == Len(l.rest)
           o == l.offset
<1>1. q \in Queries /\ f \in DOMAIN q.files /\ e \in Entries(f) /\ x - a - b >= 0
      /\ \A j \in 1 .. a : l.vals[j] = ValueAt(f, e, Gone(l) + j)
  BY DEF PlanInv, OfEntry, Gone
<1>2. /\ x \in Nat /\ a \in Nat /\ b \in Nat /\ o \in Nat /\ o >= 1 /\ o <= a
      /\ v \in Seq(Value) /\ x = Len(v) /\ Gone(l) = x - a - b /\ Rem(l) = a - o + b
  <2>1. x \in Nat
    BY <1>1, EntryFacts
  <2>2. v \in Seq(Value)
    BY <1>1, FileFacts
  <2>3. a \in Nat /\ b \in Nat /\ o \in Nat
    BY DEF AnyLocal
  <2>4. x = Len(v) /\ Gone(l) = x - a - b /\ Rem(l) = a - o + b
    BY DEF Size, Gone, Rem
  <2>5. QED BY <2>1, <2>2, <2>3, <2>4
<1>3. i = x - Rem(l)
  OBVIOUS
<1>4. RowAt(l) = [file |-> f, entry |-> e, idx |-> l.vals[o].idx, value |-> l.vals[o].value]
  BY DEF RowAt
<1>5. x = Size(f, e)
  OBVIOUS
<1>6. ValueAt(f, e, i) = [idx |-> i, value |-> v[i]]
  BY DEF ValueAt
<1>7. RowsOf(f, e) = {[file |-> f, entry |-> e, idx |-> j, value |-> v[j]] : j \in DOMAIN v}
  BY DEF RowsOf
<1>8. v = q.files[f].target[e + 1]
  OBVIOUS
<1> HIDE DEF f, e, x, v, i, a, b, o
<1>9. Gone(l) + o = i /\ i \in 1 .. x
  BY <1>1, <1>2, <1>3
<1>10. DOMAIN v = 1 .. x
  BY <1>2
<1>11. l.vals[o] = ValueAt(f, e, i)
  <2>1. o \in 1 .. a
    BY <1>2
  <2>2. l.vals[o] = ValueAt(f, e, Gone(l) + o)
    BY <1>1, <2>1
  <2>3. QED BY <1>9, <2>2
<1>12. RowAt(l) = [file |-> f, entry |-> e, idx |-> i, value |-> v[i]]
  BY <1>4, <1>6, <1>11
<1>13. RowAt(l) \in AllRows
  <2>1. RowAt(l) \in RowsOf(f, e)
    BY <1>7, <1>9, <1>10, <1>12
  <2>2. QED BY <1>1, <2>1 DEF AllRows
<1>14. ASSUME NEW r \in AllRows, r.file = f, r.entry = e, r.idx = i PROVE r = RowAt(l)
  <2>1. r.value = v[i] /\ r = [file |-> r.file, entry |-> r.entry, idx |-> r.idx, value |-> r.value]
    BY <1>1, <1>8, <1>14, RowFacts
  <2>2. QED BY <1>12, <1>14, <2>1
<1>15. QED BY <1>3, <1>5, <1>12, <1>13, <1>14, <1>4 DEF f, e, o

\* Scan takes the next value of the buffer.  The row is in hand if it is to be
\* granted.
LEMMA TakeValueThread ==
    ASSUME PlanInv, NEW l, LocalOK(l, "scan"), BufferOK(l, "scan"), l.has, l.offset < Len(l.vals),
           l.out < VectorSize, NEW z, TookValue(l, z), NEW p2, p2 \in {"scan", "return", "reserve"}
    PROVE  /\ MovesOn(l, "scan", z, p2)
           /\ RowAt(z) \in AllRows /\ RowAt(z).value = l.vals[l.offset + 1].value
           /\ \A r : /\ Ordinary /\ r \in Matching /\ p2 # "return"
                     /\ p2 = "scan" => ~Passes(q.value, l.vals[l.offset + 1].value)
                     => KeepsRow(l, "scan", z, p2, r)
<1>1. /\ z \in AnyLocal /\ z.next = l.next /\ z.last = l.last /\ z.has = l.has /\ z.task = l.task /\ z.out = l.out
      /\ z.entry = l.entry /\ z.vals = l.vals /\ z.offset = l.offset + 1 /\ z.at = l.at /\ z.from = l.from
      /\ (z.open <=> l.open) /\ z.rest = l.rest
  BY DEF TookValue
<1>2. /\ l.vals \in Seq(Item) /\ l.rest \in Seq(Item) /\ l.offset \in Nat /\ l.entry \in Nat /\ q \in Queries
      /\ Len(l.vals) \in Nat /\ Len(l.rest) \in Nat /\ l.offset < Len(l.vals)
  BY DEF LocalOK, AnyLocal, PlanInv
<1>3. Rem(z) = Rem(l) - 1 /\ Rem(l) > 0 /\ Rem(l) \in Nat
  <2> DEFINE a == Len(l.vals)
             t == Len(l.rest)
             o == l.offset
             before == Rem(l)
             after == Rem(z)
  <2>1. after = a - (o + 1) + t /\ before = a - o + t
    BY ONLY <1>1 DEF Rem
  <2>2. a \in Nat /\ t \in Nat /\ o \in Nat /\ o < a
    BY ONLY <1>2
  <2> HIDE DEF a, t, o, before, after
  <2>3. after = before - 1 /\ before > 0 /\ before \in Nat
    BY ONLY <2>1, <2>2
  <2>4. QED BY ONLY <2>3 DEF before, after
<1>4. z.offset >= 1 /\ z.offset <= Len(z.vals)
  BY <1>1, <1>2
<1>5. LocalOK(z, p2)
  BY <1>1, <1>4 DEF LocalOK
<1>6. OfEntry(l)
  <2>1. l.vals # <<>>
    BY <1>2
  <2>2. QED BY <2>1 DEF BufferOK
<1>7. OfEntry(z)
  BY <1>1, <1>6 DEF OfEntry, Gone
<1>8. /\ l.entry > l.task.begin => l.from = l.task.file /\ l.at = l.entry - 1
      /\ ~q.typed => l.entry > l.task.begin
  BY <1>3 DEF BufferOK
<1>9. BufferOK(z, p2)
  BY <1>1, <1>7, <1>8 DEF BufferOK
<1>10. /\ RowAt(z) \in AllRows /\ RowAt(z).file = l.from /\ RowAt(z).entry = l.at
       /\ RowAt(z).idx = Size(l.from, l.at) - Rem(z) /\ RowAt(z).value = l.vals[l.offset + 1].value
       /\ \A r \in AllRows : /\ r.file = l.from /\ r.entry = l.at /\ r.idx = Size(l.from, l.at) - Rem(z)
                             => r = RowAt(z)
  BY <1>1, <1>4, <1>7, RowAtFacts
<1>11. \A k : Owns(z, k) <=> Owns(l, k)
  BY <1>1 DEF Owns
<1>12. \A r \in AllRows : r.idx \in Nat /\ r.entry \in Nat /\ Size(r.file, r.entry) \in Nat
  BY <1>2, InsideSize
<1>13. ASSUME NEW r \in AllRows, Behind(l, r) PROVE Behind(z, r)
  BY <1>1, <1>3, <1>12, <1>13 DEF Behind
<1>14. ASSUME ~q.typed, NEW r \in AllRows, Behind(l, r), InHand(z, p2, r) PROVE FALSE
  <2>1. r.file = l.from /\ r.entry = l.entry - 1 /\ r.idx = Size(r.file, r.entry) - Rem(z)
    BY <1>8, <1>10, <1>14 DEF InHand
  <2>2. r.idx <= Size(r.file, r.entry) - Rem(l)
    BY <1>14, <2>1 DEF Behind
  <2>3. r.idx \in Nat /\ Size(r.file, r.entry) \in Nat
    BY <1>12
  <2>4. QED BY <1>3, <2>1, <2>2, <2>3
<1>15. ASSUME ~q.typed, NEW r \in AllRows, NEW k, Passed(l, "scan", k, r) PROVE Passed(z, p2, k, r)
  BY <1>1, <1>11, <1>13, <1>14, <1>15 DEF Passed
<1>16. ASSUME Ordinary, NEW r \in Matching, p2 # "return",
              p2 = "scan" => ~Passes(q.value, l.vals[l.offset + 1].value)
       PROVE  KeepsRow(l, "scan", z, p2, r)
  <2> SUFFICES ASSUME NEW k, Of(k, r), Awaits(l, "scan", k, r) PROVE Awaits(z, p2, k, r)
    BY DEF KeepsRow
  <2>1. Owns(l, k) /\ (l.has /\ k = l.next - 1 => ~Behind(l, r))
    BY DEF Awaits, InHand
  <2> SUFFICES ASSUME k = l.next - 1, Behind(z, r) PROVE InHand(z, p2, r)
    BY <1>1, <1>11, <2>1 DEF Awaits
  <2>2. r \in AllRows /\ Passes(q.value, r.value)
    BY <1>2, <1>16, MatchingFacts, MatchingIsCandidate
  <2>3. r.file = l.task.file /\ r.entry \in Inside(l.task) /\ l.task.begin \in Nat /\ l.task.end \in Nat
    BY <1>16, HandFacts
  <2>4. r.entry < l.entry /\ (r.entry = l.entry - 1 => r.idx <= Size(r.file, r.entry) - Rem(z))
    BY <1>1 DEF Behind
  <2>5. r.entry = l.entry - 1 /\ ~ (r.idx <= Size(r.file, r.entry) - Rem(l))
    BY <2>1, <2>4 DEF Behind
  <2>6. l.entry > l.task.begin
    BY <1>2, <2>3, <2>5 DEF Inside
  <2>7. r.file = l.from /\ r.entry = l.at
    BY <1>8, <2>3, <2>5, <2>6
  <2>8. r.idx = Size(l.from, l.at) - Rem(z)
    <3>1. r.idx \in Nat /\ Size(r.file, r.entry) \in Nat
      BY <1>12, <2>2
    <3>2. QED BY <1>3, <2>4, <2>5, <2>7, <3>1
  <2>9. r = RowAt(z)
    BY <1>10, <2>2, <2>7, <2>8
  <2>10. p2 = "reserve"
    BY <1>10, <1>16, <2>2, <2>9
  <2>11. QED BY <2>9, <2>10 DEF InHand
<1>17. QED BY <1>5, <1>9, <1>10, <1>11, <1>15, <1>16 DEF MovesOn

\* ClaimTask: another group.
Grouping(l, a, b) == [l EXCEPT !.next = a, !.last = b]
LEMMA ClaimGroupThread ==
    ASSUME PlanInv, NEW l, LocalOK(l, "scan"), BufferOK(l, "scan"), ~l.has, l.next > l.last, ~q.count,
           NEW a \in 1 .. Len(tasks), NEW b \in 1 .. Len(tasks), a <= b
    PROVE  /\ LocalOK(Grouping(l, a, b), "scan") /\ BufferOK(Grouping(l, a, b), "scan")
           /\ \A k \in DOMAIN tasks : ~Owns(l, k)
           /\ \A k : Owns(Grouping(l, a, b), k) <=> a <= k /\ k <= b
           /\ ~Grouping(l, a, b).has /\ Grouping(l, a, b).seen = l.seen
<1> DEFINE I == Seq(Item)
           K == AnyTask
           m == Len(tasks)
           z == Grouping(l, a, b)
<1>1. /\ l \in [next: Nat \ {0}, last: Nat, has: BOOLEAN, task: K, entry: Nat,
             vals: I, offset: Nat, at: Nat, from: Nat, open: BOOLEAN, rest: I, out: Nat, seen: Nat]
      /\ a \in 1 .. m /\ b \in 1 .. m
  BY DEF LocalOK, AnyLocal
<1>2. tasks \in Seq(AnyTask)
  BY DEF PlanInv, IsPlan, Disjoint
<1>3. DOMAIN tasks = 1 .. m /\ m \in Nat
  BY <1>2
<1> HIDE DEF I, K, m
<1>4. /\ z \in [next: Nat \ {0}, last: Nat, has: BOOLEAN, task: K, entry: Nat,
             vals: I, offset: Nat, at: Nat, from: Nat, open: BOOLEAN, rest: I, out: Nat, seen: Nat]
      /\ z.next = a /\ z.last = b /\ z.has = l.has /\ z.task = l.task /\ z.out = l.out
      /\ z.entry = l.entry /\ z.vals = l.vals /\ z.offset = l.offset /\ z.at = l.at /\ z.from = l.from
      /\ z.open = l.open /\ z.rest = l.rest /\ z.seen = l.seen
  <2>1. a \in Nat \ {0} /\ b \in Nat
    BY <1>1, <1>3
  <2>2. QED BY <1>1, <2>1 DEF Grouping
<1>5. z \in AnyLocal
  BY <1>4 DEF AnyLocal, I, K
<1>6. b <= Len(tasks)
  BY <1>1, <1>3 DEF m
<1>7. LocalOK(z, "scan")
  BY <1>4, <1>5, <1>6 DEF LocalOK
<1>8. BufferOK(z, "scan")
  <2>1. OfEntry(l) => OfEntry(z)
    BY <1>4 DEF OfEntry, Gone
  <2>2. QED BY <1>4, <2>1 DEF BufferOK, Rem
<1>9. ASSUME NEW k \in DOMAIN tasks, Owns(l, k) PROVE FALSE
  <2>1. l.next <= k /\ k <= l.last /\ k \in Int /\ l.next \in Int /\ l.last \in Int
    BY <1>1, <1>3, <1>9 DEF Owns
  <2>2. QED BY <2>1
<1>10. \A k : Owns(z, k) <=> a <= k /\ k <= b
  BY <1>4 DEF Owns
<1>11. QED BY <1>4, <1>7, <1>8, <1>9, <1>10

-----------------------------------------------------------------------------
(***************************************************************************)
(* All threads.                                                            *)
(***************************************************************************)

\* No thread has claimed the group with task k.
Unclaimed(g, k) == \E j \in DOMAIN groups : j >= g /\ InGroup(groups[j], k)

ThreadsOK(P, L) == \A w \in Workers : LocalOK(L[w], P[w]) /\ BufferOK(L[w], P[w])

\* A task is in the hands of one thread, or of no one yet.
OwnerOK(L, g) ==
    /\ \A w \in Workers : \A k \in DOMAIN tasks : Owns(L[w], k) => ~Unclaimed(g, k)
    /\ \A w, x \in Workers : \A k \in DOMAIN tasks : Owns(L[w], k) /\ Owns(L[x], k) => w = x

\* A row that was returned has been passed by the thread with its task.
OnceOK(P, L, R, g) ==
    ~q.typed => \A r \in AllRows :
        /\ R[r] <= 1
        /\ R[r] = 1 => \A k : Of(k, r) => ~Unclaimed(g, k) /\ \A w \in Workers : Passed(L[w], P[w], k, r)

\* A row that matches is still to be read, unless it was returned or the limit is
\* reached.
Awaited(P, L, g, k, r) == Unclaimed(g, k) \/ \E w \in Workers : Awaits(L[w], P[w], k, r)
CompleteOK(P, L, R, m, g) ==
    Ordinary /\ ~q.count => \A r \in Matching : \A k : Of(k, r) =>
        R[r] >= 1 \/ m >= q.limit \/ Awaited(P, L, g, k, r)

\* The function F becomes F2, which is z at w.
Only(F, F2, w, z) == F2[w] = z /\ \A x \in Workers \ {w} : F2[x] = F[x]

\* A step of thread w that takes no task and returns no row.
LEMMA ThreadMoves ==
    ASSUME NEW P, NEW L, NEW R, NEW m, NEW g, NEW P2, NEW L2, NEW w \in Workers, NEW p2, NEW l2,
           Only(P, P2, w, p2), Only(L, L2, w, l2), ThreadsOK(P, L), OwnerOK(L, g),
           MovesOn(L[w], P[w], l2, p2)
    PROVE  /\ ThreadsOK(P2, L2) /\ OwnerOK(L2, g)
           /\ OnceOK(P, L, R, g) => OnceOK(P2, L2, R, g)
           /\ \A r : KeepsRow(L[w], P[w], l2, p2, r) =>
                 \A k : Of(k, r) /\ Awaited(P, L, g, k, r) => Awaited(P2, L2, g, k, r)
<1>1. /\ P2[w] = p2 /\ L2[w] = l2
      /\ \A x \in Workers : x # w => P2[x] = P[x] /\ L2[x] = L[x]
  BY DEF Only
<1>2. /\ LocalOK(l2, p2) /\ BufferOK(l2, p2)
      /\ \A k \in DOMAIN tasks : Owns(l2, k) => Owns(L[w], k)
      /\ ~q.typed => \A r \in AllRows : \A k : Of(k, r) /\ Passed(L[w], P[w], k, r) => Passed(l2, p2, k, r)
  BY DEF MovesOn
<1>3. ThreadsOK(P2, L2)
  <2> SUFFICES ASSUME NEW x \in Workers PROVE LocalOK(L2[x], P2[x]) /\ BufferOK(L2[x], P2[x])
    BY DEF ThreadsOK
  <2>1. CASE x = w
    BY <1>1, <1>2, <2>1
  <2>2. CASE x # w
    BY <1>1, <2>2 DEF ThreadsOK
  <2>3. QED BY <2>1, <2>2
<1>4. ASSUME NEW x \in Workers, NEW k \in DOMAIN tasks, Owns(L2[x], k) PROVE Owns(L[x], k)
  <2>1. CASE x = w
    BY <1>1, <1>2, <1>4, <2>1
  <2>2. CASE x # w
    BY <1>1, <1>4, <2>2
  <2>3. QED BY <2>1, <2>2
<1>5. OwnerOK(L2, g)
  BY <1>4 DEF OwnerOK
<1>6. ASSUME OnceOK(P, L, R, g) PROVE OnceOK(P2, L2, R, g)
  <2> SUFFICES ASSUME ~q.typed, NEW r \in AllRows, R[r] = 1, NEW k, Of(k, r), NEW x \in Workers
               PROVE  Passed(L2[x], P2[x], k, r)
    BY <1>6 DEF OnceOK
  <2>1. Passed(L[x], P[x], k, r)
    BY <1>6 DEF OnceOK
  <2>2. CASE x = w
    BY <1>1, <1>2, <2>1, <2>2
  <2>3. CASE x # w
    BY <1>1, <2>1, <2>3
  <2>4. QED BY <2>2, <2>3
<1>7. ASSUME NEW r, KeepsRow(L[w], P[w], l2, p2, r), NEW k, Of(k, r), Awaited(P, L, g, k, r)
      PROVE  Awaited(P2, L2, g, k, r)
  <2>1. CASE Unclaimed(g, k)
    BY <2>1 DEF Awaited
  <2>2. ASSUME NEW x \in Workers, Awaits(L[x], P[x], k, r) PROVE Awaits(L2[x], P2[x], k, r)
    <3>1. CASE x = w
      BY <1>1, <1>7, <2>2, <3>1 DEF KeepsRow
    <3>2. CASE x # w
      BY <1>1, <2>2, <3>2
    <3>3. QED BY <3>1, <3>2
  <2>3. QED BY <1>7, <2>1, <2>2 DEF Awaited
<1>8. QED BY <1>3, <1>5, <1>6, <1>7

\* The row a thread holds, where 64-bit values do not keep an old buffer: of the
\* task it reads, and behind it but for being in hand.
LEMMA InHandFacts ==
    ASSUME PlanInv, NEW l, LocalOK(l, "reserve"), BufferOK(l, "reserve")
    PROVE  /\ RowAt(l) \in AllRows
           /\ ~q.typed => /\ l.has /\ Owns(l, l.next - 1) /\ Of(l.next - 1, RowAt(l)) /\ Behind(l, RowAt(l))
                          /\ \A k : Of(k, RowAt(l)) => k = l.next - 1
<1>1. /\ l \in AnyLocal /\ l.has /\ l.offset >= 1 /\ l.offset <= Len(l.vals) /\ q \in Queries /\ l.entry \in Nat
      /\ l.entry <= l.task.end
  BY DEF LocalOK, AnyLocal, PlanInv
<1>2. OfEntry(l)
  <2>1. l.vals # <<>>
    <3> SUFFICES ASSUME l.vals = <<>> PROVE FALSE
      OBVIOUS
    <3>1. Len(l.vals) = 0 /\ l.offset \in Nat
      BY <1>1 DEF AnyLocal
    <3>2. QED BY <1>1, <3>1
  <2>2. QED BY <2>1 DEF BufferOK
<1>3. /\ RowAt(l) \in AllRows /\ RowAt(l).file = l.from /\ RowAt(l).entry = l.at
      /\ RowAt(l).idx = Size(l.from, l.at) - Rem(l)
  BY <1>1, <1>2, RowAtFacts
<1>4. ASSUME ~q.typed
      PROVE  /\ Owns(l, l.next - 1) /\ Of(l.next - 1, RowAt(l)) /\ Behind(l, RowAt(l))
             /\ \A k : Of(k, RowAt(l)) => k = l.next - 1
  <2>1. l.entry > l.task.begin /\ l.from = l.task.file /\ l.at = l.entry - 1
    BY <1>1, <1>4 DEF BufferOK
  <2>2. /\ l.next - 1 \in DOMAIN tasks /\ Owns(l, l.next - 1) /\ l.task.file = tasks[l.next - 1].file
        /\ l.task.begin \in Nat /\ l.task.end \in Nat
        /\ \A e : e \in Inside(l.task) => e \in Inside(tasks[l.next - 1])
    BY <1>1, HandFacts
  <2>3. l.at \in Inside(l.task)
    BY <1>1, <2>1, <2>2 DEF Inside
  <2>4. Of(l.next - 1, RowAt(l))
    BY <1>3, <2>1, <2>2, <2>3 DEF Of, Holding
  <2>5. l.at < l.entry
    BY <1>1, <2>1
  <2>6. RowAt(l).idx <= Size(RowAt(l).file, RowAt(l).entry) - Rem(l)
    <3>1. RowAt(l).idx \in Nat
      BY <1>1, <1>3, InsideSize
    <3>2. QED BY <1>3, <3>1
  <2>7. Behind(l, RowAt(l))
    BY <1>3, <2>5, <2>6 DEF Behind
  <2>8. ASSUME NEW k, Of(k, RowAt(l)) PROVE k = l.next - 1
    <3>1. \A i, j \in DOMAIN tasks : i # j /\ tasks[i].file = tasks[j].file => Inside(tasks[i]) \cap Inside(tasks[j]) = {}
      BY DEF PlanInv, IsPlan, Disjoint
    <3>2. QED BY <2>2, <2>4, <2>8, <3>1 DEF Of, Holding
  <2>9. QED BY <2>2, <2>4, <2>7, <2>8
<1>5. QED BY <1>1, <1>3, <1>4

\* R counts row t once more.
Counted(R, t) == [R EXCEPT ![t] = R[t] + 1]

\* A step of thread w that returns the row it holds.
LEMMA ThreadEmits ==
    ASSUME PlanInv, NEW P, NEW L, NEW R, NEW g, NEW P2, NEW L2, NEW w \in Workers, NEW p2, NEW l2,
           Only(P, P2, w, p2), Only(L, L2, w, l2), ThreadsOK(P, L), OwnerOK(L, g), OnceOK(P, L, R, g),
           R \in [AllRows -> Nat], P[w] = "reserve", p2 # "reserve", MovesOn(L[w], P[w], l2, p2),
           LetsGo(L[w], l2, p2), NEW R2, R2 = Counted(R, RowAt(L[w]))
    PROVE  /\ R2 \in [AllRows -> Nat] /\ R2[RowAt(L[w])] >= 1
           /\ \A r \in AllRows : R2[r] >= R[r] /\ (r # RowAt(L[w]) => R2[r] = R[r])
           /\ OnceOK(P2, L2, R2, g)
           /\ ~q.typed => R[RowAt(L[w])] = 0
<1> DEFINE l == L[w]
           t == RowAt(l)
<1>1. LocalOK(l, "reserve") /\ BufferOK(l, "reserve")
  BY DEF ThreadsOK
<1>2. /\ t \in AllRows
      /\ ~q.typed => /\ l.has /\ Owns(l, l.next - 1) /\ Of(l.next - 1, t) /\ Behind(l, t)
                     /\ \A k : Of(k, t) => k = l.next - 1
  BY <1>1, InHandFacts
<1>3. P[w] = "reserve" /\ Only(L, L2, w, l2) /\ L[w] = l
  OBVIOUS
<1>4. R2 = [R EXCEPT ![t] = R[t] + 1]
  BY DEF Counted
<1>5. InHand(l, P[w], t)
  BY DEF InHand
<1>6. MovesOn(l, P[w], l2, p2) /\ LetsGo(l, l2, p2)
  OBVIOUS
<1>7. R[t] \in Nat
  BY <1>2
<1> HIDE DEF l, t
<1>8. /\ R2 \in [AllRows -> Nat] /\ R2[t] = R[t] + 1
      /\ \A r \in AllRows : r # t => R2[r] = R[r]
  BY <1>2, <1>4, <1>7
<1>9. \A r \in AllRows : R[r] \in Nat
  OBVIOUS
<1>10. \A r \in AllRows : R2[r] >= R[r]
  <2> SUFFICES ASSUME NEW r \in AllRows PROVE R2[r] >= R[r]
    OBVIOUS
  <2>1. CASE r = t
    BY <1>7, <1>8, <2>1
  <2>2. CASE r # t
    <3>1. R2[r] = R[r] /\ R[r] \in Nat
      BY <1>8, <1>9, <2>2
    <3>2. QED BY <3>1
  <2>3. QED BY <2>1, <2>2
<1>11. ASSUME ~q.typed PROVE R[t] = 0
  <2>1. R[t] <= 1
    BY <1>2, <1>11 DEF OnceOK
  <2>2. CASE R[t] = 1
    <3>1. Passed(L[w], P[w], l.next - 1, t)
      BY <1>2, <1>11, <2>2 DEF OnceOK
    <3>2. QED BY <1>2, <1>3, <1>5, <1>11, <3>1 DEF Passed
  <2>3. QED BY <1>7, <2>1, <2>2
<1>12. OnceOK(P2, L2, R, g)
  BY <1>3, <1>6, ThreadMoves
<1>13. OnceOK(P2, L2, R2, g)
  <2> SUFFICES ASSUME ~q.typed, NEW r \in AllRows
               PROVE  /\ R2[r] <= 1
                      /\ R2[r] = 1 => \A k : Of(k, r) => ~Unclaimed(g, k) /\ \A x \in Workers : Passed(L2[x], P2[x], k, r)
    BY DEF OnceOK
  <2>1. CASE r # t
    BY <1>8, <1>12, <2>1 DEF OnceOK
  <2>2. CASE r = t
    <3>1. R2[r] <= 1
      BY <1>8, <1>11, <2>2
    <3> SUFFICES ASSUME NEW k, Of(k, r) PROVE ~Unclaimed(g, k) /\ \A x \in Workers : Passed(L2[x], P2[x], k, r)
      BY <3>1
    <3>2. k = l.next - 1 /\ k \in DOMAIN tasks /\ Owns(L[w], k)
      BY <1>2, <1>3, <2>2 DEF Of
    <3>3. ~Unclaimed(g, k)
      BY <3>2 DEF OwnerOK
    <3>4. ASSUME NEW x \in Workers PROVE Passed(L2[x], P2[x], k, r)
      <4>1. CASE x = w
        <5>1. Passed(l2, p2, k, t)
          BY <1>2, <1>11, <3>2, <1>6 DEF LetsGo
        <5>2. QED BY <2>2, <4>1, <5>1 DEF Only
      <4>2. CASE x # w
        <5>1. ~Owns(L2[x], k)
          BY <3>2, <4>2 DEF OwnerOK, Only
        <5>2. QED BY <5>1 DEF Passed
      <4>3. QED BY <4>1, <4>2
    <3>5. QED BY <3>3, <3>4
  <2>3. QED BY <2>1, <2>2
<1>14. QED BY <1>2, <1>7, <1>8, <1>10, <1>11, <1>13 DEF t, l

-----------------------------------------------------------------------------
(***************************************************************************)
(* The threads after the plan.                                             *)
(***************************************************************************)

RunPlaces == Places \ {"plan", "failed"}

\* Where thread w is, and what it has seen of the rows granted (m) and the groups
\* claimed (g).  A thread leaves Scan with a chunk only because of the limit, or
\* because there is no group left.
PlaceOK(w, l, p, m, g) ==
    /\ l \in AnyLocal /\ p \in RunPlaces
    /\ p = "start" => l = NewLocal
    /\ p # "start" => w \in Threads
    /\ p \in {"scan", "reserve", "stop"} => ~q.count
    /\ p = "count" => q.count
    /\ p = "reserve" => Passes(q.value, RowAt(l).value)
    /\ l.seen <= m
    /\ p = "stop" => Limited /\ m >= q.limit
    /\ p \in {"return", "done"} /\ ~q.count =>
          m >= q.limit \/ (g > Len(groups) /\ ~l.has /\ l.next > l.last)
    /\ q.count /\ ((p = "return" /\ l.out = 0) \/ p = "done") => m = total \/ (Limited /\ m = q.limit)
PlacesOK(P, L, m, g) == \A w \in Workers : PlaceOK(w, L[w], P[w], m, g)

CountersOK(m, h, g) ==
    /\ m \in Nat /\ g \in Nat \ {0} /\ h \in BOOLEAN
    /\ Limited => m <= q.limit
    /\ h => Limited /\ m >= q.limit
    /\ q.count => m <= total

\* The rows granted are the rows returned; with 64-bit values one can be returned
\* again.  Without optional filters every one of them matches.
Ret(R) == {r \in AllRows : R[r] > 0}
Wholly == \A f \in q.value \cup q.event \cup q.entry \cup q.source : ~f.optional
RowsOK(R, m) ==
    /\ R \in [AllRows -> Nat]
    /\ Cardinality(Ret(R)) <= m
    /\ ~q.typed /\ ~q.count => Cardinality(Ret(R)) = m
    /\ Wholly => Ret(R) \subseteq Matching

Running(P, L, R, m, h, g) ==
    /\ P \in [Workers -> RunPlaces] /\ L \in [Workers -> AnyLocal]
    /\ ThreadsOK(P, L) /\ OwnerOK(L, g)
    /\ OnceOK(P, L, R, g)
    /\ CompleteOK(P, L, R, m, g)
    /\ PlacesOK(P, L, m, g)
    /\ CountersOK(m, h, g)
    /\ RowsOK(R, m)

LEMMA Updated ==
    ASSUME NEW S, NEW F \in [Workers -> S], NEW w \in Workers, NEW z \in S
    PROVE  [F EXCEPT ![w] = z] \in [Workers -> S] /\ Only(F, [F EXCEPT ![w] = z], w, z)
BY DEF Only

LEMMA PlaceGrows ==
    ASSUME NEW w, NEW l, NEW p, NEW m \in Nat, NEW g \in Nat, NEW m2 \in Nat, NEW g2 \in Nat,
           PlaceOK(w, l, p, m, g), m2 >= m, g2 >= g, q.count => m2 = m, q \in Queries,
           Len(groups) \in Nat
    PROVE  PlaceOK(w, l, p, m2, g2)
<1>1. l.seen \in Nat /\ l.seen <= m /\ q.limit \in Nat
  BY QueryFacts DEF PlaceOK, AnyLocal
<1>2. l.seen <= m2
  BY <1>1
<1>3. m >= q.limit => m2 >= q.limit
  BY <1>1
<1>4. g > Len(groups) => g2 > Len(groups)
  OBVIOUS
<1>5. QED BY <1>2, <1>3, <1>4 DEF PlaceOK

\* No match is lost in the step, unless the limit is reached.
Keeps(l, p, l2, p2, m) ==
    m >= q.limit \/ (Ordinary => \A r \in Matching : KeepsRow(l, p, l2, p2, r))

LEMMA RunMoves ==
    ASSUME PlanInv, NEW P, NEW L, NEW R, NEW m, NEW h, NEW g, Running(P, L, R, m, h, g),
           NEW w \in Workers, NEW p2, NEW l2, NEW P2 \in [Workers -> RunPlaces], NEW L2 \in [Workers -> AnyLocal],
           Only(P, P2, w, p2), Only(L, L2, w, l2), MovesOn(L[w], P[w], l2, p2),
           PlaceOK(w, l2, p2, m, g), NEW h2, CountersOK(m, h2, g), Keeps(L[w], P[w], l2, p2, m)
    PROVE  Running(P2, L2, R, m, h2, g)
<1>1. /\ ThreadsOK(P, L) /\ OwnerOK(L, g) /\ OnceOK(P, L, R, g) /\ CompleteOK(P, L, R, m, g)
      /\ PlacesOK(P, L, m, g) /\ RowsOK(R, m)
  BY DEF Running
<1>2. /\ ThreadsOK(P2, L2) /\ OwnerOK(L2, g) /\ OnceOK(P2, L2, R, g)
      /\ \A r : KeepsRow(L[w], P[w], l2, p2, r) =>
            \A k : Of(k, r) /\ Awaited(P, L, g, k, r) => Awaited(P2, L2, g, k, r)
  BY <1>1, ThreadMoves
<1>3. CompleteOK(P2, L2, R, m, g)
  <2> SUFFICES ASSUME Ordinary, ~q.count, NEW r \in Matching, NEW k, Of(k, r), ~ (R[r] >= 1), ~ (m >= q.limit)
               PROVE  Awaited(P2, L2, g, k, r)
    BY DEF CompleteOK
  <2>1. Awaited(P, L, g, k, r)
    BY <1>1 DEF CompleteOK
  <2>2. KeepsRow(L[w], P[w], l2, p2, r)
    BY DEF Keeps
  <2>3. QED BY <1>2, <2>1, <2>2
<1>4. PlacesOK(P2, L2, m, g)
  <2> SUFFICES ASSUME NEW x \in Workers PROVE PlaceOK(x, L2[x], P2[x], m, g)
    BY DEF PlacesOK
  <2>1. CASE x = w
    BY <2>1 DEF Only
  <2>2. CASE x # w
    <3>1. L2[x] = L[x] /\ P2[x] = P[x]
      BY <2>2 DEF Only
    <3>2. QED BY <1>1, <3>1 DEF PlacesOK
  <2>3. QED BY <2>1, <2>2
<1>5. QED BY <1>1, <1>2, <1>3, <1>4 DEF Running

\* ClaimTask finds no group.
LEMMA RunExhausts ==
    ASSUME PlanInv, NEW P, NEW L, NEW R, NEW m, NEW h, NEW g, Running(P, L, R, m, h, g),
           groups = FileTaskGroups(tasks), g > Len(groups)
    PROVE  Running(P, L, R, m, h, g + 1) /\ \A k : ~Unclaimed(g, k)
<1>1. /\ OwnerOK(L, g) /\ OnceOK(P, L, R, g) /\ CompleteOK(P, L, R, m, g)
      /\ PlacesOK(P, L, m, g) /\ CountersOK(m, h, g)
  BY DEF Running
<1>2. Len(groups) \in Nat /\ DOMAIN groups = 1 .. Len(groups) /\ q \in Queries
  BY GroupFacts DEF PlanInv, IsPlan
<1>3. g \in Nat /\ m \in Nat /\ g + 1 \in Nat \ {0} /\ g + 1 >= g /\ m >= m
  BY <1>1 DEF CountersOK
<1>4. \A k : ~Unclaimed(g, k) /\ ~Unclaimed(g + 1, k)
  <2>1. \A j \in DOMAIN groups : ~ (j >= g) /\ ~ (j >= g + 1)
    BY <1>2, <1>3
  <2>2. QED BY <2>1 DEF Unclaimed
<1>5. OwnerOK(L, g + 1)
  BY <1>1, <1>4 DEF OwnerOK
<1>6. OnceOK(P, L, R, g + 1)
  BY <1>1, <1>4 DEF OnceOK
<1>7. CompleteOK(P, L, R, m, g + 1)
  BY <1>1, <1>4 DEF CompleteOK, Awaited
<1>8. PlacesOK(P, L, m, g + 1)
  <2> SUFFICES ASSUME NEW x \in Workers PROVE PlaceOK(x, L[x], P[x], m, g + 1)
    BY DEF PlacesOK
  <2>1. PlaceOK(x, L[x], P[x], m, g)
    BY <1>1 DEF PlacesOK
  <2>2. QED BY <1>2, <1>3, <2>1, PlaceGrows
<1>9. CountersOK(m, h, g + 1)
  BY <1>1, <1>3 DEF CountersOK
<1>10. QED BY <1>4, <1>5, <1>6, <1>7, <1>8, <1>9 DEF Running

\* ClaimTask takes the next group.
LEMMA RunClaims ==
    ASSUME PlanInv, NEW P, NEW L, NEW R, NEW m, NEW h, NEW g, Running(P, L, R, m, h, g),
           groups = FileTaskGroups(tasks), g <= Len(groups),
           NEW w \in Workers, P[w] = "scan", ~L[w].has, L[w].next > L[w].last,
           NEW L2 \in [Workers -> AnyLocal], Only(L, L2, w, Grouping(L[w], groups[g][1], groups[g][2]))
    PROVE  Running(P, L2, R, m, h, g + 1)
<1> DEFINE z == Grouping(L[w], groups[g][1], groups[g][2])
<1>1. /\ ThreadsOK(P, L) /\ OwnerOK(L, g) /\ OnceOK(P, L, R, g) /\ CompleteOK(P, L, R, m, g)
      /\ PlacesOK(P, L, m, g) /\ CountersOK(m, h, g)
  BY DEF Running
<1>2. g \in Nat /\ g >= 1 /\ m \in Nat /\ g + 1 \in Nat \ {0} /\ g + 1 >= g /\ m >= m
  BY <1>1 DEF CountersOK
<1>3. /\ Len(groups) \in Nat /\ DOMAIN groups = 1 .. Len(groups) /\ q \in Queries
      /\ \A j \in DOMAIN groups : groups[j][1] \in 1 .. Len(tasks) /\ groups[j][2] \in 1 .. Len(tasks)
                                  /\ groups[j][1] <= groups[j][2]
      /\ \A i, j \in DOMAIN groups : \A k \in 1 .. Len(tasks) :
            InGroup(groups[i], k) /\ InGroup(groups[j], k) => i = j
  BY GroupFacts DEF PlanInv, IsPlan
<1>4. DOMAIN tasks = 1 .. Len(tasks)
  <2>1. tasks \in Seq(AnyTask)
    BY DEF PlanInv, IsPlan, Disjoint
  <2>2. QED BY <2>1
<1>5. g \in DOMAIN groups /\ \A j \in DOMAIN groups : j \in Nat
  BY <1>2, <1>3
<1>6. PlaceOK(w, L[w], "scan", m, g) /\ LocalOK(L[w], "scan") /\ BufferOK(L[w], "scan")
  BY <1>1 DEF PlacesOK, ThreadsOK
<1>7. ~q.count
  BY <1>6 DEF PlaceOK
<1>8. /\ LocalOK(z, "scan") /\ BufferOK(z, "scan") /\ ~z.has /\ z.seen = L[w].seen
      /\ \A k \in DOMAIN tasks : ~Owns(L[w], k)
      /\ \A k : Owns(z, k) <=> InGroup(groups[g], k)
  <2> DEFINE a == groups[g][1]
             b == groups[g][2]
  <2>1. a \in 1 .. Len(tasks) /\ b \in 1 .. Len(tasks) /\ a <= b /\ z = Grouping(L[w], a, b)
    BY <1>3, <1>5
  <2>2. \A k : InGroup(groups[g], k) <=> a <= k /\ k <= b
    BY DEF InGroup
  <2> HIDE DEF a, b, z
  <2>3. QED BY <1>6, <1>7, <2>1, <2>2, ClaimGroupThread
<1>9. L2[w] = z /\ \A x \in Workers : x # w => L2[x] = L[x]
  BY DEF Only
<1> HIDE DEF z
<1>10. \A k : Unclaimed(g + 1, k) => Unclaimed(g, k)
  BY <1>2, <1>5 DEF Unclaimed
<1>11. \A k : InGroup(groups[g], k) => Unclaimed(g, k)
  BY <1>2, <1>5 DEF Unclaimed
<1>12. ASSUME NEW k, Unclaimed(g, k) PROVE InGroup(groups[g], k) \/ Unclaimed(g + 1, k)
  <2>1. PICK j \in DOMAIN groups : j >= g /\ InGroup(groups[j], k)
    BY <1>12 DEF Unclaimed
  <2>2. j = g \/ j >= g + 1
    BY <1>2, <1>5, <2>1
  <2>3. QED BY <2>1, <2>2 DEF Unclaimed
<1>13. ASSUME NEW k \in DOMAIN tasks, InGroup(groups[g], k), Unclaimed(g + 1, k) PROVE FALSE
  <2>1. PICK j \in DOMAIN groups : j >= g + 1 /\ InGroup(groups[j], k)
    BY <1>13 DEF Unclaimed
  <2>2. j = g
    BY <1>3, <1>4, <1>5, <1>13, <2>1
  <2>3. QED BY <1>2, <2>1, <2>2
<1>14. ThreadsOK(P, L2)
  <2> SUFFICES ASSUME NEW x \in Workers PROVE LocalOK(L2[x], P[x]) /\ BufferOK(L2[x], P[x])
    BY DEF ThreadsOK
  <2>1. CASE x = w
    BY <1>8, <1>9, <2>1
  <2>2. CASE x # w
    BY <1>1, <1>9, <2>2 DEF ThreadsOK
  <2>3. QED BY <2>1, <2>2
<1>15. OwnerOK(L2, g + 1)
  <2>1. ASSUME NEW x \in Workers, NEW k \in DOMAIN tasks, Owns(L2[x], k), x # w
        PROVE  Owns(L[x], k) /\ ~Unclaimed(g, k)
    BY <1>1, <1>9, <2>1 DEF OwnerOK
  <2>2. ASSUME NEW k \in DOMAIN tasks, Owns(L2[w], k) PROVE Unclaimed(g, k) /\ ~Unclaimed(g + 1, k)
    BY <1>8, <1>9, <1>11, <1>13, <2>2
  <2>3. ASSUME NEW x \in Workers, NEW k \in DOMAIN tasks, Owns(L2[x], k) PROVE ~Unclaimed(g + 1, k)
    BY <1>10, <2>1, <2>2, <2>3
  <2>4. ASSUME NEW x \in Workers, NEW y \in Workers, NEW k \in DOMAIN tasks, Owns(L2[x], k), Owns(L2[y], k)
        PROVE  x = y
    <3>1. CASE x = w
      BY <2>1, <2>2, <2>4, <3>1
    <3>2. CASE y = w
      BY <2>1, <2>2, <2>4, <3>2
    <3>3. CASE x # w /\ y # w
      BY <1>1, <2>1, <2>4, <3>3 DEF OwnerOK
    <3>4. QED BY <3>1, <3>2, <3>3
  <2>5. QED BY <2>3, <2>4 DEF OwnerOK
<1>16. OnceOK(P, L2, R, g + 1)
  <2> SUFFICES ASSUME ~q.typed, NEW r \in AllRows, R[r] = 1, NEW k, Of(k, r)
               PROVE  ~Unclaimed(g + 1, k) /\ \A x \in Workers : Passed(L2[x], P[x], k, r)
    BY <1>1 DEF OnceOK
  <2>1. ~Unclaimed(g, k) /\ \A x \in Workers : Passed(L[x], P[x], k, r)
    BY <1>1 DEF OnceOK
  <2>2. ASSUME NEW x \in Workers PROVE Passed(L2[x], P[x], k, r)
    <3>1. CASE x = w
      <4>1. ~Owns(L2[w], k)
        BY <1>8, <1>9, <1>11, <2>1
      <4>2. QED BY <3>1, <4>1 DEF Passed
    <3>2. CASE x # w
      BY <1>9, <2>1, <3>2
    <3>3. QED BY <3>1, <3>2
  <2>3. QED BY <1>10, <2>1, <2>2
<1>17. CompleteOK(P, L2, R, m, g + 1)
  <2> SUFFICES ASSUME Ordinary, NEW r \in Matching, NEW k, Of(k, r), Awaited(P, L, g, k, r)
               PROVE  Awaited(P, L2, g + 1, k, r)
    BY <1>1 DEF CompleteOK
  <2>1. CASE Unclaimed(g, k)
    <3>1. CASE Unclaimed(g + 1, k)
      BY <3>1 DEF Awaited
    <3>2. CASE InGroup(groups[g], k)
      <4>1. Owns(L2[w], k) /\ ~L2[w].has
        BY <1>8, <1>9, <3>2
      <4>2. Awaits(L2[w], P[w], k, r)
        BY <4>1 DEF Awaits
      <4>3. QED BY <4>2 DEF Awaited
    <3>3. QED BY <1>12, <2>1, <3>1, <3>2
  <2>2. ASSUME NEW x \in Workers, Awaits(L[x], P[x], k, r) PROVE Awaits(L2[x], P[x], k, r)
    <3>1. CASE x = w
      BY <1>8, <2>2, <3>1 DEF Awaits, InHand, Of
    <3>2. CASE x # w
      BY <1>9, <2>2, <3>2
    <3>3. QED BY <3>1, <3>2
  <2>3. QED BY <2>1, <2>2 DEF Awaited
<1>18. PlacesOK(P, L2, m, g + 1)
  <2> SUFFICES ASSUME NEW x \in Workers PROVE PlaceOK(x, L2[x], P[x], m, g + 1)
    BY DEF PlacesOK
  <2>1. CASE x = w
    <3>1. z \in AnyLocal
      BY <1>8 DEF LocalOK
    <3>2. QED BY <1>6, <1>8, <1>9, <2>1, <3>1 DEF PlaceOK
  <2>2. CASE x # w
    <3>1. PlaceOK(x, L2[x], P[x], m, g)
      BY <1>1, <1>9, <2>2 DEF PlacesOK
    <3>2. QED BY <1>2, <1>3, <3>1, PlaceGrows
  <2>3. QED BY <2>1, <2>2
<1>19. CountersOK(m, h, g + 1)
  BY <1>1, <1>2 DEF CountersOK
<1>20. QED BY <1>14, <1>15, <1>16, <1>17, <1>18, <1>19 DEF Running

\* A row that was read passes the filters and the predicates, and its task was cut
\* from the selection.
LEMMA EmittedMatches ==
    ASSUME PlanInv, Wholly, NEW l \in AnyLocal, OfEntry(l), l.offset >= 1, l.offset <= Len(l.vals),
           Passes(q.value, RowAt(l).value)
    PROVE  RowAt(l) \in Matching
<1> DEFINE t == RowAt(l)
<1>1. t \in AllRows /\ t.file = l.from /\ t.entry = l.at
  BY RowAtFacts
<1>2. /\ Covered(tasks, l.from, l.at) /\ PassesDatasetEntryFilters(l.from, l.at)
      /\ PassesPathPredicates(l.from, l.at)
  BY DEF OfEntry
<1>3. Passes(q.value, t.value)
  OBVIOUS
<1> HIDE DEF t
<1>4. \A f \in q.value \cup q.event \cup q.entry \cup q.source : ~f.optional
  BY DEF Wholly
<1>5. /\ Satisfies(q.event, q.files[t.file].base + t.entry) /\ Satisfies(q.entry, t.entry)
      /\ Satisfies(q.source, t.file) /\ Satisfies(q.value, t.value)
  BY <1>1, <1>2, <1>3, <1>4 DEF PassesDatasetEntryFilters, Passes, Satisfies
<1>6. ASSUME NEW S \in q.selection PROVE t.entry \in S[t.file]
  <2>1. PICK s \in fetched : s[1] = l.from /\ l.at \in ClipOf(s)
    BY <1>2 DEF PlanInv, IsPlan
  <2>2. IntervalFilterActive
    BY <1>6 DEF IntervalFilterActive
  <2>3. l.at \in CandidateEntries(l.from)
    BY <2>1, <2>2 DEF ClipOf, ClipSet
  <2>4. l.at \in S[l.from]
    BY <1>6, <2>3 DEF CandidateEntries
  <2>5. QED BY <1>1, <2>4
<1>7. QED BY <1>1, <1>2, <1>5, <1>6 DEF Matching, t

Outing(l, o, s) == [l EXCEPT !.out = o, !.seen = s]

Outed(l, o, s, z) ==
    /\ z \in AnyLocal /\ z.out = o /\ z.seen = s /\ z.has = l.has /\ z.next = l.next /\ z.last = l.last
    /\ RowAt(z) = RowAt(l)

LEMMA OutingFacts ==
    ASSUME NEW l \in AnyLocal, NEW o \in Nat, NEW s \in Nat
    PROVE  Outed(l, o, s, Outing(l, o, s))
<1> DEFINE I == Seq(Item)
           K == AnyTask
           z == Outing(l, o, s)
<1>1. l \in [next: Nat \ {0}, last: Nat, has: BOOLEAN, task: K, entry: Nat,
             vals: I, offset: Nat, at: Nat, from: Nat, open: BOOLEAN, rest: I, out: Nat, seen: Nat]
  BY DEF AnyLocal
<1> HIDE DEF I, K
<1>2. /\ z \in [next: Nat \ {0}, last: Nat, has: BOOLEAN, task: K, entry: Nat,
             vals: I, offset: Nat, at: Nat, from: Nat, open: BOOLEAN, rest: I, out: Nat, seen: Nat]
      /\ z.out = o /\ z.seen = s /\ z.has = l.has /\ z.next = l.next /\ z.last = l.last
      /\ z.from = l.from /\ z.at = l.at /\ z.vals = l.vals /\ z.offset = l.offset
  BY <1>1 DEF Outing
<1> HIDE DEF z
<1>3. RowAt(z) = RowAt(l)
  BY <1>2 DEF RowAt
<1>4. QED BY <1>2, <1>3 DEF AnyLocal, I, K, z, Outed

\* A row is granted: one more of them, and it is returned.
LEMMA RowsGrow ==
    ASSUME q \in Queries, NEW R, NEW m \in Nat, RowsOK(R, m), NEW t \in AllRows, NEW R2,
           R2 \in [AllRows -> Nat], R2[t] >= 1, \A r \in AllRows : R2[r] >= R[r] /\ (r # t => R2[r] = R[r]),
           ~q.typed => R[t] = 0, Wholly => t \in Matching
    PROVE  RowsOK(R2, m + 1)
<1>1. /\ R \in [AllRows -> Nat] /\ Cardinality(Ret(R)) <= m
      /\ ~q.typed /\ ~q.count => Cardinality(Ret(R)) = m
      /\ Wholly => Ret(R) \subseteq Matching
  BY DEF RowsOK
<1>2. \A r \in AllRows : R[r] \in Nat /\ R2[r] \in Nat
  BY <1>1
<1>3. Ret(R2) = Ret(R) \cup {t}
  <2>1. \A r \in AllRows : R2[r] > 0 <=> R[r] > 0 \/ r = t
    <3> SUFFICES ASSUME NEW r \in AllRows PROVE R2[r] > 0 <=> R[r] > 0 \/ r = t
      OBVIOUS
    <3>1. CASE r = t
      BY <1>2, <3>1
    <3>2. CASE r # t
      BY <1>2, <3>2
    <3>3. QED BY <3>1, <3>2
  <2>2. QED BY <2>1 DEF Ret
<1>4. IsFiniteSet(Ret(R)) /\ Cardinality(Ret(R)) \in Nat
  <2>1. IsFiniteSet(AllRows) /\ Ret(R) \subseteq AllRows
    BY RowsFinite DEF Ret
  <2>2. IsFiniteSet(Ret(R))
    BY <2>1, FS_Subset
  <2>3. QED BY <2>2, FS_CardinalityType
<1>5. Cardinality(Ret(R2)) = IF t \in Ret(R) THEN Cardinality(Ret(R)) ELSE Cardinality(Ret(R)) + 1
  BY <1>3, <1>4, FS_AddElement
<1>6. ~q.typed => t \notin Ret(R)
  BY DEF Ret
<1>7. Cardinality(Ret(R2)) <= m + 1 /\ (~q.typed /\ ~q.count => Cardinality(Ret(R2)) = m + 1)
  BY <1>1, <1>4, <1>5, <1>6
<1>8. Wholly => Ret(R2) \subseteq Matching
  BY <1>1, <1>3
<1>9. QED BY <1>7, <1>8 DEF RowsOK

\* ReserveOutputRows grants a row and the thread returns it.
LEMMA RunEmits ==
    ASSUME PlanInv, NEW P, NEW L, NEW R, NEW m, NEW h, NEW g, Running(P, L, R, m, h, g), Len(groups) \in Nat,
           NEW w \in Workers, P[w] = "reserve", NEW p2, p2 \in {"scan", "stop"},
           Limited => m + 1 <= q.limit, p2 = "stop" => Limited /\ m + 1 >= q.limit,
           NEW P2 \in [Workers -> RunPlaces], NEW L2 \in [Workers -> AnyLocal],
           Only(P, P2, w, p2), Only(L, L2, w, Outing(L[w], L[w].out + 1, L[w].seen)),
           NEW R2, R2 = Counted(R, RowAt(L[w]))
    PROVE  Running(P2, L2, R2, m + 1, h, g)
<1> DEFINE l == L[w]
           z == Outing(l, l.out + 1, l.seen)
           t == RowAt(l)
<1>1. /\ ThreadsOK(P, L) /\ OwnerOK(L, g) /\ OnceOK(P, L, R, g) /\ CompleteOK(P, L, R, m, g)
      /\ PlacesOK(P, L, m, g) /\ CountersOK(m, h, g) /\ RowsOK(R, m) /\ q \in Queries
  BY DEF Running, PlanInv
<1>2. LocalOK(l, "reserve") /\ BufferOK(l, "reserve") /\ PlaceOK(w, l, "reserve", m, g)
  BY <1>1 DEF ThreadsOK, PlacesOK
<1>3. /\ l \in AnyLocal /\ l.out \in Nat /\ l.seen \in Nat /\ l.out < VectorSize /\ l.seen <= m
      /\ l.offset >= 1 /\ l.offset <= Len(l.vals) /\ w \in Threads /\ ~q.count
      /\ Passes(q.value, t.value)
  BY <1>2 DEF LocalOK, PlaceOK, AnyLocal
<1>4. m \in Nat /\ m + 1 \in Nat /\ m + 1 >= m /\ g \in Nat /\ g >= g /\ q.limit \in Nat
  BY <1>1, QueryFacts DEF CountersOK
<1>5. l.out + 1 \in 0 .. VectorSize
  BY <1>3, VectorFacts
<1>6. /\ MovesOn(l, "reserve", z, p2) /\ LetsGo(l, z, p2)
      /\ \A r : ~InHand(l, "reserve", r) => KeepsRow(l, "reserve", z, p2, r)
  BY <1>2, <1>3, <1>5, Carries DEF Outing
<1>7. z \in AnyLocal /\ z.seen = l.seen
  <2>1. l.out + 1 \in Nat
    BY <1>3
  <2>2. Outed(l, l.out + 1, l.seen, z)
    BY <1>3, <2>1, OutingFacts
  <2>3. QED BY <2>2 DEF Outed
<1>8. R \in [AllRows -> Nat]
  BY <1>1 DEF RowsOK
<1>9. L[w] = l /\ Only(L, L2, w, z) /\ t = RowAt(l) /\ RowAt(L[w]) = t
      /\ R2 = Counted(R, RowAt(L[w]))
  OBVIOUS
<1>10. MovesOn(L[w], P[w], z, p2) /\ LetsGo(L[w], z, p2) /\ P[w] = "reserve" /\ p2 # "reserve"
  BY <1>6
<1> HIDE DEF l, z, t
<1>11. /\ ThreadsOK(P2, L2) /\ OwnerOK(L2, g)
       /\ \A r : KeepsRow(L[w], P[w], z, p2, r) =>
             \A k : Of(k, r) /\ Awaited(P, L, g, k, r) => Awaited(P2, L2, g, k, r)
  BY <1>1, <1>9, <1>10, ThreadMoves
<1>12. /\ R2 \in [AllRows -> Nat] /\ R2[t] >= 1
       /\ \A r \in AllRows : R2[r] >= R[r] /\ (r # t => R2[r] = R[r])
       /\ OnceOK(P2, L2, R2, g)
       /\ ~q.typed => R[t] = 0
  <2>1. /\ R2 \in [AllRows -> Nat] /\ R2[RowAt(L[w])] >= 1
        /\ \A r \in AllRows : R2[r] >= R[r] /\ (r # RowAt(L[w]) => R2[r] = R[r])
        /\ OnceOK(P2, L2, R2, g)
        /\ ~q.typed => R[RowAt(L[w])] = 0
    BY <1>1, <1>8, <1>9, <1>10, ThreadEmits
  <2>2. QED BY <1>9, <2>1
<1>13. \A r \in AllRows : R[r] \in Nat /\ R2[r] \in Nat
  BY <1>8, <1>12
<1>14. CompleteOK(P2, L2, R2, m + 1, g)
  <2> SUFFICES ASSUME Ordinary, NEW r \in Matching, NEW k, Of(k, r), ~ (R2[r] >= 1), ~ (m + 1 >= q.limit)
               PROVE  Awaited(P2, L2, g, k, r)
    BY DEF CompleteOK
  <2>1. r \in AllRows
    BY <1>1, MatchingFacts
  <2>2. ~ (R[r] >= 1)
    <3>1. R2[r] >= R[r] /\ R[r] \in Nat /\ R2[r] \in Nat
      BY <1>12, <1>13, <2>1
    <3>2. QED BY <3>1
  <2>3. ~ (m >= q.limit)
    BY <1>4
  <2>4. Awaited(P, L, g, k, r)
    BY <1>1, <1>3, <2>2, <2>3 DEF CompleteOK
  <2>5. r # t
    BY <1>12
  <2>6. ~InHand(l, "reserve", r)
    BY <1>9, <2>5 DEF InHand
  <2>7. QED BY <1>6, <1>9, <1>10, <1>11, <2>4, <2>6
<1>15. PlacesOK(P2, L2, m + 1, g)
  <2> SUFFICES ASSUME NEW x \in Workers PROVE PlaceOK(x, L2[x], P2[x], m + 1, g)
    BY DEF PlacesOK
  <2>1. CASE x = w
    <3>1. z.seen <= m + 1
      BY <1>3, <1>4, <1>7
    <3>2. L2[x] = z /\ P2[x] = p2
      BY <1>9, <2>1 DEF Only
    <3>3. PlaceOK(w, z, p2, m + 1, g)
      BY <1>3, <1>7, <3>1 DEF PlaceOK, RunPlaces, Places
    <3>4. QED BY <2>1, <3>2, <3>3
  <2>2. CASE x # w
    <3>1. PlaceOK(x, L[x], P[x], m, g) /\ L2[x] = L[x] /\ P2[x] = P[x]
      BY <1>1, <1>9, <2>2 DEF PlacesOK, Only
    <3>2. QED BY <1>1, <1>3, <1>4, <3>1, PlaceGrows
  <2>3. QED BY <2>1, <2>2
<1>16. CountersOK(m + 1, h, g)
  BY <1>1, <1>3, <1>4 DEF CountersOK
<1>17. RowsOK(R2, m + 1)
  <2>1. OfEntry(l)
    <3>1. l.vals # <<>>
      <4> SUFFICES ASSUME l.vals = <<>> PROVE FALSE
        OBVIOUS
      <4>1. Len(l.vals) = 0 /\ l.offset \in Nat
        BY <1>3 DEF AnyLocal
      <4>2. QED BY <1>3, <4>1
    <3>2. QED BY <1>2, <3>1 DEF BufferOK
  <2>2. t \in AllRows
    BY <1>3, <1>9, <2>1, RowAtFacts
  <2>3. Wholly => t \in Matching
    BY <1>3, <1>9, <2>1, EmittedMatches
  <2>4. QED BY <1>1, <1>4, <1>12, <2>2, <2>3, RowsGrow
<1>18. QED BY <1>11, <1>12, <1>14, <1>15, <1>16, <1>17 DEF Running

\* The same, in the form the actions have it.
Granted(l) == Outing(l, l.out + 1, l.seen)
Grants(P, L, R, m, w, P2, L2, R2, m2, p2) ==
    /\ w \in Workers /\ P[w] = "reserve" /\ p2 \in {"scan", "stop"} /\ m2 = m + 1
    /\ (Limited => m2 <= q.limit) /\ (p2 = "stop" => Limited /\ m2 >= q.limit)
    /\ P2 \in [Workers -> RunPlaces] /\ L2 \in [Workers -> AnyLocal]
    /\ Only(P, P2, w, p2) /\ Only(L, L2, w, Granted(L[w])) /\ R2 = Counted(R, RowAt(L[w]))
LEMMA RunGrants ==
    ASSUME PlanInv, NEW P, NEW L, NEW R, NEW m, NEW h, NEW g, Running(P, L, R, m, h, g), Len(groups) \in Nat,
           NEW w, NEW P2, NEW L2, NEW R2, NEW m2, NEW p2, Grants(P, L, R, m, w, P2, L2, R2, m2, p2)
    PROVE  Running(P2, L2, R2, m2, h, g)
BY RunEmits DEF Granted, Grants

\* The one thread that counts takes n rows of the total.
LEMMA RunCounts ==
    ASSUME PlanInv, NEW P, NEW L, NEW R, NEW m, NEW h, NEW g, Running(P, L, R, m, h, g), Len(groups) \in Nat,
           NEW w \in Workers, P[w] = "count", NEW n \in 0 .. VectorSize, NEW h2 \in BOOLEAN,
           q.count => m + n <= total, Limited => m + n <= q.limit,
           h2 => Limited /\ m + n >= q.limit, n = 0 => m = total \/ (Limited /\ m = q.limit),
           NEW P2 \in [Workers -> RunPlaces], NEW L2 \in [Workers -> AnyLocal],
           Only(P, P2, w, "return"), Only(L, L2, w, Outing(L[w], n, L[w].seen))
    PROVE  Running(P2, L2, R, m + n, h2, g)
<1> DEFINE l == L[w]
           z == Outing(l, n, l.seen)
<1>1. /\ ThreadsOK(P, L) /\ OwnerOK(L, g) /\ OnceOK(P, L, R, g)
      /\ PlacesOK(P, L, m, g) /\ CountersOK(m, h, g) /\ RowsOK(R, m) /\ q \in Queries
  BY DEF Running, PlanInv
<1>2. LocalOK(l, "count") /\ BufferOK(l, "count") /\ PlaceOK(w, l, "count", m, g)
  BY <1>1 DEF ThreadsOK, PlacesOK
<1>3. l \in AnyLocal /\ l.seen \in Nat /\ l.seen <= m /\ w \in Threads /\ q.count
  BY <1>2 DEF PlaceOK, AnyLocal
<1>4. /\ n \in Nat /\ m \in Nat /\ m + n \in Nat /\ m + n >= m /\ g \in Nat \ {0} /\ (n = 0 => m + n = m)
      /\ l.seen <= m + n
  <2>1. n \in Nat /\ m \in Nat /\ g \in Nat \ {0}
    BY <1>1, VectorFacts DEF CountersOK
  <2>2. QED BY <1>3, <2>1
<1>5. /\ MovesOn(l, "count", z, "return")
  BY <1>2, <1>3, Carries DEF Outing
<1>6. z \in AnyLocal /\ z.seen = l.seen /\ z.out = n
  <2>1. Outed(l, n, l.seen, z)
    BY <1>3, <1>4, OutingFacts
  <2>2. QED BY <2>1 DEF Outed
<1>7. L[w] = l /\ Only(L, L2, w, z)
  OBVIOUS
<1> HIDE DEF l, z
<1>8. ThreadsOK(P2, L2) /\ OwnerOK(L2, g) /\ OnceOK(P2, L2, R, g)
  BY <1>1, <1>5, <1>7, ThreadMoves
<1>9. CompleteOK(P2, L2, R, m + n, g)
  BY <1>3 DEF CompleteOK
<1>10. \A x \in Threads : x = w
  <2>1. \A x \in Threads : x \in Nat /\ x >= 1 /\ x <= 1
    BY <1>3, DatasetAssumption DEF Threads, MaxThreads
  <2>2. QED BY <1>3, <2>1
<1>11. PlacesOK(P2, L2, m + n, g)
  <2> SUFFICES ASSUME NEW x \in Workers PROVE PlaceOK(x, L2[x], P2[x], m + n, g)
    BY DEF PlacesOK
  <2>1. CASE x = w
    <3>1. L2[x] = z /\ P2[x] = "return"
      BY <1>7, <2>1 DEF Only
    <3>2. z.seen <= m + n
      BY <1>4, <1>6
    <3>3. PlaceOK(w, z, "return", m + n, g)
      BY <1>3, <1>4, <1>6, <3>2 DEF PlaceOK, RunPlaces, Places
    <3>4. QED BY <2>1, <3>1, <3>3
  <2>2. CASE x # w
    <3>1. PlaceOK(x, L[x], P[x], m, g) /\ L2[x] = L[x] /\ P2[x] = P[x]
      BY <1>1, <1>7, <2>2 DEF PlacesOK, Only
    <3>2. P[x] = "start"
      BY <1>10, <2>2, <3>1 DEF PlaceOK
    <3>3. L[x].seen \in Nat /\ L[x].seen <= m /\ L[x].seen <= m + n
      <4>1. L[x].seen \in Nat /\ L[x].seen <= m
        BY <3>1 DEF PlaceOK, AnyLocal
      <4>2. QED BY <1>4, <4>1
    <3>4. QED BY <3>1, <3>2, <3>3 DEF PlaceOK
  <2>3. QED BY <2>1, <2>2
<1>12. CountersOK(m + n, h2, g)
  BY <1>3, <1>4 DEF CountersOK
<1>13. RowsOK(R, m + n)
  <2>1. R \in [AllRows -> Nat] /\ Cardinality(Ret(R)) <= m /\ (Wholly => Ret(R) \subseteq Matching)
    BY <1>1 DEF RowsOK
  <2>2. Cardinality(Ret(R)) \in Nat
    <3>1. IsFiniteSet(AllRows) /\ Ret(R) \subseteq AllRows
      BY <1>1, RowsFinite DEF Ret
    <3>2. QED BY <3>1, FS_Subset, FS_CardinalityType
  <2>3. Cardinality(Ret(R)) <= m + n
    BY <1>4, <2>1, <2>2
  <2>4. QED BY <1>3, <2>1, <2>3 DEF RowsOK
<1>14. QED BY <1>8, <1>9, <1>11, <1>12, <1>13 DEF Running

Counting(P, L, m, w, P2, L2, n, h2) ==
    /\ w \in Workers /\ P[w] = "count" /\ n \in 0 .. VectorSize /\ h2 \in BOOLEAN
    /\ (q.count => m + n <= total) /\ (Limited => m + n <= q.limit) /\ (h2 => Limited /\ m + n >= q.limit)
    /\ (n = 0 => m = total \/ (Limited /\ m = q.limit))
    /\ P2 \in [Workers -> RunPlaces] /\ L2 \in [Workers -> AnyLocal]
    /\ Only(P, P2, w, "return") /\ Only(L, L2, w, Outing(L[w], n, L[w].seen))
LEMMA RunCounting ==
    ASSUME PlanInv, NEW P, NEW L, NEW R, NEW m, NEW h, NEW g, Running(P, L, R, m, h, g), Len(groups) \in Nat,
           NEW w, NEW P2, NEW L2, NEW n, NEW h2, Counting(P, L, m, w, P2, L2, n, h2)
    PROVE  Running(P2, L2, R, m + n, h2, g)
BY RunCounts DEF Counting

-----------------------------------------------------------------------------
(***************************************************************************)
(* The invariant, and the steps.                                           *)
(***************************************************************************)

\* CreateGlobal: nothing has started.
Planning ==
    /\ pc = [w \in Workers |-> "plan"] \/ (pc = [w \in Workers |-> "failed"] /\ q.changed)
    /\ groups = <<>> /\ total = 0 /\ next_group = 1 /\ emitted = 0 /\ stop = FALSE
    /\ local = [w \in Workers |-> NewLocal] /\ rows = [r \in AllRows |-> 0]

\* The plan is ready: it does not change any more.
PlanDone ==
    /\ groups = FileTaskGroups(tasks) /\ PlanIsComplete /\ ~q.changed
    /\ total = IF q.count THEN MetadataTotal ELSE 0

Run == Running(pc, local, rows, emitted, stop, next_group)

ScanInv == PlanInv /\ (Planning \/ (PlanDone /\ Run))

\* What the predicates of the threads read of the plan does not change with them.
LEMMA RunSame ==
    ASSUME q' = q, tasks' = tasks, groups' = groups, total' = total,
           Running(pc', local', rows', emitted', stop', next_group')
    PROVE  Run'
<1>1. AllRows' = AllRows
  BY PlanSame
<1>2. Ordinary' = Ordinary
  BY <1>1 DEF Ordinary, Entries
<1>3. Matching' = Matching
  BY <1>1 DEF Matching, Satisfies, PassesPathPredicates
<1>4. Threads' = Threads /\ Limited' = Limited /\ Wholly' = Wholly
  BY DEF Threads, MaxThreads, Limited, Wholly
<1>5. \A k, r : Of(k, r)' = Of(k, r)
  BY DEF Of, Holding
<1>6. \A g, k : Unclaimed(g, k)' = Unclaimed(g, k)
  BY DEF Unclaimed
<1>7. \A f, e : Size(f, e)' = Size(f, e)
  BY DEF Size
<1>8. \A l, r : Behind(l, r)' = Behind(l, r)
  BY DEF Behind, Size
<1>9. \A l : OfEntry(l)' = OfEntry(l)
  BY DEF OfEntry, Entries, Covered, Holding, PassesDatasetEntryFilters, PassesPathPredicates, Gone, Size, ValueAt
<1>10. \A l, p : BufferOK(l, p)' = BufferOK(l, p)
  BY <1>9 DEF BufferOK
<1>11. \A t : ClippedTask(t)' = ClippedTask(t)
  BY DEF ClippedTask, EventRange, EntryRange
<1>12. \A l, p : LocalOK(l, p)' = LocalOK(l, p)
  BY <1>11 DEF LocalOK
<1>13. ThreadsOK(pc, local)'
  BY <1>10, <1>12 DEF Running, ThreadsOK
<1>14. OwnerOK(local, next_group)'
  BY <1>6 DEF Running, OwnerOK
<1>15. OnceOK(pc, local, rows, next_group)'
  BY <1>1, <1>5, <1>6, <1>8 DEF Running, OnceOK, Passed, InHand
<1>16. CompleteOK(pc, local, rows, emitted, next_group)'
  BY <1>2, <1>3, <1>5, <1>6, <1>8 DEF Running, CompleteOK, Awaited, Awaits, InHand
<1>17. PlacesOK(pc, local, emitted, next_group)'
  BY <1>4 DEF Running, PlacesOK, PlaceOK
<1>18. CountersOK(emitted, stop, next_group)'
  BY <1>4 DEF Running, CountersOK
<1>19. RowsOK(rows, emitted)'
  BY <1>1, <1>3, <1>4 DEF Running, RowsOK, Ret
<1>20. QED
  BY <1>13, <1>14, <1>15, <1>16, <1>17, <1>18, <1>19 DEF Running, Run

LEMMA PlanDoneSame ==
    ASSUME PlanDone, UNCHANGED planVars
    PROVE  PlanDone'
<1>1. q' = q /\ fetched' = fetched /\ planned' = planned /\ tasks' = tasks /\ groups' = groups /\ total' = total
  BY DEF planVars
<1>2. AllRows' = AllRows /\ Selected' = Selected /\ CanStop' = CanStop
  BY <1>1, PlanSame
<1>3. NothingToRead' = NothingToRead
  BY <1>1 DEF NothingToRead, EntryRange, EventRange
<1>4. PlanIsComplete' = PlanIsComplete
  BY <1>1, <1>2, <1>3 DEF PlanIsComplete
<1>5. QED BY <1>1, <1>2, <1>4 DEF PlanDone, MetadataTotal

\* A thread DuckDB has not started has no task and no row.
LEMMA NewLocalFacts ==
    ASSUME PlanInv
    PROVE  /\ NewLocal \in AnyLocal /\ NewLocal.seen = 0 /\ NewLocal.out = 0 /\ ~NewLocal.has
           /\ \A p : p # "reserve" => LocalOK(NewLocal, p) /\ BufferOK(NewLocal, p)
           /\ \A k \in DOMAIN tasks : ~Owns(NewLocal, k)
           /\ \A p, k, r : p # "reserve" /\ Of(k, r) => ~Awaits(NewLocal, p, k, r)
<1>1. NoTask \in AnyTask /\ <<>> \in Seq(Item)
  BY DEF NoTask, AnyTask
<1> DEFINE I == Seq(Item)
           K == AnyTask
<1>2. NoTask \in K /\ <<>> \in I
  BY <1>1
<1> HIDE DEF I, K
<1>3. NewLocal \in [next: Nat \ {0}, last: Nat, has: BOOLEAN, task: K, entry: Nat,
             vals: I, offset: Nat, at: Nat, from: Nat, open: BOOLEAN, rest: I, out: Nat, seen: Nat]
  BY <1>2 DEF NewLocal
<1>4. /\ NewLocal.next = 1 /\ NewLocal.last = 0 /\ NewLocal.has = FALSE /\ NewLocal.vals = <<>> /\ NewLocal.offset = 0
      /\ NewLocal.open = FALSE /\ NewLocal.rest = <<>> /\ NewLocal.out = 0 /\ NewLocal.seen = 0
  BY DEF NewLocal
<1>5. NewLocal \in AnyLocal
  BY <1>3 DEF AnyLocal, I, K
<1>6. tasks \in Seq(AnyTask)
  BY DEF PlanInv, IsPlan, Disjoint
<1>7. Len(tasks) \in Nat /\ DOMAIN tasks = 1 .. Len(tasks)
  BY <1>6
<1>8. ASSUME NEW p, p # "reserve" PROVE LocalOK(NewLocal, p) /\ BufferOK(NewLocal, p)
  <2>1. 0 <= Len(tasks) /\ 0 <= VectorSize /\ Len(<<>>) = 0 /\ 1 > 0
    BY <1>7, VectorFacts
  <2>2. LocalOK(NewLocal, p)
    BY <1>4, <1>5, <1>8, <2>1 DEF LocalOK
  <2>3. Rem(NewLocal) = 0
    BY <1>4 DEF Rem
  <2>4. BufferOK(NewLocal, p)
    BY <1>4, <1>8, <2>3 DEF BufferOK
  <2>5. QED BY <2>2, <2>4
<1>9. ASSUME NEW k \in DOMAIN tasks, Owns(NewLocal, k) PROVE FALSE
  <2>1. k \in Int /\ 1 <= k /\ k <= 0
    BY <1>4, <1>7, <1>9 DEF Owns
  <2>2. QED BY <2>1
<1>10. \A p, k, r : p # "reserve" /\ Of(k, r) => ~Awaits(NewLocal, p, k, r)
  BY <1>9 DEF Awaits, InHand, Of
<1>11. QED BY <1>4, <1>5, <1>8, <1>9, <1>10

Starting ==
    /\ pc = [w \in Workers |-> "start"] /\ local = [w \in Workers |-> NewLocal]
    /\ next_group = 1 /\ emitted = 0 /\ stop = FALSE /\ rows = [r \in AllRows |-> 0]

LEMMA RunStarts == PlanInv /\ PlanDone /\ Starting => Run
<1> SUFFICES ASSUME PlanInv, PlanDone, Starting PROVE Run
  OBVIOUS
<1>1. /\ \A w \in Workers : pc[w] = "start" /\ local[w] = NewLocal
      /\ \A r \in AllRows : rows[r] = 0
      /\ pc \in [Workers -> RunPlaces] /\ rows \in [AllRows -> Nat] /\ "start" # "reserve"
      /\ next_group = 1 /\ emitted = 0 /\ stop = FALSE /\ q \in Queries
  BY DEF Starting, RunPlaces, Places, PlanInv
<1>2. /\ NewLocal \in AnyLocal /\ NewLocal.seen = 0
      /\ LocalOK(NewLocal, "start") /\ BufferOK(NewLocal, "start")
      /\ \A k \in DOMAIN tasks : ~Owns(NewLocal, k)
  BY <1>1, NewLocalFacts
<1>3. local \in [Workers -> AnyLocal]
  BY <1>2 DEF Starting
<1>4. ThreadsOK(pc, local)
  BY <1>1, <1>2 DEF ThreadsOK
<1>5. OwnerOK(local, next_group)
  BY <1>1, <1>2 DEF OwnerOK
<1>6. OnceOK(pc, local, rows, next_group)
  BY <1>1 DEF OnceOK
<1>7. CompleteOK(pc, local, rows, emitted, next_group)
  <2> SUFFICES ASSUME NEW r, NEW k, Of(k, r) PROVE Unclaimed(1, k)
    BY <1>1 DEF CompleteOK, Awaited
  <2>1. tasks \in Seq(AnyTask) /\ Disjoint(tasks)
    BY DEF PlanInv, IsPlan, Disjoint
  <2>2. k \in 1 .. Len(tasks)
    BY <2>1 DEF Of
  <2>3. DOMAIN groups = 1 .. Len(groups) /\ \E j \in DOMAIN groups : InGroup(groups[j], k)
    BY <2>1, <2>2, GroupFacts DEF PlanDone
  <2>4. \A j \in DOMAIN groups : j >= 1
    BY <2>3
  <2>5. QED BY <2>3, <2>4 DEF Unclaimed
<1>8. PlacesOK(pc, local, emitted, next_group)
  BY <1>1, <1>2 DEF PlacesOK, PlaceOK, RunPlaces, Places
<1>9. CountersOK(emitted, stop, next_group)
  <2>1. q.limit \in Nat /\ Cardinality(AllRows) \in Nat
    BY <1>1, QueryFacts, RowsFinite
  <2>2. q.count => 0 <= total
    BY <2>1 DEF PlanDone, MetadataTotal
  <2>3. 0 \in Nat /\ 1 \in Nat \ {0} /\ FALSE \in BOOLEAN /\ 0 <= q.limit
    BY <2>1
  <2>4. CountersOK(0, FALSE, 1)
    BY <2>2, <2>3 DEF CountersOK
  <2>5. QED BY <1>1, <2>4
<1>10. RowsOK(rows, emitted)
  <2>1. Ret(rows) = {}
    BY <1>1 DEF Ret
  <2>2. Cardinality({}) = 0
    BY FS_EmptySet
  <2>3. QED BY <1>1, <2>1, <2>2 DEF RowsOK
<1>11. QED BY <1>1, <1>3, <1>4, <1>5, <1>6, <1>7, <1>8, <1>9, <1>10 DEF Run, Running

LEMMA RunStartsNext == (PlanInv /\ PlanDone /\ Starting => Run)'
BY RunStarts, PTL

-----------------------------------------------------------------------------
(***************************************************************************)
(* Every step of a thread keeps the invariant.                             *)
(***************************************************************************)

LEMMA WorkerFacts ==
    ASSUME PlanInv, PlanDone, Run, NEW w \in Workers
    PROVE  /\ LocalOK(local[w], pc[w]) /\ BufferOK(local[w], pc[w])
           /\ PlaceOK(w, local[w], pc[w], emitted, next_group)
           /\ pc \in [Workers -> RunPlaces] /\ local \in [Workers -> AnyLocal] /\ local[w] \in AnyLocal
           /\ CountersOK(emitted, stop, next_group)
           /\ emitted \in Nat /\ next_group \in Nat \ {0} /\ q.limit \in Nat /\ Len(groups) \in Nat /\ q \in Queries
<1>1. /\ ThreadsOK(pc, local) /\ PlacesOK(pc, local, emitted, next_group) /\ CountersOK(emitted, stop, next_group)
      /\ pc \in [Workers -> RunPlaces] /\ local \in [Workers -> AnyLocal]
  BY DEF Run, Running
<1>2. q \in Queries /\ Disjoint(tasks)
  BY DEF PlanInv, IsPlan
<1>3. Len(groups) \in Nat /\ q.limit \in Nat
  BY <1>2, GroupFacts, QueryFacts DEF PlanDone
<1>4. emitted \in Nat /\ next_group \in Nat \ {0}
  BY <1>1 DEF CountersOK
<1>5. QED BY <1>1, <1>2, <1>3, <1>4 DEF ThreadsOK, PlacesOK

\* A thread stays where it is in its task, and no row in hand is dropped.
LEMMA Stays ==
    ASSUME NEW l, NEW p, NEW p2, LocalOK(l, p), BufferOK(l, p), p2 # "reserve"
    PROVE  /\ MovesOn(l, p, l, p2)
           /\ p # "reserve" => \A r : KeepsRow(l, p, l, p2, r)
<1>1. l \in AnyLocal /\ l.out \in 0 .. VectorSize /\ l.seen \in Nat
  BY VectorFacts DEF LocalOK, AnyLocal
<1>2. [l EXCEPT !.out = l.out, !.seen = l.seen] = l
  BY <1>1 DEF AnyLocal
<1>3. \A r : p # "reserve" => ~InHand(l, p, r)
  BY DEF InHand
<1>4. MovesOn(l, p, [l EXCEPT !.out = l.out, !.seen = l.seen], p2)
      /\ \A r : p2 = "reserve" \/ ~InHand(l, p, r) => KeepsRow(l, p, [l EXCEPT !.out = l.out, !.seen = l.seen], p2, r)
  BY <1>1, Carries
<1>5. QED BY <1>2, <1>3, <1>4

LEMMA ScanMoves ==
    ASSUME PlanInv, PlanDone, Run, NEW w \in Workers, pc[w] = "scan", NEW z,
           MovesOn(local[w], "scan", z, "scan"), z.seen = local[w].seen,
           Keeps(local[w], "scan", z, "scan", emitted),
           local' = [local EXCEPT ![w] = z], UNCHANGED <<sharedVars, pc, rows>>
    PROVE  Running(pc', local', rows', emitted', stop', next_group')
<1>1. /\ PlaceOK(w, local[w], pc[w], emitted, next_group)
      /\ pc \in [Workers -> RunPlaces] /\ local \in [Workers -> AnyLocal]
      /\ CountersOK(emitted, stop, next_group)
  BY WorkerFacts
<1>2. LocalOK(z, "scan") /\ z \in AnyLocal
  BY DEF MovesOn, LocalOK
<1>3. PlaceOK(w, z, "scan", emitted, next_group)
  BY <1>1, <1>2 DEF PlaceOK
<1>4. local' \in [Workers -> AnyLocal] /\ Only(local, local', w, z)
  BY <1>1, <1>2, Updated
<1>5. Only(pc, pc, w, "scan") /\ Run
  BY DEF Only
<1>6. Running(pc, local', rows, emitted, stop, next_group)
  <2>1. Running(pc, local, rows, emitted, stop, next_group)
    BY DEF Run
  <2>2. MovesOn(local[w], pc[w], z, "scan") /\ Keeps(local[w], pc[w], z, "scan", emitted)
    OBVIOUS
  <2>3. QED BY <1>1, <1>3, <1>4, <1>5, <2>1, <2>2, RunMoves
<1>7. QED BY <1>6 DEF sharedVars

LEMMA RunStart ==
    ASSUME PlanInv, PlanDone, Run, NEW w \in Workers, Start(w)
    PROVE  Running(pc', local', rows', emitted', stop', next_group')
<1> DEFINE p2 == IF q.count THEN "count" ELSE "scan"
<1>1. /\ pc[w] = "start" /\ w \in Threads /\ pc' = [pc EXCEPT ![w] = p2] /\ local' = local /\ rows' = rows
      /\ emitted' = emitted /\ stop' = stop /\ next_group' = next_group
  BY DEF Start, sharedVars
<1>2. /\ LocalOK(local[w], "start") /\ BufferOK(local[w], "start")
      /\ PlaceOK(w, local[w], "start", emitted, next_group)
      /\ pc \in [Workers -> RunPlaces] /\ local \in [Workers -> AnyLocal] /\ CountersOK(emitted, stop, next_group)
  BY <1>1, WorkerFacts
<1>3. p2 \in RunPlaces /\ p2 # "reserve"
  BY DEF RunPlaces, Places
<1>4. PlaceOK(w, local[w], p2, emitted, next_group)
  BY <1>1, <1>2 DEF PlaceOK, RunPlaces, Places
<1> HIDE DEF p2
<1>5. MovesOn(local[w], pc[w], local[w], p2) /\ Keeps(local[w], pc[w], local[w], p2, emitted)
  BY <1>1, <1>2, <1>3, Stays DEF Keeps
<1>6. pc' \in [Workers -> RunPlaces] /\ Only(pc, pc', w, p2)
  BY <1>1, <1>2, <1>3, Updated
<1>7. Only(local, local, w, local[w])
  BY DEF Only
<1>8. Running(pc', local, rows, emitted, stop, next_group)
  <2>1. Running(pc, local, rows, emitted, stop, next_group)
    BY DEF Run
  <2>2. QED BY <1>2, <1>4, <1>5, <1>6, <1>7, <2>1, RunMoves
<1>9. QED BY <1>1, <1>8

LEMMA RunClaimGroup ==
    ASSUME PlanInv, PlanDone, Run, NEW w \in Workers, ClaimGroup(w)
    PROVE  Running(pc', local', rows', emitted', stop', next_group')
<1>1. /\ pc[w] = "scan" /\ ~local[w].has /\ local[w].next > local[w].last /\ next_group' = next_group + 1
      /\ emitted' = emitted /\ stop' = stop /\ rows' = rows
  BY DEF ClaimGroup, Scanning
<1>2. /\ LocalOK(local[w], "scan") /\ BufferOK(local[w], "scan")
      /\ PlaceOK(w, local[w], "scan", emitted, next_group)
      /\ pc \in [Workers -> RunPlaces] /\ local \in [Workers -> AnyLocal] /\ CountersOK(emitted, stop, next_group)
      /\ next_group \in Nat \ {0} /\ Len(groups) \in Nat /\ local[w] \in AnyLocal
  BY <1>1, WorkerFacts
<1>3. Running(pc, local, rows, emitted, stop, next_group) /\ groups = FileTaskGroups(tasks)
  BY DEF Run, PlanDone
<1>4. CASE next_group > Len(groups)
  <2> DEFINE g == next_group + 1
  <2>1. pc' = [pc EXCEPT ![w] = "return"] /\ local' = local
    BY <1>4 DEF ClaimGroup
  <2>2. Running(pc, local, rows, emitted, stop, g)
    BY <1>3, <1>4, RunExhausts
  <2>3. CountersOK(emitted, stop, g) /\ PlaceOK(w, local[w], "scan", emitted, g)
    BY <1>1, <2>2 DEF Running, PlacesOK
  <2>4. g > Len(groups)
    BY <1>2, <1>4
  <2> HIDE DEF g
  <2>5. PlaceOK(w, local[w], "return", emitted, g)
    BY <1>1, <2>3, <2>4 DEF PlaceOK, RunPlaces, Places
  <2>6. MovesOn(local[w], pc[w], local[w], "return") /\ Keeps(local[w], pc[w], local[w], "return", emitted)
    BY <1>1, <1>2, Stays DEF Keeps
  <2>7. "return" \in RunPlaces
    BY DEF RunPlaces, Places
  <2>8. pc' \in [Workers -> RunPlaces] /\ Only(pc, pc', w, "return")
    BY <1>2, <2>1, <2>7, Updated
  <2>9. Only(local, local, w, local[w])
    BY DEF Only
  <2>10. Running(pc', local, rows, emitted, stop, g)
    BY <1>2, <2>2, <2>3, <2>5, <2>6, <2>8, <2>9, RunMoves
  <2>11. QED BY <1>1, <2>1, <2>10 DEF g
<1>5. CASE ~ (next_group > Len(groups))
  <2> DEFINE a == groups[next_group][1]
             b == groups[next_group][2]
  <2>1. pc' = pc /\ local' = [local EXCEPT ![w].next = a, ![w].last = b]
    BY <1>5 DEF ClaimGroup
  <2>2. next_group <= Len(groups) /\ next_group \in DOMAIN groups
    <3>1. DOMAIN groups = 1 .. Len(groups)
      BY <1>3, GroupFacts DEF PlanInv, IsPlan
    <3>2. QED BY <1>2, <1>5, <3>1
  <2>3. a \in 1 .. Len(tasks) /\ b \in 1 .. Len(tasks) /\ a <= b
    BY <1>3, <2>2, GroupFacts DEF PlanInv, IsPlan
  <2>4. local' = [local EXCEPT ![w] = Grouping(local[w], a, b)]
    BY <1>2, <2>1 DEF Grouping
  <2>5. Grouping(local[w], a, b) \in AnyLocal
    <3>1. ~q.count
      BY <1>2 DEF PlaceOK
    <3>2. LocalOK(Grouping(local[w], a, b), "scan")
      BY <1>1, <1>2, <2>3, <3>1, ClaimGroupThread
    <3>3. QED BY <3>2 DEF LocalOK
  <2>6. local' \in [Workers -> AnyLocal] /\ Only(local, local', w, Grouping(local[w], a, b))
    BY <1>2, <2>4, <2>5, Updated
  <2>7. Running(pc, local', rows, emitted, stop, next_group + 1)
    BY <1>1, <1>3, <2>2, <2>6, RunClaims
  <2>8. QED BY <1>1, <2>1, <2>7
<1>6. QED BY <1>4, <1>5

LEMMA ScanningFacts ==
    ASSUME PlanInv, PlanDone, Run, NEW w \in Workers, Scanning(w)
    PROVE  /\ pc[w] = "scan" /\ local[w].out < VectorSize /\ local[w] \in AnyLocal
           /\ LocalOK(local[w], "scan") /\ BufferOK(local[w], "scan") /\ q \in Queries
BY WorkerFacts DEF Scanning

LEMMA ClaimedSeen ==
    ASSUME NEW l \in AnyLocal, NEW t, NEW v
    PROVE  Claimed(l, t, v).seen = l.seen
BY DEF Claimed, AnyLocal

LEMMA RunClaimTask ==
    ASSUME PlanInv, PlanDone, Run, NEW w \in Workers, ClaimTask(w)
    PROVE  Running(pc', local', rows', emitted', stop', next_group')
<1> DEFINE l == local[w]
           t == ClippedTask(tasks[l.next])
           v == IF q.typed THEN l.vals ELSE <<>>
           z == Claimed(l, t, v)
<1>1. /\ Scanning(w) /\ ~l.has /\ l.next <= l.last /\ UNCHANGED <<sharedVars, pc, rows>>
  BY DEF ClaimTask
<1>2. /\ local' = [local EXCEPT ![w] =
            IF t.begin >= t.end THEN [l EXCEPT !.next = l.next + 1]
            ELSE [l EXCEPT !.next = l.next + 1, !.has = TRUE, !.task = t, !.entry = t.begin,
                           !.vals = ClearedBuffer(w), !.offset = 0]]
  BY DEF ClaimTask
<1>3. ClearedBuffer(w) = v
  BY DEF ClearedBuffer
<1>4. /\ LocalOK(l, "scan") /\ BufferOK(l, "scan") /\ pc[w] = "scan" /\ l \in AnyLocal
      /\ local \in [Workers -> AnyLocal]
  BY <1>1, ScanningFacts, WorkerFacts
<1>5. v = IF q.typed THEN l.vals ELSE <<>>
  OBVIOUS
<1>6. t = ClippedTask(tasks[l.next])
  OBVIOUS
<1>7. l = local[w] /\ z = Claimed(l, t, v)
  OBVIOUS
<1> HIDE DEF l, t, v, z
<1>8. local' = [local EXCEPT ![w] = z]
  BY <1>2, <1>3, <1>7 DEF Claimed
<1>9. /\ MovesOn(l, "scan", z, "scan")
      /\ Ordinary => \A r \in Matching : KeepsRow(l, "scan", z, "scan", r)
  BY <1>1, <1>4, <1>5, <1>6, <1>7, ClaimTaskThread
<1>10. z.seen = l.seen
  BY <1>4, <1>7, ClaimedSeen
<1>11. QED
  BY <1>1, <1>4, <1>7, <1>8, <1>9, <1>10, ScanMoves DEF Keeps

LEMMA RunNextPage ==
    ASSUME PlanInv, PlanDone, Run, NEW w \in Workers, NextPage(w)
    PROVE  Running(pc', local', rows', emitted', stop', next_group')
<1> DEFINE l == local[w]
           s == l.rest
           n == Min({VectorSize, Len(s)})
           a == SubSeq(s, 1, n)
           b == SubSeq(s, n + 1, Len(s))
           o == n = VectorSize /\ l.open
           z == Loading(l, l.entry, l.from, l.at, a, b, o)
<1>1. /\ Scanning(w) /\ l.has /\ l.offset >= Len(l.vals) /\ l.open /\ UNCHANGED <<sharedVars, pc, rows>>
      /\ local' = [local EXCEPT ![w].vals = a, ![w].rest = b, ![w].offset = 0,
                                ![w].open = n = VectorSize /\ @]
  BY DEF NextPage, Empty
<1>2. /\ LocalOK(l, "scan") /\ BufferOK(l, "scan") /\ pc[w] = "scan" /\ l \in AnyLocal
      /\ local \in [Workers -> AnyLocal]
  BY <1>1, ScanningFacts, WorkerFacts
<1>3. s \in Seq(Item) /\ l.entry \in Nat /\ l.from \in Nat /\ l.at \in Nat
  BY <1>2 DEF AnyLocal
<1>4. n \in 0 .. Len(s) /\ n \in Nat /\ n <= Len(s) /\ (n # VectorSize => n = Len(s))
  <2>1. Len(s) \in Nat
    BY <1>3
  <2>2. n = IF VectorSize <= Len(s) THEN VectorSize ELSE Len(s)
    BY <2>1, VectorFacts, MinOfTwo
  <2>3. QED BY <2>1, <2>2, VectorFacts
<1>5. o \in BOOLEAN /\ (~o => n = Len(s))
  BY <1>1, <1>4
<1>6. Split(s, n, a, b)
  BY <1>3, <1>4, SplitFacts
<1>7. a \in Seq(Item) /\ b \in Seq(Item)
  BY <1>6 DEF Split
<1>8. s = l.rest /\ l = local[w] /\ z = Loading(l, l.entry, l.from, l.at, a, b, o)
  OBVIOUS
<1>9. local' = [local EXCEPT ![w] = z]
  <2>1. z = [l EXCEPT !.vals = a, !.rest = b, !.offset = 0, !.open = o]
    <3>1. l.entry = l.entry /\ l \in AnyLocal
      BY <1>2
    <3> HIDE DEF l, s, n, a, b, o, z
    <3>2. QED BY <1>8, <3>1 DEF Loading, AnyLocal
  <2>2. local' = [local EXCEPT ![w] = [l EXCEPT !.vals = a, !.rest = b, !.offset = 0, !.open = o]]
    <3> HIDE DEF a, b, n
    <3>1. QED BY <1>1, <1>2
  <2>3. QED BY <2>1, <2>2
<1> HIDE DEF l, s, n, a, b, o, z
<1>10. Loaded(l, l.entry, l.from, l.at, a, b, o, z)
  BY <1>2, <1>3, <1>5, <1>7, <1>8, LoadedFacts
<1>11. /\ MovesOn(l, "scan", z, "scan")
       /\ \A r : KeepsRow(l, "scan", z, "scan", r)
  BY <1>1, <1>2, <1>4, <1>5, <1>6, <1>8, <1>10, NextPageThread
<1>12. z.seen = l.seen
  BY <1>10 DEF Loaded
<1>13. Keeps(l, "scan", z, "scan", emitted)
  BY ONLY <1>11 DEF Keeps
<1>14. QED
  <2>1. /\ MovesOn(local[w], "scan", z, "scan") /\ z.seen = local[w].seen
        /\ Keeps(local[w], "scan", z, "scan", emitted)
    BY ONLY <1>8, <1>11, <1>12, <1>13
  <2>2. pc[w] = "scan" /\ local' = [local EXCEPT ![w] = z] /\ UNCHANGED <<sharedVars, pc, rows>>
    BY ONLY <1>1, <1>2, <1>9
  <2>3. QED BY ONLY PlanInv, PlanDone, Run, w \in Workers, <2>1, <2>2, ScanMoves

LEMMA RunSkipEntry ==
    ASSUME PlanInv, PlanDone, Run, NEW w \in Workers, SkipEntry(w)
    PROVE  Running(pc', local', rows', emitted', stop', next_group')
<1> DEFINE l == local[w]
           z == Skipping(l)
<1>1. /\ Scanning(w) /\ l.has /\ l.offset >= Len(l.vals) /\ ~l.open /\ l.entry < l.task.end
      /\ ~ (PassesDatasetEntryFilters(l.task.file, l.entry) /\ PassesPathPredicates(l.task.file, l.entry))
      /\ UNCHANGED <<sharedVars, pc, rows>>
      /\ local' = [local EXCEPT ![w].entry = @ + 1]
  BY DEF SkipEntry, AtEntry, Empty, Wanted, After
<1>2. /\ LocalOK(l, "scan") /\ BufferOK(l, "scan") /\ pc[w] = "scan" /\ l \in AnyLocal
      /\ local \in [Workers -> AnyLocal]
  BY <1>1, ScanningFacts, WorkerFacts
<1>3. local' = [local EXCEPT ![w] = z]
  BY <1>1, <1>2 DEF Skipping
<1>4. Skipped(l, z)
  BY <1>2, SkippedFacts
<1>5. l = local[w]
  OBVIOUS
<1> HIDE DEF l, z
<1>6. /\ MovesOn(l, "scan", z, "scan")
      /\ Ordinary => \A r \in Matching : KeepsRow(l, "scan", z, "scan", r)
  BY <1>1, <1>2, <1>4, SkipEntryThread
<1>7. z.seen = l.seen
  BY <1>4 DEF Skipped
<1>8. QED
  BY <1>1, <1>2, <1>3, <1>5, <1>6, <1>7, ScanMoves DEF Keeps

LEMMA RunEndTask ==
    ASSUME PlanInv, PlanDone, Run, NEW w \in Workers, EndTask(w)
    PROVE  Running(pc', local', rows', emitted', stop', next_group')
<1> DEFINE l == local[w]
           z == Ending(l)
<1>1. /\ Scanning(w) /\ l.has /\ l.offset >= Len(l.vals) /\ ~l.open /\ l.entry = l.task.end
      /\ UNCHANGED <<sharedVars, pc, rows>>
      /\ local' = [local EXCEPT ![w].has = FALSE]
  BY DEF EndTask, Empty
<1>2. /\ LocalOK(l, "scan") /\ BufferOK(l, "scan") /\ pc[w] = "scan" /\ l \in AnyLocal
      /\ local \in [Workers -> AnyLocal]
  BY <1>1, ScanningFacts, WorkerFacts
<1>3. local' = [local EXCEPT ![w] = z]
  BY <1>1, <1>2 DEF Ending
<1>4. Ended(l, z)
  BY <1>2, EndedFacts
<1>5. l = local[w]
  OBVIOUS
<1> HIDE DEF l, z
<1>6. /\ MovesOn(l, "scan", z, "scan")
      /\ Ordinary => \A r \in Matching : KeepsRow(l, "scan", z, "scan", r)
  BY <1>1, <1>2, <1>4, EndTaskThread
<1>7. z.seen = l.seen
  BY <1>4 DEF Ended
<1>8. QED
  BY <1>1, <1>2, <1>3, <1>5, <1>6, <1>7, ScanMoves DEF Keeps

LEMMA RunBeginEntry ==
    ASSUME PlanInv, PlanDone, Run, NEW w \in Workers, BeginEntry(w)
    PROVE  Running(pc', local', rows', emitted', stop', next_group')
<1> DEFINE l == local[w]
           f == l.task.file
           e == l.entry
           V == Flat(q.files[f].target, e)
           n == Min({VectorSize, Len(V)})
<1>1. /\ Scanning(w) /\ l.has /\ l.offset >= Len(l.vals) /\ ~l.open /\ e < l.task.end
      /\ PassesDatasetEntryFilters(f, e) /\ PassesPathPredicates(f, e)
      /\ UNCHANGED <<sharedVars, pc, rows>>
  BY DEF BeginEntry, AtEntry, Empty, Wanted
<1>2. PICK route \in {"values", "serialized", "object"} :
        local' = [local EXCEPT ![w].entry = @ + 1, ![w].offset = 0,
                ![w].at = local[w].entry, ![w].from = local[w].task.file,
                ![w].vals = IF route = "values" THEN V ELSE SubSeq(V, 1, n),
                ![w].rest = IF route = "values" THEN <<>> ELSE SubSeq(V, n + 1, Len(V)),
                ![w].open = \/ route = "serialized" /\ n < Len(V)
                            \/ route = "object" /\ n = VectorSize]
  BY DEF BeginEntry
<1> DEFINE v == IF route = "values" THEN V ELSE SubSeq(V, 1, n)
           s == IF route = "values" THEN <<>> ELSE SubSeq(V, n + 1, Len(V))
           o == (route = "serialized" /\ n < Len(V)) \/ (route = "object" /\ n = VectorSize)
           m == IF route = "values" THEN Len(V) ELSE n
           z == Loading(l, e + 1, f, e, v, s, o)
<1>3. /\ LocalOK(l, "scan") /\ BufferOK(l, "scan") /\ pc[w] = "scan" /\ l \in AnyLocal
      /\ local \in [Workers -> AnyLocal] /\ q \in Queries
  BY <1>1, ScanningFacts, WorkerFacts
<1>4. e \in Entries(f) /\ f \in DOMAIN q.files /\ e \in Nat /\ f \in Nat /\ e + 1 \in Nat
  <2>1. /\ l.task.begin \in Nat /\ l.task.end \in Nat /\ e \in Nat /\ f \in DOMAIN q.files
        /\ \A x : x \in Inside(l.task) => x \in Entries(f)
    BY <1>1, <1>3, HandFacts
  <2>2. l.task.begin <= e
    BY <1>1, <1>3 DEF LocalOK
  <2>3. e \in Inside(l.task)
    BY <1>1, <2>1, <2>2 DEF Inside
  <2>4. f \in Nat
    BY <1>3, <2>1, QueryFacts
  <2>5. QED BY <2>1, <2>3, <2>4
<1>5. V \in Seq(Item) /\ Len(V) = Size(f, e) /\ Len(V) \in Nat
  BY <1>3, <1>4, EntryFacts
<1>6. n \in 0 .. Len(V) /\ (n # VectorSize => n = Len(V))
  <2>1. n = IF VectorSize <= Len(V) THEN VectorSize ELSE Len(V)
    BY <1>5, VectorFacts, MinOfTwo
  <2>2. QED BY <1>5, <2>1, VectorFacts
<1>7. Split(V, m, v, s)
  <2>1. CASE route = "values"
    BY <1>5, <2>1, WholeFacts
  <2>2. CASE route # "values"
    BY <1>5, <1>6, <2>2, SplitFacts
  <2>3. QED BY <2>1, <2>2
<1>8. m \in Nat /\ m <= Size(f, e) /\ o \in BOOLEAN /\ (~o => m = Size(f, e))
  <2>1. n \in Nat /\ n <= Len(V) /\ Len(V) <= Len(V)
    BY <1>5, <1>6
  <2>2. n < Len(V) \/ n = Len(V)
    BY <1>5, <2>1
  <2>3. QED BY <1>2, <1>5, <1>6, <2>1, <2>2
<1>9. v \in Seq(Item) /\ s \in Seq(Item)
  BY <1>7 DEF Split
<1>10. local' = [local EXCEPT ![w] = z]
  <2>1. local' = [local EXCEPT ![w] = [l EXCEPT !.entry = e + 1, !.offset = 0, !.at = e, !.from = f,
                                                !.vals = v, !.rest = s, !.open = o]]
    <3> HIDE DEF V, n
    <3>1. QED BY ONLY <1>2, <1>3
  <2>2. z = [l EXCEPT !.entry = e + 1, !.offset = 0, !.at = e, !.from = f,
                      !.vals = v, !.rest = s, !.open = o]
    <3> HIDE DEF l, f, e, v, s, o
    <3>1. QED BY <1>3 DEF Loading, AnyLocal
  <2>3. QED BY <2>1, <2>2
<1>11. l = local[w] /\ f = l.task.file /\ e = l.entry /\ V = Flat(q.files[l.task.file].target, l.entry)
  OBVIOUS
<1>12. z = Loading(l, e + 1, f, e, v, s, o)
  OBVIOUS
<1> HIDE DEF v, s, o, m, z, n, V
<1>13. Loaded(l, e + 1, f, e, v, s, o, z)
  BY <1>3, <1>4, <1>8, <1>9, <1>12, LoadedFacts
<1>14. Split(Flat(q.files[l.task.file].target, l.entry), m, v, s)
  BY <1>7, <1>11
<1>15. /\ MovesOn(l, "scan", z, "scan")
       /\ \A r \in AllRows : KeepsRow(l, "scan", z, "scan", r)
  BY <1>1, <1>3, <1>8, <1>13, <1>14, BeginEntryThread
<1>16. z.seen = l.seen
  BY <1>13 DEF Loaded
<1>17. Keeps(l, "scan", z, "scan", emitted)
  BY <1>3, <1>15, MatchingFacts DEF Keeps
<1> HIDE DEF l
<1>18. QED
  BY <1>1, <1>3, <1>10, <1>11, <1>15, <1>16, <1>17, ScanMoves

LEMMA RunTakeValue ==
    ASSUME PlanInv, PlanDone, Run, NEW w \in Workers, TakeValue(w)
    PROVE  Running(pc', local', rows', emitted', stop', next_group')
<1> DEFINE l == local[w]
           s == IF Limited THEN emitted ELSE 0
           z == Taking1(l, s)
           x == l.vals[l.offset + 1].value
           p2 == IF ~Passes(q.value, x) THEN "scan" ELSE IF stop THEN "return" ELSE "reserve"
<1>1. /\ Scanning(w) /\ l.has /\ ~ (l.offset >= Len(l.vals)) /\ UNCHANGED <<sharedVars, rows>>
      /\ local' = [local EXCEPT ![w].offset = @ + 1, ![w].seen = s]
      /\ pc' = [pc EXCEPT ![w] = p2]
  BY DEF TakeValue, Empty
<1>2. /\ LocalOK(l, "scan") /\ BufferOK(l, "scan") /\ pc[w] = "scan" /\ l \in AnyLocal /\ l.out < VectorSize
      /\ local \in [Workers -> AnyLocal] /\ pc \in [Workers -> RunPlaces] /\ emitted \in Nat
      /\ PlaceOK(w, l, "scan", emitted, next_group) /\ CountersOK(emitted, stop, next_group)
  BY <1>1, ScanningFacts, WorkerFacts
<1>3. local' = [local EXCEPT ![w] = z]
  BY <1>1, <1>2 DEF Taking1
<1>4. s \in Nat /\ s <= emitted
  BY <1>2
<1>5. TookValue(l, z) /\ z.seen = s
  BY <1>2, <1>4, TookValueFacts
<1>6. p2 \in {"scan", "return", "reserve"} /\ p2 \in RunPlaces
  BY DEF RunPlaces, Places
<1>7. l.offset < Len(l.vals)
  BY <1>1, <1>2 DEF AnyLocal
<1>8. l = local[w] /\ x = l.vals[l.offset + 1].value
  OBVIOUS
<1>9. /\ p2 = "scan" => ~Passes(q.value, x)
      /\ p2 = "reserve" => Passes(q.value, x)
      /\ p2 = "return" => Limited /\ emitted >= q.limit
  BY <1>2 DEF CountersOK
<1> HIDE DEF l, s, z, x, p2
<1>10. /\ MovesOn(l, "scan", z, p2)
       /\ RowAt(z) \in AllRows /\ RowAt(z).value = x
       /\ \A r : /\ Ordinary /\ r \in Matching /\ p2 # "return"
                 /\ p2 = "scan" => ~Passes(q.value, x)
                 => KeepsRow(l, "scan", z, p2, r)
  BY ONLY PlanInv, <1>1, <1>2, <1>5, <1>6, <1>7, <1>8, TakeValueThread
<1>11. z \in AnyLocal
  BY <1>5 DEF TookValue
<1>12. PlaceOK(w, z, p2, emitted, next_group)
  BY <1>2, <1>4, <1>5, <1>6, <1>9, <1>10, <1>11 DEF PlaceOK
<1>13. Keeps(l, "scan", z, p2, emitted)
  BY <1>9, <1>10 DEF Keeps
<1>14. local' \in [Workers -> AnyLocal] /\ Only(local, local', w, z)
  BY <1>2, <1>3, <1>11, Updated
<1>15. pc' \in [Workers -> RunPlaces] /\ Only(pc, pc', w, p2)
  BY <1>1, <1>2, <1>6, Updated
<1>16. Running(pc', local', rows, emitted, stop, next_group)
  <2>1. Running(pc, local, rows, emitted, stop, next_group)
    BY DEF Run
  <2>2. MovesOn(local[w], pc[w], z, p2) /\ Keeps(local[w], pc[w], z, p2, emitted)
    BY <1>2, <1>8, <1>10, <1>13
  <2>3. QED BY <1>2, <1>12, <1>14, <1>15, <2>1, <2>2, RunMoves
<1>17. QED BY <1>1, <1>16 DEF sharedVars

LEMMA EmitFacts ==
    ASSUME NEW w \in Workers, local \in [Workers -> AnyLocal], Emit(w)
    PROVE  /\ rows' = Counted(rows, RowAt(local[w]))
           /\ local' = [local EXCEPT ![w] = Outing(local[w], local[w].out + 1, local[w].seen)]
<1>1. local[w] \in AnyLocal
  OBVIOUS
<1>2. [local[w] EXCEPT !.out = local[w].out + 1] = Outing(local[w], local[w].out + 1, local[w].seen)
  BY <1>1 DEF Outing, AnyLocal
<1>3. local' = [local EXCEPT ![w] = [local[w] EXCEPT !.out = local[w].out + 1]]
  BY DEF Emit
<1>4. CurrentRow(w) = RowAt(local[w])
  BY DEF CurrentRow, RowAt
<1>5. rows' = Counted(rows, RowAt(local[w]))
  BY <1>4 DEF Emit, Counted
<1>6. QED BY <1>2, <1>3, <1>5

LEMMA EmitMoves ==
    ASSUME PlanInv, PlanDone, Run, NEW w \in Workers, pc[w] = "reserve", Emit(w),
           NEW p2, p2 \in {"scan", "stop"}, pc' = [pc EXCEPT ![w] = p2],
           emitted' = emitted + 1, Limited => emitted + 1 <= q.limit,
           p2 = "stop" => Limited /\ emitted + 1 >= q.limit, UNCHANGED <<next_group, stop>>
    PROVE  Running(pc', local', rows', emitted', stop', next_group')
<1> DEFINE z == Granted(local[w])
<1>1. /\ pc \in [Workers -> RunPlaces] /\ local \in [Workers -> AnyLocal] /\ local[w] \in AnyLocal
      /\ emitted \in Nat /\ Len(groups) \in Nat
  BY WorkerFacts
<1>2. rows' = Counted(rows, RowAt(local[w])) /\ local' = [local EXCEPT ![w] = z]
  BY <1>1, EmitFacts DEF Granted
<1>3. z \in AnyLocal
  <2>1. local[w].out + 1 \in Nat /\ local[w].seen \in Nat
    BY <1>1 DEF AnyLocal
  <2>2. QED BY <1>1, <2>1, OutingFacts DEF Outed, Granted
<1> HIDE DEF z
<1>4. local' \in [Workers -> AnyLocal] /\ Only(local, local', w, z)
  BY <1>1, <1>2, <1>3, Updated
<1>5. p2 \in RunPlaces
  BY DEF RunPlaces, Places
<1>6. pc' \in [Workers -> RunPlaces] /\ Only(pc, pc', w, p2)
  BY <1>1, <1>5, Updated
<1>7. Only(local, local', w, Granted(local[w]))
  BY <1>4 DEF z
<1>8. Running(pc, local, rows, emitted, stop, next_group)
  BY DEF Run
<1>9. Running(pc', local', rows', emitted', stop, next_group)
  <2>1. rows' = Counted(rows, RowAt(local[w])) /\ local' \in [Workers -> AnyLocal] /\ Len(groups) \in Nat
    BY <1>1, <1>2, <1>4
  <2>2. /\ emitted' = emitted + 1 /\ (Limited => emitted' <= q.limit)
        /\ p2 = "stop" => Limited /\ emitted' >= q.limit
    OBVIOUS
  <2>3. Grants(pc, local, rows, emitted, w, pc', local', rows', emitted', p2)
    BY <1>6, <1>7, <2>1, <2>2 DEF Grants
  <2>4. QED BY <1>8, <2>1, <2>3, RunGrants
<1>10. QED BY <1>9

LEMMA RunReserveUnlimited ==
    ASSUME PlanInv, PlanDone, Run, NEW w \in Workers, ReserveUnlimited(w)
    PROVE  Running(pc', local', rows', emitted', stop', next_group')
<1>1. /\ pc[w] = "reserve" /\ ~Limited /\ Emit(w) /\ emitted' = emitted + 1
      /\ pc' = [pc EXCEPT ![w] = "scan"] /\ UNCHANGED <<next_group, stop>>
  BY DEF ReserveUnlimited
<1>2. QED BY <1>1, EmitMoves

LEMMA RunReserve ==
    ASSUME PlanInv, PlanDone, Run, NEW w \in Workers, Reserve(w)
    PROVE  Running(pc', local', rows', emitted', stop', next_group')
<1>1. /\ pc[w] = "reserve" /\ Limited /\ local[w].seen < q.limit
      /\ next_group' = next_group /\ stop' = stop
  BY DEF Reserve
<1>2. /\ LocalOK(local[w], "reserve") /\ BufferOK(local[w], "reserve") /\ local[w] \in AnyLocal
      /\ PlaceOK(w, local[w], "reserve", emitted, next_group)
      /\ pc \in [Workers -> RunPlaces] /\ local \in [Workers -> AnyLocal]
      /\ CountersOK(emitted, stop, next_group) /\ emitted \in Nat /\ q.limit \in Nat
  BY <1>1, WorkerFacts
<1>3. CASE CompareExchange(w)
  <2> DEFINE p2 == IF local[w].seen + 1 >= q.limit THEN "stop" ELSE "scan"
  <2>1. emitted' = local[w].seen + 1 /\ Emit(w) /\ pc' = [pc EXCEPT ![w] = p2]
    BY <1>3 DEF Reserve
  <2>2. emitted = local[w].seen
    BY <1>3 DEF CompareExchange
  <2>3. p2 \in {"scan", "stop"} /\ (p2 = "stop" => emitted + 1 >= q.limit)
    BY <2>2
  <2>4. emitted' = emitted + 1 /\ emitted + 1 <= q.limit
    BY <1>1, <1>2, <2>1, <2>2
  <2> HIDE DEF p2
  <2>5. QED BY <1>1, <2>1, <2>3, <2>4, EmitMoves
<1>4. CASE ~CompareExchange(w)
  <2> DEFINE z == Outing(local[w], local[w].out, emitted)
  <2>1. /\ local' = [local EXCEPT ![w].seen = emitted] /\ emitted' = emitted /\ pc' = pc /\ rows' = rows
    BY <1>4 DEF Reserve
  <2>2. [local[w] EXCEPT !.seen = emitted] = z
    BY <1>2 DEF Outing, AnyLocal
  <2>3. local' = [local EXCEPT ![w] = [local[w] EXCEPT !.seen = emitted]]
    BY <2>1
  <2>4. local' = [local EXCEPT ![w] = z]
    BY <2>2, <2>3
  <2>5. local[w].out \in Nat /\ local[w].out \in 0 .. VectorSize /\ local[w].out < VectorSize
    BY <1>2, VectorFacts DEF LocalOK, AnyLocal
  <2>6. /\ MovesOn(local[w], "reserve", z, "reserve")
        /\ \A r : KeepsRow(local[w], "reserve", z, "reserve", r)
    BY <1>2, <2>5, Carries DEF Outing
  <2>7. Outed(local[w], local[w].out, emitted, z)
    BY <1>2, <2>5, OutingFacts
  <2> HIDE DEF z
  <2>8. z \in AnyLocal /\ z.seen = emitted /\ RowAt(z) = RowAt(local[w])
    BY <2>7 DEF Outed
  <2>9. PlaceOK(w, z, "reserve", emitted, next_group)
    BY <1>2, <2>8 DEF PlaceOK
  <2>10. local' \in [Workers -> AnyLocal] /\ Only(local, local', w, z)
    BY <1>2, <2>4, <2>8, Updated
  <2>11. Only(pc, pc, w, "reserve")
    BY <1>1 DEF Only
  <2>12. Running(pc, local, rows, emitted, stop, next_group)
    BY DEF Run
  <2>13. MovesOn(local[w], pc[w], z, "reserve") /\ Keeps(local[w], pc[w], z, "reserve", emitted)
    BY <1>1, <2>6 DEF Keeps
  <2>14. Running(pc, local', rows, emitted, stop, next_group)
    BY <1>2, <2>9, <2>10, <2>11, <2>12, <2>13, RunMoves
  <2>15. QED BY <1>1, <2>1, <2>14
<1>5. QED BY <1>3, <1>4

LEMMA RunRequestStop ==
    ASSUME PlanInv, PlanDone, Run, NEW w \in Workers, RequestStop(w)
    PROVE  Running(pc', local', rows', emitted', stop', next_group')
<1> DEFINE p2 == IF pc[w] = "stop" THEN "scan" ELSE "return"
<1>1. /\ pc[w] = "stop" \/ (pc[w] = "reserve" /\ Limited /\ local[w].seen >= q.limit)
      /\ stop' = TRUE /\ local' = local /\ rows' = rows /\ emitted' = emitted /\ next_group' = next_group
  BY DEF RequestStop
<1>2. pc' = [pc EXCEPT ![w] = p2]
  BY DEF RequestStop
<1>3. /\ LocalOK(local[w], pc[w]) /\ BufferOK(local[w], pc[w]) /\ local[w] \in AnyLocal
      /\ PlaceOK(w, local[w], pc[w], emitted, next_group)
      /\ pc \in [Workers -> RunPlaces] /\ local \in [Workers -> AnyLocal]
      /\ CountersOK(emitted, stop, next_group) /\ emitted \in Nat /\ q.limit \in Nat
  BY WorkerFacts
<1>4. Limited /\ emitted >= q.limit
  <2>1. CASE pc[w] = "stop"
    BY <1>3, <2>1 DEF PlaceOK
  <2>2. CASE pc[w] = "reserve" /\ Limited /\ local[w].seen >= q.limit
    <3>1. local[w].seen \in Nat /\ local[w].seen <= emitted
      BY <1>3 DEF PlaceOK, AnyLocal
    <3>2. QED BY <1>3, <2>2, <3>1
  <2>3. QED BY <1>1, <2>1, <2>2
<1>5. p2 \in RunPlaces /\ p2 # "reserve" /\ p2 \in {"scan", "return"}
  BY DEF RunPlaces, Places
<1>6. PlaceOK(w, local[w], p2, emitted, next_group)
  BY <1>1, <1>3, <1>4, <1>5 DEF PlaceOK
<1> HIDE DEF p2
<1>7. MovesOn(local[w], pc[w], local[w], p2) /\ Keeps(local[w], pc[w], local[w], p2, emitted)
  BY <1>3, <1>4, <1>5, Stays DEF Keeps
<1>8. pc' \in [Workers -> RunPlaces] /\ Only(pc, pc', w, p2)
  BY <1>2, <1>3, <1>5, Updated
<1>9. Only(local, local, w, local[w])
  BY DEF Only
<1>10. CountersOK(emitted, TRUE, next_group)
  BY <1>3, <1>4 DEF CountersOK
<1>11. Running(pc', local, rows, emitted, TRUE, next_group)
  <2>1. Running(pc, local, rows, emitted, stop, next_group)
    BY DEF Run
  <2>2. QED BY <1>3, <1>6, <1>7, <1>8, <1>9, <1>10, <2>1, RunMoves
<1>12. QED BY <1>1, <1>11

LEMMA RunReturn ==
    ASSUME PlanInv, PlanDone, Run, NEW w \in Workers, Return(w)
    PROVE  Running(pc', local', rows', emitted', stop', next_group')
<1> DEFINE l == local[w]
           z == Outing(l, 0, l.seen)
           p2 == IF l.out = 0 THEN "done" ELSE IF q.count THEN "count" ELSE "scan"
<1>1. /\ pc[w] = "return" \/ (pc[w] = "scan" /\ l.out = VectorSize)
      /\ pc' = [pc EXCEPT ![w] = p2] /\ local' = [local EXCEPT ![w].out = 0] /\ UNCHANGED <<sharedVars, rows>>
  BY DEF Return
<1>2. /\ LocalOK(l, pc[w]) /\ BufferOK(l, pc[w]) /\ l \in AnyLocal
      /\ PlaceOK(w, l, pc[w], emitted, next_group)
      /\ pc \in [Workers -> RunPlaces] /\ local \in [Workers -> AnyLocal]
      /\ CountersOK(emitted, stop, next_group) /\ emitted \in Nat /\ q.limit \in Nat
  BY WorkerFacts
<1>3. l.seen \in Nat /\ 0 \in 0 .. VectorSize /\ 0 \in Nat
  BY <1>2, VectorFacts DEF AnyLocal
<1>4. [l EXCEPT !.out = 0] = z
  BY <1>2 DEF Outing, AnyLocal
<1>5. local' = [local EXCEPT ![w] = z]
  <2>1. local' = [local EXCEPT ![w] = [l EXCEPT !.out = 0]]
    BY <1>1
  <2>2. QED BY <1>4, <2>1
<1>6. p2 \in {"done", "count", "scan"} /\ p2 \in RunPlaces /\ p2 # "reserve"
  BY DEF RunPlaces, Places
<1>7. \A r : ~InHand(l, pc[w], r)
  BY <1>1 DEF InHand
<1>8. /\ MovesOn(l, pc[w], z, p2) /\ \A r : KeepsRow(l, pc[w], z, p2, r)
  BY <1>2, <1>3, <1>6, <1>7, Carries DEF Outing
<1>9. Outed(l, 0, l.seen, z)
  BY <1>2, <1>3, OutingFacts
<1>10. p2 = "done" => pc[w] = "return" /\ l.out = 0
  BY <1>1, VectorFacts
<1>11. (p2 = "count" => q.count) /\ (p2 = "scan" => ~q.count)
  OBVIOUS
<1>12. l = local[w]
  OBVIOUS
<1> HIDE DEF l, z, p2
<1>13. z \in AnyLocal /\ z.seen = l.seen /\ z.has = l.has /\ z.next = l.next /\ z.last = l.last
  BY <1>9 DEF Outed
<1>14. PlaceOK(w, z, p2, emitted, next_group)
  <2>1. /\ w \in Threads /\ l.seen <= emitted
        /\ p2 = "done" /\ ~q.count => emitted >= q.limit \/ (next_group > Len(groups) /\ ~l.has /\ l.next > l.last)
        /\ p2 = "done" /\ q.count => emitted = total \/ (Limited /\ emitted = q.limit)
    BY <1>1, <1>2, <1>10 DEF PlaceOK
  <2>2. QED BY <1>6, <1>11, <1>13, <2>1 DEF PlaceOK
<1>15. local' \in [Workers -> AnyLocal] /\ Only(local, local', w, z)
  BY <1>2, <1>5, <1>13, Updated
<1>16. pc' \in [Workers -> RunPlaces] /\ Only(pc, pc', w, p2)
  BY <1>1, <1>2, <1>6, Updated
<1>17. Running(pc', local', rows, emitted, stop, next_group)
  <2>1. Running(pc, local, rows, emitted, stop, next_group)
    BY DEF Run
  <2>2. MovesOn(local[w], pc[w], z, p2) /\ Keeps(local[w], pc[w], z, p2, emitted)
    BY <1>8, <1>12 DEF Keeps
  <2>3. QED BY <1>2, <1>14, <1>15, <1>16, <2>1, <2>2, RunMoves
<1>18. QED BY <1>1, <1>17 DEF sharedVars

\* The rows of the next chunk of a count, of the m counted and the t to count,
\* under the limit k.
Chunk(n, v, t, m, k, b) == n = IF b THEN Min({Min({v, t - m}), k - m}) ELSE Min({v, t - m})
LEMMA ChunkOf ==
    ASSUME NEW v \in Nat \ {0}, NEW t \in Nat, NEW m \in Nat, m <= t, NEW k \in Nat, NEW b \in BOOLEAN, b => m <= k,
           NEW n, Chunk(n, v, t, m, k, b)
    PROVE  /\ n \in 0 .. v /\ m + n <= t /\ (b => m + n <= k)
           /\ n = 0 => m = t \/ (b /\ m = k)
<1> DEFINE a == Min({v, t - m})
<1>1. t - m \in Nat /\ a = IF v <= t - m THEN v ELSE t - m
  <2>1. t - m \in Nat /\ v \in Int
    OBVIOUS
  <2>2. QED BY <2>1, MinOfTwo
<1> HIDE DEF a
<1>2. n = IF b THEN Min({a, k - m}) ELSE a
  BY DEF a, Chunk
<1>3. a \in Int /\ k - m \in Int
  BY <1>1
<1>4. Min({a, k - m}) = IF a <= k - m THEN a ELSE k - m
  BY <1>3, MinOfTwo
<1>5. n = IF b THEN (IF a <= k - m THEN a ELSE k - m) ELSE a
  BY <1>2, <1>4
<1>6. QED BY <1>1, <1>5

LEMMA RunCountRows ==
    ASSUME PlanInv, PlanDone, Run, NEW w \in Workers, CountRows(w)
    PROVE  Running(pc', local', rows', emitted', stop', next_group')
<1> DEFINE l == local[w]
           wanted == Min({VectorSize, total - emitted})
           k == IF Limited THEN Min({wanted, q.limit - emitted}) ELSE wanted
           n == IF stop THEN 0 ELSE k
           h2 == stop \/ (Limited /\ emitted + n >= q.limit)
           z == Outing(l, n, l.seen)
<1>1. /\ pc[w] = "count" /\ emitted' = emitted + n /\ local' = [local EXCEPT ![w].out = n] /\ stop' = h2
      /\ pc' = [pc EXCEPT ![w] = "return"] /\ next_group' = next_group /\ rows' = rows
  BY DEF CountRows
<1>2. /\ PlaceOK(w, l, "count", emitted, next_group) /\ l \in AnyLocal
      /\ pc \in [Workers -> RunPlaces] /\ local \in [Workers -> AnyLocal] /\ Len(groups) \in Nat
      /\ CountersOK(emitted, stop, next_group) /\ emitted \in Nat /\ q.limit \in Nat /\ q \in Queries
  BY <1>1, WorkerFacts
<1>3. q.count /\ emitted <= total /\ (Limited => emitted <= q.limit) /\ stop \in BOOLEAN
      /\ (stop => Limited /\ emitted >= q.limit)
  BY <1>2 DEF PlaceOK, CountersOK
<1>4. total \in Nat
  BY <1>2, <1>3, RowsFinite DEF PlanDone, MetadataTotal
<1>5. VectorSize \in Nat \ {0} /\ Limited \in BOOLEAN
  BY DatasetAssumption DEF Limited
<1>6. /\ k \in 0 .. VectorSize /\ emitted + k <= total /\ (Limited => emitted + k <= q.limit)
      /\ k = 0 => emitted = total \/ (Limited /\ emitted = q.limit)
  <2>1. Chunk(k, VectorSize, total, emitted, q.limit, Limited)
    BY DEF Chunk
  <2> HIDE DEF k
  <2>2. QED BY <1>2, <1>3, <1>4, <1>5, <2>1, ChunkOf
<1> HIDE DEF k
<1>7. /\ n \in 0 .. VectorSize /\ emitted + n <= total /\ (Limited => emitted + n <= q.limit)
      /\ n = 0 => emitted = total \/ (Limited /\ emitted = q.limit)
  BY <1>2, <1>3, <1>4, <1>5, <1>6
<1> HIDE DEF n
<1>8. h2 \in BOOLEAN /\ (h2 => Limited /\ emitted + n >= q.limit)
  BY <1>2, <1>3, <1>5, <1>7
<1> HIDE DEF h2
<1>9. n \in Nat /\ l.seen \in Nat
  BY <1>2, <1>5, <1>7 DEF AnyLocal
<1>10. [l EXCEPT !.out = n] = z
  BY <1>2 DEF Outing, AnyLocal
<1>11. local' = [local EXCEPT ![w] = z]
  <2>1. local' = [local EXCEPT ![w] = [l EXCEPT !.out = n]]
    BY <1>1
  <2>2. QED BY <1>10, <2>1
<1>12. z \in AnyLocal
  BY <1>2, <1>9, OutingFacts DEF Outed
<1> HIDE DEF z
<1>13. local' \in [Workers -> AnyLocal] /\ Only(local, local', w, z)
  BY <1>2, <1>11, <1>12, Updated
<1>14. Only(local, local', w, Outing(local[w], n, local[w].seen))
  BY <1>13 DEF z
<1>15. "return" \in RunPlaces
  BY DEF RunPlaces, Places
<1>16. pc' \in [Workers -> RunPlaces] /\ Only(pc, pc', w, "return")
  BY <1>1, <1>2, <1>15, Updated
<1>17. Running(pc, local, rows, emitted, stop, next_group)
  BY DEF Run
<1>18. Counting(pc, local, emitted, w, pc', local', n, h2)
  BY <1>1, <1>3, <1>7, <1>8, <1>13, <1>14, <1>16 DEF Counting
<1>19. Running(pc', local', rows, emitted + n, h2, next_group)
  BY <1>2, <1>17, <1>18, RunCounting
<1>20. QED BY <1>1, <1>19

LEMMA RunStep ==
    ASSUME PlanInv, PlanDone, Run, NEW w \in Workers, Step(w)
    PROVE  ScanInv'
<1>1. Running(pc', local', rows', emitted', stop', next_group') /\ UNCHANGED planVars
  <2>1. CASE Start(w)
    BY <2>1, RunStart DEF Start
  <2>2. CASE ClaimGroup(w)
    BY <2>2, RunClaimGroup DEF ClaimGroup
  <2>3. CASE ClaimTask(w)
    BY <2>3, RunClaimTask DEF ClaimTask
  <2>4. CASE NextPage(w)
    BY <2>4, RunNextPage DEF NextPage
  <2>5. CASE SkipEntry(w)
    BY <2>5, RunSkipEntry DEF SkipEntry
  <2>6. CASE BeginEntry(w)
    BY <2>6, RunBeginEntry DEF BeginEntry
  <2>7. CASE EndTask(w)
    BY <2>7, RunEndTask DEF EndTask
  <2>8. CASE TakeValue(w)
    BY <2>8, RunTakeValue DEF TakeValue
  <2>9. CASE ReserveUnlimited(w)
    BY <2>9, RunReserveUnlimited DEF ReserveUnlimited
  <2>10. CASE Reserve(w)
    BY <2>10, RunReserve DEF Reserve
  <2>11. CASE RequestStop(w)
    BY <2>11, RunRequestStop DEF RequestStop
  <2>12. CASE Return(w)
    BY <2>12, RunReturn DEF Return
  <2>13. CASE CountRows(w)
    BY <2>13, RunCountRows DEF CountRows
  <2>14. QED BY <2>1, <2>2, <2>3, <2>4, <2>5, <2>6, <2>7, <2>8, <2>9, <2>10, <2>11, <2>12, <2>13 DEF Step
<1>2. q' = q /\ fetched' = fetched /\ planned' = planned /\ tasks' = tasks /\ groups' = groups /\ total' = total
  BY <1>1 DEF planVars
<1>3. PlanInv'
  BY <1>2, PlanInvUnchanged
<1>4. PlanDone'
  BY <1>1, PlanDoneSame
<1>5. Run'
  BY <1>1, <1>2, RunSame
<1>6. QED BY <1>3, <1>4, <1>5 DEF ScanInv

-----------------------------------------------------------------------------
(***************************************************************************)
(* The steps of CreateGlobal, and the invariant.                           *)
(***************************************************************************)

LEMMA FirstWorker == 1 \in Workers
BY DatasetAssumption

\* While the query is planned no thread takes a step, and once it runs nothing
\* is planned.
LEMMA PlanningPlaces ==
    ASSUME Planning
    PROVE  \A w \in Workers : ~Step(w)
<1>1. \A w \in Workers : pc[w] \in {"plan", "failed"}
  BY DEF Planning
<1>2. ASSUME NEW w \in Workers, Step(w) PROVE FALSE
  <2>1. pc[w] \in {"start", "scan", "reserve", "stop", "return", "count"}
    BY <1>2 DEF Step, Start, ClaimGroup, ClaimTask, NextPage, SkipEntry, BeginEntry, EndTask, TakeValue,
                ReserveUnlimited, Reserve, RequestStop, Return, CountRows, Scanning, AtEntry
  <2>2. QED BY <1>1, <2>1
<1>3. QED BY <1>2

LEMMA RunPlaced ==
    ASSUME Run
    PROVE  pc[1] # "plan"
<1>1. pc[1] \in RunPlaces
  BY FirstWorker DEF Run, Running
<1>2. QED BY <1>1 DEF RunPlaces

LEMMA RejectStep ==
    ASSUME PlanInv, Planning, RejectStale
    PROVE  ScanInv'
<1>1. /\ q' = q /\ fetched' = fetched /\ planned' = planned /\ tasks' = tasks /\ groups' = groups /\ total' = total
      /\ next_group' = next_group /\ emitted' = emitted /\ stop' = stop /\ local' = local /\ rows' = rows
      /\ pc' = [w \in Workers |-> "failed"] /\ q.changed
  BY DEF RejectStale, planVars, sharedVars
<1>2. AllRows' = AllRows
  BY <1>1, PlanSame
<1>3. Planning'
  BY <1>1, <1>2 DEF Planning
<1>4. PlanInv'
  BY <1>1, PlanInvUnchanged
<1>5. QED BY <1>3, <1>4 DEF ScanInv

LEMMA BasketStep ==
    ASSUME PlanInv, Planning, PlanBasket
    PROVE  ScanInv'
<1>1. /\ q' = q /\ groups' = groups /\ total' = total /\ pc' = pc
      /\ next_group' = next_group /\ emitted' = emitted /\ stop' = stop /\ local' = local /\ rows' = rows
  BY DEF PlanBasket, sharedVars
<1>2. AllRows' = AllRows
  BY <1>1, PlanSame
<1>3. Planning'
  BY <1>1, <1>2 DEF Planning
<1>4. PlanInv'
  BY PlanBasketStep
<1>5. QED BY <1>3, <1>4 DEF ScanInv

LEMMA GroupsStep ==
    ASSUME PlanInv, Planning, PlanGroups
    PROVE  ScanInv'
<1>1. /\ q' = q /\ fetched' = fetched /\ planned' = planned /\ tasks' = tasks
      /\ next_group' = next_group /\ emitted' = emitted /\ stop' = stop /\ local' = local /\ rows' = rows
      /\ pc' = [w \in Workers |-> "start"] /\ groups' = FileTaskGroups(tasks)
      /\ total' = (IF q.count THEN MetadataTotal ELSE 0) /\ ~q.changed /\ PlanIsComplete
  BY DEF PlanGroups, sharedVars
<1>2. AllRows' = AllRows /\ Selected' = Selected /\ CanStop' = CanStop
  BY <1>1, PlanSame
<1>3. Starting'
  BY <1>1, <1>2 DEF Planning, Starting
<1>4. PlanDone'
  <2>1. NothingToRead' = NothingToRead
    BY <1>1 DEF NothingToRead, EntryRange, EventRange
  <2>2. PlanIsComplete'
    BY <1>1, <1>2, <2>1 DEF PlanIsComplete
  <2>3. QED BY <1>1, <1>2, <2>2 DEF PlanDone, MetadataTotal
<1>5. PlanInv'
  BY <1>1, PlanInvUnchanged
<1>6. Run'
  BY <1>3, <1>4, <1>5, RunStartsNext
<1>7. QED BY <1>4, <1>5, <1>6 DEF ScanInv

LEMMA UnchangedStep ==
    ASSUME ScanInv, UNCHANGED vars
    PROVE  ScanInv'
<1>1. /\ q' = q /\ fetched' = fetched /\ planned' = planned /\ tasks' = tasks /\ groups' = groups /\ total' = total
      /\ next_group' = next_group /\ emitted' = emitted /\ stop' = stop /\ local' = local /\ rows' = rows /\ pc' = pc
  BY DEF vars
<1>2. PlanInv'
  BY <1>1, PlanInvUnchanged DEF ScanInv
<1>3. CASE Planning
  <2>1. AllRows' = AllRows
    BY <1>1, PlanSame
  <2>2. Planning'
    BY <1>1, <1>3, <2>1 DEF Planning
  <2>3. QED BY <1>2, <2>2 DEF ScanInv
<1>4. CASE PlanDone /\ Run
  <2>1. PlanDone'
    BY <1>1, <1>4, PlanDoneSame DEF planVars
  <2>2. Running(pc', local', rows', emitted', stop', next_group')
    BY <1>1, <1>4 DEF Run
  <2>3. Run'
    BY <1>1, <2>2, RunSame
  <2>4. QED BY <1>2, <2>1, <2>3 DEF ScanInv
<1>5. QED BY <1>3, <1>4 DEF ScanInv

LEMMA ScanInvStarts == Init => ScanInv
<1> SUFFICES ASSUME Init PROVE ScanInv
  OBVIOUS
<1>1. PlanInv
  BY PlanStarts DEF Init
<1>2. Planning
  BY DEF Init, Planning
<1>3. QED BY <1>1, <1>2 DEF ScanInv

LEMMA ScanInvStep == ScanInv /\ [Next]_vars => ScanInv'
<1> SUFFICES ASSUME ScanInv, [Next]_vars PROVE ScanInv'
  OBVIOUS
<1>1. PlanInv
  BY DEF ScanInv
<1>2. CASE Planning
  <2>1. CASE Plan
    BY <1>1, <1>2, <2>1, RejectStep, BasketStep, GroupsStep DEF Plan
  <2>2. CASE \E w \in Workers : Step(w)
    BY <1>2, <2>2, PlanningPlaces
  <2>3. CASE UNCHANGED vars
    BY <2>3, UnchangedStep
  <2>4. QED BY <2>1, <2>2, <2>3 DEF Next, Terminated
<1>3. CASE PlanDone /\ Run
  <2>1. CASE Plan
    BY <1>3, <2>1, RunPlaced DEF Plan, RejectStale, PlanBasket, PlanGroups
  <2>2. CASE \E w \in Workers : Step(w)
    BY <1>1, <1>3, <2>2, RunStep
  <2>3. CASE UNCHANGED vars
    BY <2>3, UnchangedStep
  <2>4. QED BY <2>1, <2>2, <2>3 DEF Next, Terminated
<1>4. QED BY <1>2, <1>3 DEF ScanInv

\* The plan holds what the files have to offer, each task and each row of it is
\* with one thread at most, what a thread has passed is returned or does not
\* match, and the rows granted are the rows returned.
THEOREM ScanInvariant == Spec => []ScanInv
<1>1. Init => ScanInv
  BY ScanInvStarts
<1>2. ScanInv /\ [Next]_vars => ScanInv'
  BY ScanInvStep
<1>3. QED BY <1>1, <1>2, PTL DEF Spec

-----------------------------------------------------------------------------
(***************************************************************************)
(* What the invariant says.                                                *)
(***************************************************************************)

LEMMA TaskTyped ==
    ASSUME NEW t \in AnyTask, t.file \in DOMAIN q.files
    PROVE  t \in TaskSet
BY DEF AnyTask, TaskSet

LEMMA ThreadTyped ==
    ASSUME PlanInv, NEW l, NEW p, LocalOK(l, p)
    PROVE  /\ l.out \in 0 .. VectorSize /\ l.offset \in 0 .. Len(l.vals)
           /\ l.has => /\ l.task \in TaskSet
                       /\ l.entry \in l.task.begin .. l.task.end
                       /\ Inside(l.task) \subseteq Entries(l.task.file)
<1>1. l \in AnyLocal /\ l.out \in Nat /\ l.offset \in Nat /\ Len(l.vals) \in Nat /\ l.task \in AnyTask /\ l.entry \in Nat
  BY DEF LocalOK, AnyLocal
<1>2. l.out \in 0 .. VectorSize /\ l.offset \in 0 .. Len(l.vals)
  BY <1>1, VectorFacts DEF LocalOK
<1>3. ASSUME l.has
      PROVE  /\ l.task \in TaskSet /\ l.entry \in l.task.begin .. l.task.end
             /\ Inside(l.task) \subseteq Entries(l.task.file)
  <2>1. /\ l.task.file \in DOMAIN q.files /\ l.task.begin \in Nat /\ l.task.end \in Nat
        /\ \A e : e \in Inside(l.task) => e \in Entries(l.task.file)
    BY <1>3, HandFacts
  <2>2. l.task \in TaskSet
    BY <1>1, <2>1, TaskTyped
  <2>3. l.entry \in l.task.begin .. l.task.end
    BY <1>1, <1>3, <2>1 DEF LocalOK
  <2>4. QED BY <2>1, <2>2, <2>3
<1>4. QED BY <1>2, <1>3

LEMMA ScanTyped == ScanInv => TypeOK
<1> SUFFICES ASSUME ScanInv PROVE TypeOK
  OBVIOUS
<1>1. PlanInv /\ q \in Queries
  BY DEF ScanInv, PlanInv
<1>2. fetched \subseteq Selected /\ planned \in Nat /\ Disjoint(tasks)
  BY <1>1 DEF PlanInv, IsPlan
<1>3. \A i \in DOMAIN tasks : tasks[i] \in TaskSet /\ tasks[i].begin < tasks[i].end
  BY <1>1, TaskFacts, TaskTyped
<1>4. CASE Planning
  <2>1. \A g \in ToSet(groups) : g[1] <= g[2] /\ g[2] <= Len(tasks)
    BY <1>4 DEF Planning, ToSet
  <2>2. next_group \in Nat /\ emitted \in Nat /\ total \in Nat /\ stop \in BOOLEAN
    BY <1>4 DEF Planning
  <2>3. ASSUME NEW w \in Workers
        PROVE  /\ pc[w] \in {"plan", "failed"} /\ local[w].out \in 0 .. VectorSize
               /\ local[w].offset \in 0 .. Len(local[w].vals) /\ ~local[w].has
    <3>1. local[w] = NewLocal /\ pc[w] \in {"plan", "failed"}
      BY <1>4 DEF Planning
    <3>2. NewLocal.out = 0 /\ NewLocal.offset = 0 /\ NewLocal.vals = <<>> /\ ~NewLocal.has
      BY DEF NewLocal
    <3>3. Len(<<>>) = 0 /\ 0 \in 0 .. VectorSize /\ 0 \in 0 .. 0
      BY VectorFacts
    <3>4. QED BY <3>1, <3>2, <3>3
  <2>4. QED BY <1>2, <1>3, <2>1, <2>2, <2>3 DEF TypeOK
<1>5. CASE PlanDone /\ Run
  <2>1. \A g \in ToSet(groups) : g[1] <= g[2] /\ g[2] <= Len(tasks)
    <3>1. /\ DOMAIN groups = 1 .. Len(groups) /\ Len(groups) \in Nat
          /\ \A k \in DOMAIN groups : groups[k][2] \in 1 .. Len(tasks) /\ groups[k][1] <= groups[k][2]
      BY <1>2, <1>5, GroupFacts DEF PlanDone
    <3>2. \A k \in DOMAIN groups : groups[k][2] <= Len(tasks)
      <4>1. Len(tasks) \in Nat
        BY <1>2 DEF Disjoint
      <4>2. QED BY <3>1, <4>1
    <3>3. QED BY <3>1, <3>2 DEF ToSet
  <2>2. next_group \in Nat /\ emitted \in Nat /\ total \in Nat /\ stop \in BOOLEAN
    <3>1. total \in Nat
      BY <1>1, <1>5, RowsFinite DEF PlanDone, MetadataTotal
    <3>2. next_group \in Nat /\ emitted \in Nat /\ stop \in BOOLEAN
      BY <1>5 DEF Run, Running, CountersOK
    <3>3. QED BY <3>1, <3>2
  <2>3. ASSUME NEW w \in Workers
        PROVE  /\ pc[w] \in {"start", "count", "scan", "reserve", "stop", "return", "done"}
               /\ local[w].out \in 0 .. VectorSize /\ local[w].offset \in 0 .. Len(local[w].vals)
               /\ local[w].has => /\ local[w].task \in TaskSet
                                  /\ local[w].entry \in local[w].task.begin .. local[w].task.end
                                  /\ Inside(local[w].task) \subseteq Entries(local[w].task.file)
    <3>1. LocalOK(local[w], pc[w])
      BY <1>5 DEF Run, Running, ThreadsOK
    <3>2. pc[w] \in RunPlaces
      BY <1>5 DEF Run, Running
    <3>3. pc[w] \in {"start", "count", "scan", "reserve", "stop", "return", "done"}
      BY <3>2 DEF RunPlaces, Places
    <3>4. QED BY <1>1, <3>1, <3>3, ThreadTyped
  <2>4. QED BY <1>2, <1>3, <2>1, <2>2, <2>3 DEF TypeOK
<1>6. QED BY <1>4, <1>5 DEF ScanInv

\* Types: the tasks of the plan and the task in hand of every thread have entries,
\* all of their file, and a group in hand lies inside the plan (OpenTaskFile and
\* LoadNextEntry of root_dataset_execute.cpp read them without a check).
THEOREM ScanTypeCorrect == Spec => []TypeOK
BY ScanInvariant, ScanTyped, PTL

LEMMA OnceHolds == ScanInv => (~q.typed => RowsAtMostOnce)
<1> SUFFICES ASSUME ScanInv, ~q.typed, NEW r \in AllRows PROVE rows[r] <= 1
  BY DEF RowsAtMostOnce
<1>1. CASE Planning
  <2>1. rows[r] = 0
    BY <1>1 DEF Planning
  <2>2. QED BY <2>1
<1>2. CASE PlanDone /\ Run
  BY <1>2 DEF Run, Running, OnceOK
<1>3. QED BY <1>1, <1>2 DEF ScanInv

\* Whatever files, queries, threads and vector size there are, no value of an
\* entry is returned twice: the plan of CreateGlobal cuts every entry into one
\* task, next_group hands every group to one thread, and the cursor of Scan does
\* not go back.  64-bit values are left out: their buffer is not cleared between
\* tasks (ClaimTask clears values, not typed_values).
THEOREM ScanRowsOnce == Spec => [](~q.typed => RowsAtMostOnce)
BY ScanInvariant, OnceHolds, PTL

LEMMA CountedHolds ==
    ASSUME ScanInv
    PROVE  (Limited => emitted <= q.limit) /\ (~q.typed => GrantsAreCounted)
<1>1. q \in Queries
  BY DEF ScanInv, PlanInv
<1>2. CASE Planning
  <2>1. q.limit \in Nat /\ 0 <= q.limit
    BY <1>1, QueryFacts
  <2>2. Returned = {}
    BY <1>2 DEF Planning, Returned
  <2>3. Cardinality(Returned) = 0
    BY <2>2, FS_EmptySet
  <2>4. QED BY <1>2, <2>1, <2>3 DEF Planning, GrantsAreCounted
<1>3. CASE PlanDone /\ Run
  <2>1. Returned = Ret(rows)
    BY DEF Returned, Ret
  <2>2. QED BY <1>3, <2>1 DEF Run, Running, CountersOK, RowsOK, GrantsAreCounted
<1>4. QED BY <1>2, <1>3 DEF ScanInv

\* ReserveOutputRows: under any race of any number of threads for emitted_rows the
\* rows granted never exceed row_limit, with 64-bit values too, and without them
\* each row granted is one row returned.
THEOREM ScanGrantsAreCounted == Spec => []((Limited => emitted <= q.limit) /\ (~q.typed => GrantsAreCounted))
BY ScanInvariant, CountedHolds, PTL

LEMMA FirstThread ==
    ASSUME q \in Queries, Len(groups) \in Nat
    PROVE  1 \in Threads
<1> DEFINE m == Min({q.workers, Len(groups)})
<1>1. q.workers \in Nat
  BY QueryFacts DEF QuerySet
<1>2. m \in Int
  BY <1>1, MinOfTwo
<1> HIDE DEF m
<1>3. \E x \in {1, m} : \A y \in {1, m} : x >= y
  <2>1. CASE m <= 1
    BY <1>2, <2>1
  <2>2. CASE ~ (m <= 1)
    BY <1>2, <2>2
  <2>3. QED BY <2>1, <2>2
<1>4. Max({1, m}) >= 1
  BY <1>3 DEF Max
<1>5. 1 <= MaxThreads
  <2>1. CASE q.count
    BY <2>1 DEF MaxThreads
  <2>2. CASE ~q.count
    <3>1. MaxThreads = Max({1, m}) /\ Max({1, m}) \in {1, m}
      BY <1>3, <2>2 DEF MaxThreads, Max, m
    <3>2. QED BY <1>2, <1>4, <3>1
  <2>3. QED BY <2>1, <2>2
<1>6. QED BY <1>5, FirstWorker DEF Threads

\* Every thread has returned an empty chunk: none has a task, and none is left.
LEMMA FinishedRuns ==
    ASSUME ScanInv, Finished, ~q.changed
    PROVE  /\ PlanInv /\ PlanDone /\ Run /\ 1 \in Threads /\ 1 \in Workers
           /\ \A w \in Workers : pc[w] = "start" \/ pc[w] = "done"
           /\ pc[1] = "done"
<1>1. PlanInv /\ q \in Queries /\ Disjoint(tasks) /\ 1 \in Workers
  BY FirstWorker DEF ScanInv, PlanInv, IsPlan
<1>2. Len(groups) \in Nat
  <2>1. CASE Planning
    BY <2>1 DEF Planning
  <2>2. CASE PlanDone
    BY <1>1, <2>2, GroupFacts DEF PlanDone
  <2>3. QED BY <2>1, <2>2 DEF ScanInv
<1>3. 1 \in Threads /\ pc[1] \in {"done", "failed"}
  BY <1>1, <1>2, FirstThread DEF Finished
<1>4. ~Planning
  BY <1>1, <1>3 DEF Planning
<1>5. PlanDone /\ Run
  BY <1>4 DEF ScanInv
<1>6. \A w \in Workers : pc[w] \in RunPlaces /\ (pc[w] # "start" => w \in Threads)
  BY <1>5 DEF Run, Running, PlacesOK, PlaceOK
<1>7. \A w \in Workers : pc[w] # "start" => pc[w] = "done"
  BY <1>6 DEF Finished, RunPlaces
<1>8. pc[1] = "done"
  BY <1>1, <1>3, <1>6 DEF RunPlaces
<1>9. QED BY <1>1, <1>3, <1>5, <1>7, <1>8

LEMMA TasksAreDone ==
    ASSUME PlanInv, PlanDone, Run, 1 \in Workers, pc[1] = "done", ~q.count, emitted < q.limit, Ordinary,
           \A w \in Workers : pc[w] = "start" \/ pc[w] = "done",
           NEW r \in Matching, Covered(tasks, r.file, r.entry)
    PROVE  r \in Ret(rows)
<1>1. /\ CompleteOK(pc, local, rows, emitted, next_group) /\ PlacesOK(pc, local, emitted, next_group)
      /\ rows \in [AllRows -> Nat] /\ emitted \in Nat
  BY DEF Run, Running, RowsOK, CountersOK
<1>2. q \in Queries /\ q.limit \in Nat /\ ~ (emitted >= q.limit)
  <2>1. q.limit \in Nat
    BY QueryFacts DEF PlanInv
  <2>2. QED BY <1>1, <2>1 DEF PlanInv
<1>3. next_group > Len(groups)
  BY <1>1, <1>2 DEF PlacesOK, PlaceOK
<1>4. \A k : ~Unclaimed(next_group, k)
  BY <1>3, RunExhausts DEF Run, PlanDone
<1>5. PICK k \in DOMAIN tasks : Of(k, r)
  BY DEF Covered, Of
<1>6. k \in Nat
  <2>1. tasks \in Seq(AnyTask)
    BY DEF PlanInv, IsPlan, Disjoint
  <2>2. QED BY <2>1
<1>7. ASSUME NEW w \in Workers, Awaits(local[w], pc[w], k, r) PROVE FALSE
  <2>1. PlaceOK(w, local[w], pc[w], emitted, next_group)
    BY <1>1 DEF PlacesOK
  <2>2. CASE pc[w] = "start"
    <3>1. local[w] = NewLocal
      BY <2>1, <2>2 DEF PlaceOK
    <3>2. QED BY <1>5, <1>7, <2>2, <3>1, NewLocalFacts
  <2>3. CASE pc[w] = "done"
    <3>1. ~local[w].has /\ local[w].next > local[w].last /\ local[w].next \in Nat /\ local[w].last \in Nat
      BY <1>2, <2>1, <2>3 DEF PlaceOK, AnyLocal
    <3>2. ~ (local[w].next <= k /\ k <= local[w].last)
      BY <1>6, <3>1
    <3>3. ~Owns(local[w], k)
      BY <3>1, <3>2 DEF Owns
    <3>4. QED BY <1>7, <2>3, <3>3 DEF Awaits, InHand
  <2>4. QED BY <2>2, <2>3
<1>8. ~Awaited(pc, local, next_group, k, r)
  BY <1>4, <1>7 DEF Awaited
<1>9. rows[r] >= 1
  BY <1>1, <1>2, <1>5, <1>8 DEF CompleteOK
<1>10. r \in AllRows /\ rows[r] \in Nat
  BY <1>1, <1>2, MatchingFacts
<1>11. QED BY <1>9, <1>10 DEF Ret

\* Without filters and selection every row matches.
LEMMA AllMatch ==
    ASSUME CanStop
    PROVE  AllRows \subseteq Matching /\ Ordinary
<1>1. /\ q.value = {} /\ q.event = {} /\ q.entry = {} /\ q.source = {} /\ q.selection = {} /\ q.predicates = <<>>
  BY DEF CanStop, IntervalFilterActive
<1>2. \A r \in AllRows : PassesPathPredicates(r.file, r.entry)
  BY <1>1 DEF PassesPathPredicates
<1>3. \A v : Satisfies({}, v)
  BY DEF Satisfies
<1>4. QED BY <1>1, <1>2, <1>3 DEF Matching, Ordinary

LEMMA CompleteHolds ==
    ASSUME ScanInv, Finished, ~q.changed, ~q.count, emitted < q.limit, Ordinary
    PROVE  Matching \subseteq Ret(rows)
<1>1. /\ PlanInv /\ PlanDone /\ Run /\ 1 \in Workers /\ pc[1] = "done"
      /\ \A w \in Workers : pc[w] = "start" \/ pc[w] = "done"
  BY FinishedRuns
<1>2. q \in Queries
  BY <1>1 DEF PlanInv
<1>3. ASSUME NEW r \in Matching, Covered(tasks, r.file, r.entry) PROVE r \in Ret(rows)
  BY <1>1, <1>3, TasksAreDone
<1>4. ASSUME NEW r \in Matching PROVE Covered(tasks, r.file, r.entry)
  <2>1. PlanIsComplete
    BY <1>1 DEF PlanDone
  <2>2. CASE NothingToRead
    BY <1>2, <2>2, MatchingIsCandidate
  <2>3. CASE fetched = Selected
    BY <1>1, <2>3, MatchingIsPlanned
  <2>4. CASE CanStop /\ planned >= q.limit
    <3>1. AllRows \subseteq Matching
      BY <2>4, AllMatch
    <3>2. PlannedRows(tasks) \subseteq Ret(rows)
      BY <1>3, <3>1 DEF PlannedRows
    <3>3. IsFiniteSet(Ret(rows))
      <4>1. IsFiniteSet(AllRows) /\ Ret(rows) \subseteq AllRows
        BY <1>2, RowsFinite DEF Ret
      <4>2. QED BY <4>1, FS_Subset
    <3>4. Cardinality(PlannedRows(tasks)) <= Cardinality(Ret(rows))
      BY <3>2, <3>3, FS_Subset
    <3>5. IsFiniteSet(PlannedRows(tasks))
      BY <3>2, <3>3, FS_Subset
    <3>6. Cardinality(PlannedRows(tasks)) \in Nat /\ Cardinality(Ret(rows)) \in Nat
      BY <3>3, <3>5, FS_CardinalityType
    <3>7. Cardinality(Ret(rows)) <= emitted /\ emitted \in Nat
      BY <1>1 DEF Run, Running, RowsOK, CountersOK
    <3>8. planned <= Cardinality(PlannedRows(tasks)) /\ planned \in Nat /\ q.limit \in Nat
      BY <1>1, <1>2, <2>4, QueryFacts DEF PlanInv, IsPlan
    <3>9. QED BY <2>4, <3>4, <3>6, <3>7, <3>8
  <2>5. QED BY <2>1, <2>2, <2>3, <2>4 DEF PlanIsComplete
<1>5. QED BY <1>3, <1>4

LEMMA CompleteResult == ScanInv => (Ordinary => ResultIsComplete)
<1>1. Returned = Ret(rows)
  BY DEF Returned, Ret
<1>2. QED BY <1>1, CompleteHolds DEF ResultIsComplete

\* A scan that ended below the limit has returned every row that matches: no
\* basket, task, entry or page is pruned, coalesced, clipped or skipped away that
\* a filter, the selection and the path predicates let through, by whatever
\* threads.  Ordinary leaves out the values for which the code does prune such
\* rows: infinities under a filter of values, and NaN in the path of a predicate.
THEOREM ScanIsComplete == Spec => [](Ordinary => ResultIsComplete)
BY ScanInvariant, CompleteResult, PTL

LEMMA LimitHolds ==
    ASSUME ScanInv, ~q.typed, Ordinary, Cardinality(AllRows) <= MaxWord
    PROVE  LimitIsExact
<1> DEFINE all == IF q.count THEN total ELSE Cardinality(Matching)
           given == IF q.count THEN emitted ELSE Cardinality(Returned)
<1> SUFFICES ASSUME Finished, ~q.changed, Wholly PROVE given = Min({q.limit, all})
  BY DEF LimitIsExact, Wholly
<1>1. /\ PlanInv /\ PlanDone /\ Run /\ 1 \in Workers /\ pc[1] = "done" /\ 1 \in Threads
  BY FinishedRuns
<1>2. q \in Queries /\ q.limit \in Nat /\ emitted \in Nat /\ (Limited => emitted <= q.limit)
      /\ (q.count => emitted <= total)
  BY <1>1, QueryFacts DEF PlanInv, Run, Running, CountersOK
<1>3. IsFiniteSet(AllRows) /\ Cardinality(AllRows) \in Nat /\ Matching \subseteq AllRows
  BY <1>2, RowsFinite DEF Matching
<1>4. IsFiniteSet(Matching) /\ Cardinality(Matching) \in Nat /\ Cardinality(Matching) <= Cardinality(AllRows)
  BY <1>3, FS_Subset, FS_CardinalityType
<1>5. MaxWord \in Nat /\ (~Limited => q.limit = MaxWord)
  BY PruneAssumption DEF Limited, NoLimit
<1>6. total \in Nat /\ (q.count => total <= MaxWord)
  BY <1>1, <1>3 DEF PlanDone, MetadataTotal
<1>7. all \in Nat /\ all <= MaxWord
  BY <1>3, <1>4, <1>5, <1>6
<1>8. emitted <= all /\ emitted <= q.limit /\ (emitted < q.limit => emitted = all)
  <2>1. CASE q.count
    <3>1. emitted = total \/ (Limited /\ emitted = q.limit)
      BY <1>1, <2>1 DEF Run, Running, PlacesOK, PlaceOK
    <3>2. QED BY <1>2, <1>5, <1>6, <2>1, <3>1
  <2>2. CASE ~q.count
    <3>1. Cardinality(Ret(rows)) = emitted /\ Ret(rows) \subseteq Matching
      BY <1>1, <2>2 DEF Run, Running, RowsOK
    <3>2. emitted <= Cardinality(Matching)
      BY <1>4, <3>1, FS_Subset
    <3>3. ASSUME emitted < q.limit PROVE emitted = Cardinality(Matching)
      <4>1. Matching \subseteq Ret(rows)
        BY <2>2, <3>3, CompleteHolds
      <4>2. Ret(rows) = Matching
        BY <3>1, <4>1
      <4>3. QED BY <3>1, <4>2
    <3>4. emitted <= q.limit
      BY <1>2, <1>3, <1>4, <1>5, <3>2
    <3>5. QED BY <2>2, <3>2, <3>3, <3>4
  <2>3. QED BY <2>1, <2>2
<1>9. given = emitted
  <2>1. Returned = Ret(rows)
    BY DEF Returned, Ret
  <2>2. ~q.count => Cardinality(Ret(rows)) = emitted
    BY <1>1 DEF Run, Running, RowsOK
  <2>3. QED BY <2>1, <2>2
<1> HIDE DEF all, given
<1>10. Min({q.limit, all}) = IF q.limit <= all THEN q.limit ELSE all
  BY <1>2, <1>7, MinOfTwo
<1>11. QED BY <1>2, <1>7, <1>8, <1>9, <1>10

LEMMA LimitResult == ScanInv => (~q.typed /\ Ordinary /\ Cardinality(AllRows) <= MaxWord => LimitIsExact)
BY LimitHolds

\* A query without optional filters gets exactly min(row_limit, rows that match)
\* rows, or that many counted ones, although the plan ends as soon as the values
\* of its tasks reach the limit and threads race for the last rows.  The rows of
\* the dataset are taken to be countable with 64 bits.
THEOREM ScanLimitIsExact ==
    Spec => [](~q.typed /\ Ordinary /\ Cardinality(AllRows) <= MaxWord => LimitIsExact)
BY ScanInvariant, LimitResult, PTL

=============================================================================
