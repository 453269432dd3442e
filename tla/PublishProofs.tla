--------------------------- MODULE PublishProofs ---------------------------
(***************************************************************************)
(* What publishing promises, for any number of jobs, records, contracts    *)
(* and suites, wherever jobs stop and however they are tried again.        *)
(***************************************************************************)
EXTENDS Publish, FiniteSetTheorems, WellFoundedInduction, TLAPS

----------------------------------------------------------------------------
(* Sorting *)

\* The least-number principle, from the theorem that < is well founded on Nat.
LEMMA SmallestMember ==
    ASSUME NEW T, T \subseteq Nat, T # {}
    PROVE  \E x \in T : \A y \in T : x <= y
<1> DEFINE R == OpToRel(<, Nat)
<1>1. \A x, y \in Nat : y < x => <<y, x>> \in R
  BY DEF OpToRel
<1>2. IsWellFoundedOn(R, Nat)
  BY NatLessThanWellFounded, Zenon
<1> HIDE DEF R
<1>3. PICK x \in T : \A y \in T : ~(<<y, x>> \in R)
  BY <1>2, WFMin, Zenon
<1>4. ASSUME NEW y \in T
      PROVE  x <= y
  <2>1. x \in Nat /\ y \in Nat
    OBVIOUS
  <2>2. ~(y < x)
    BY <1>1, <1>3, <2>1, Zenon
  <2> QED
    BY <2>1, <2>2
<1> QED
  BY <1>3, <1>4

\* A set with 0 that is closed under successor holds every number.
LEMMA SetInduction ==
    ASSUME NEW T, 0 \in T, \A n \in Nat : n \in T => n + 1 \in T
    PROVE  Nat \subseteq T
<1> SUFFICES ASSUME NEW m \in Nat, m \notin T
             PROVE  FALSE
  OBVIOUS
<1> DEFINE U == {k \in Nat : k \notin T}
<1>1. U \subseteq Nat /\ U # {}
  OBVIOUS
<1>2. PICK k \in U : \A j \in U : k <= j
  <2> HIDE DEF U
  <2> QED
    BY <1>1, SmallestMember, Zenon
<1>3. k # 0 /\ k \in Nat /\ k - 1 \in Nat
  OBVIOUS
<1>4. k - 1 \in T
  BY <1>2, <1>3
<1>5. (k - 1) + 1 \in T
  BY <1>3, <1>4
<1> QED
  BY <1>3, <1>5

RecordEntries == {Entry(r) : r \in Record}

\* The sort key of publish tells the entries of different records apart, unless
\* they have the same path too.
LEMMA KeyOrders ==
    /\ RecordEntries \subseteq Entries
    /\ \A a, b \in RecordEntries : a = b \/ NewestFirst(a, b) \/ NewestFirst(b, a)
    /\ \A a, b, e \in RecordEntries : NewestFirst(a, b) /\ NewestFirst(b, e) => NewestFirst(a, e)
<1>1. ASSUME NEW r \in Record
      PROVE  /\ Entry(r) \in Entries
             /\ Entry(r).id = r.id /\ Entry(r).recorded_at = r.recorded_at
             /\ r.id \in Nat /\ r.recorded_at \in Nat
  BY RecordAssumption DEF Entry, Entries, record_path, year
<1>2. ASSUME NEW q \in Record, NEW r \in Record,
             q.id = r.id, q.recorded_at = r.recorded_at
      PROVE  Entry(q) = Entry(r)
  BY <1>2, Zenon DEF Entry, record_path, year
<1>3. ASSUME NEW q \in Record, NEW r \in Record
      PROVE  Entry(q) = Entry(r) \/ NewestFirst(Entry(q), Entry(r)) \/ NewestFirst(Entry(r), Entry(q))
  BY <1>1, <1>2 DEF NewestFirst
<1>4. \A a, b, e \in Entries : NewestFirst(a, b) /\ NewestFirst(b, e) => NewestFirst(a, e)
  BY DEF NewestFirst, Entries
<1> QED
  BY <1>1, <1>3, <1>4 DEF RecordEntries

\* Some entry comes before all others.
LEMMA NewestExists ==
    ASSUME NEW S \in SUBSET RecordEntries, IsFiniteSet(S), S # {}
    PROVE  \E m \in S : \A x \in S : x = m \/ NewestFirst(m, x)
<1> DEFINE P(U) == \E m \in U : \A x \in U : x = m \/ NewestFirst(m, x)
           T == {n \in Nat : \A U \in SUBSET RecordEntries :
                                IsFiniteSet(U) /\ Cardinality(U) = n + 1 => P(U)}
<1>1. 0 \in T
  <2> SUFFICES ASSUME NEW U \in SUBSET RecordEntries, IsFiniteSet(U), Cardinality(U) = 1
               PROVE  P(U)
    OBVIOUS
  <2>1. U # {}
    BY FS_EmptySet
  <2>2. PICK m \in U : TRUE
    BY <2>1
  <2>3. IsFiniteSet(U \ {m}) /\ Cardinality(U \ {m}) = 0
    BY FS_RemoveElement
  <2>4. U \ {m} = {}
    BY <2>3, FS_EmptySet
  <2> QED
    BY <2>4
<1>2. ASSUME NEW n \in Nat, n \in T
      PROVE  n + 1 \in T
  <2> SUFFICES ASSUME NEW U \in SUBSET RecordEntries, IsFiniteSet(U),
                      Cardinality(U) = (n + 1) + 1
               PROVE  P(U)
    OBVIOUS
  <2>1. U # {}
    BY FS_EmptySet
  <2>2. PICK x \in U : TRUE
    BY <2>1
  <2>3. IsFiniteSet(U \ {x}) /\ Cardinality(U \ {x}) = n + 1
    BY FS_RemoveElement
  <2>4. P(U \ {x})
    BY <1>2, <2>3
  <2>5. PICK m \in U \ {x} : \A y \in U \ {x} : y = m \/ NewestFirst(m, y)
    BY <2>4
  <2>6. m \in RecordEntries /\ x \in RecordEntries /\ x # m
    OBVIOUS
  <2>7. CASE NewestFirst(m, x)
    <3>1. \A y \in U : y = m \/ NewestFirst(m, y)
      BY <2>5, <2>7
    <3> QED
      BY <3>1
  <2>8. CASE NewestFirst(x, m)
    <3>1. \A y \in U : y = x \/ NewestFirst(x, y)
      BY <2>5, <2>6, <2>8, KeyOrders
    <3> QED
      BY <3>1
  <2> QED
    BY <2>6, <2>7, <2>8, KeyOrders
<1>3. Nat \subseteq T
  <2> HIDE DEF T
  <2> QED
    BY <1>1, <1>2, SetInduction
<1>4. Cardinality(S) \in Nat /\ Cardinality(S) # 0
  BY FS_EmptySet, FS_CardinalityType
<1>5. Cardinality(S) - 1 \in T
  BY <1>3, <1>4
<1> QED
  BY <1>4, <1>5

IsSorted(e, S, n) ==
    /\ e \in [1..n -> S]
    /\ {e[k] : k \in 1..n} = S
    /\ \A a, b \in 1..n : a < b => NewestFirst(e[a], e[b])

\* Sorting succeeds: a finite set of entries has a sorted enumeration.
LEMMA SortedExists ==
    ASSUME NEW S \in SUBSET RecordEntries, IsFiniteSet(S)
    PROVE  \E e : IsSorted(e, S, Cardinality(S))
<1> DEFINE T == {n \in Nat : \A U \in SUBSET RecordEntries :
                                IsFiniteSet(U) /\ Cardinality(U) = n => \E e : IsSorted(e, U, n)}
<1>1. 0 \in T
  <2> SUFFICES ASSUME NEW U \in SUBSET RecordEntries, IsFiniteSet(U), Cardinality(U) = 0
               PROVE  \E e : IsSorted(e, U, 0)
    OBVIOUS
  <2>1. U = {}
    BY FS_EmptySet
  <2>2. IsSorted([k \in 1..0 |-> 0], U, 0)
    BY <2>1 DEF IsSorted
  <2> QED
    BY <2>2
<1>2. ASSUME NEW n \in Nat, n \in T
      PROVE  n + 1 \in T
  <2> SUFFICES ASSUME NEW U \in SUBSET RecordEntries, IsFiniteSet(U), Cardinality(U) = n + 1
               PROVE  \E e : IsSorted(e, U, n + 1)
    OBVIOUS
  <2>1. U # {}
    BY FS_EmptySet
  <2>2. PICK m \in U : \A x \in U : x = m \/ NewestFirst(m, x)
    BY <2>1, NewestExists
  <2>3. IsFiniteSet(U \ {m}) /\ Cardinality(U \ {m}) = n
    <3>1. IsFiniteSet(U \ {m}) /\ Cardinality(U \ {m}) = Cardinality(U) - 1
      BY FS_RemoveElement, Zenon
    <3> QED
      BY <3>1
  <2>4. PICK d : IsSorted(d, U \ {m}, n)
    BY <1>2, <2>3
  <2> DEFINE e == [k \in 1..(n + 1) |-> IF k = 1 THEN m ELSE d[k - 1]]
  <2>5. \A k \in 1..(n + 1) : k = 1 \/ k - 1 \in 1..n
    OBVIOUS
  <2>6. \A k \in 1..n : d[k] \in U /\ d[k] # m
    BY <2>4 DEF IsSorted
  <2>7. e \in [1..(n + 1) -> U]
    BY <2>5, <2>6
  <2>8. \A k \in 1..n : k + 1 \in 1..(n + 1) /\ e[k + 1] = d[k]
    OBVIOUS
  <2>9. 1 \in 1..(n + 1) /\ e[1] = m
    OBVIOUS
  <2>10. {e[k] : k \in 1..(n + 1)} = U
    <3>1. ASSUME NEW x \in U
          PROVE  \E k \in 1..(n + 1) : x = e[k]
      <4>1. CASE x = m
        BY <2>9, <4>1
      <4>2. CASE x # m
        <5>1. PICK k \in 1..n : x = d[k]
          BY <2>4, <4>2 DEF IsSorted
        <5> QED
          BY <2>8, <5>1, Zenon
      <4> QED
        BY <4>1, <4>2
    <3> HIDE DEF e
    <3> QED
      BY <2>7, <3>1
  <2>11. ASSUME NEW a \in 1..(n + 1), NEW b \in 1..(n + 1), a < b
         PROVE  NewestFirst(e[a], e[b])
    <3>1. b - 1 \in 1..n /\ e[b] = d[b - 1]
      BY <2>11
    <3>2. CASE a = 1
      BY <2>2, <2>6, <2>9, <3>1, <3>2
    <3>3. CASE a # 1
      <4>1. a - 1 \in 1..n /\ e[a] = d[a - 1] /\ a - 1 < b - 1
        BY <2>11, <3>3
      <4> QED
        BY <2>4, <3>1, <4>1 DEF IsSorted
    <3> QED
      BY <3>2, <3>3
  <2> HIDE DEF e
  <2>12. IsSorted(e, U, n + 1)
    BY <2>7, <2>10, <2>11 DEF IsSorted
  <2> QED
    BY <2>12
<1>3. Nat \subseteq T
  <2> HIDE DEF T
  <2> QED
    BY <1>1, <1>2, SetInduction
<1>4. Cardinality(S) \in Nat
  BY FS_CardinalityType
<1> QED
  BY <1>3, <1>4

\* So the index publish computes is one.
LEMMA SortedIsSorted ==
    ASSUME NEW S \in SUBSET RecordEntries, IsFiniteSet(S)
    PROVE  /\ Cardinality(S) \in Nat
           /\ IsSorted(Sorted(S), S, Cardinality(S))
<1>1. PICK e : IsSorted(e, S, Cardinality(S))
  BY SortedExists
<1>2. Cardinality(S) \in Nat
  BY FS_CardinalityType
<1> DEFINE P(f) == /\ {f[k] : k \in 1..Cardinality(S)} = S
                   /\ \A a, b \in 1..Cardinality(S) : a < b => NewestFirst(f[a], f[b])
<1>3. e \in [1..Cardinality(S) -> S] /\ P(e)
  BY <1>1 DEF IsSorted
<1>4. Sorted(S) = CHOOSE f \in [1..Cardinality(S) -> S] : P(f)
  BY DEF Sorted
<1> HIDE DEF P
<1>5. Sorted(S) \in [1..Cardinality(S) -> S] /\ P(Sorted(S))
  BY <1>3, <1>4, Zenon
<1> USE DEF P
<1> QED
  BY <1>2, <1>5 DEF IsSorted
----------------------------------------------------------------------------
(* The inductive invariant *)

\* The files of a suite.  A record is in the file its path names.
Files ==
    {f \in [records : [Paths -> Record \cup {Torn, Absent}],
            contracts : [Contract -> Contract \cup {Torn, Absent}],
            index : Seq(Entries) \cup {Torn, Absent},
            latest : Record \cup {Torn, Absent}] :
        /\ IsFiniteSet(Present(f))
        /\ \A p \in Paths : f.records[p] \in Record => record_path(f.records[p]) = p}

History == [Suite -> Files]

\* Every record's contract is there.
ContractsAreThere(f) ==
    \A p \in Present(f) : f.contracts[f.records[p].contract] = f.records[p].contract

\* A history that may be on the branch.
GoodHistory(h) ==
    /\ h \in History
    /\ \A t \in Suite : Present(h[t]) # {} => PointersAgree(h[t]) /\ ContractsAreThere(h[t])
    /\ \A t, u \in Suite : h[t].records = h[u].records

\* f is what a job that publishes r may have made of b: a file that was there is
\* as it was, and only the two files of r may be new.
Follows(f, b, r) ==
    /\ \A p \in Paths : b.records[p] # Absent \/ p # record_path(r) => f.records[p] = b.records[p]
    /\ \A k \in Contract : b.contracts[k] # Absent \/ k # r.contract => f.contracts[k] = b.contracts[k]

\* A suite in which r has been published.
Published(f, r) ==
    /\ f.records[record_path(r)] = r /\ f.contracts[r.contract] = r.contract
    /\ PointersAgree(f)

\* The records of a suite once r is among them, and their entries.
With(f, r) == {f.records[p] : p \in Present(f)} \cup {r}
EntriesWith(f, r) == {Entry(x) : x \in With(f, r)}

Writing == {"record", "contract", "index", "latest", "published"}

\* What publish has checked and computed is still true of the files when it
\* writes, and what it has written so far is there.
Underway(f, jb) ==
    /\ f.records[record_path(jb.record)] \in {Absent, jb.record}
    /\ f.contracts[jb.record.contract] \in {Absent, jb.record.contract}
    /\ \A p \in Present(f) : f.records[p] \in Record
    /\ jb.entries = Sorted(EntriesWith(f, jb.record))
    /\ jb.latest \in With(f, jb.record) /\ Entry(jb.latest) = jb.entries[1]
    /\ jb.step # "record" => f.records[record_path(jb.record)] = jb.record
    /\ jb.step \in {"index", "latest", "published"} =>
          f.contracts[jb.record.contract] = jb.record.contract
    /\ jb.step \in {"latest", "published"} => f.index = jb.entries
    /\ jb.step = "published" => f.latest = jb.latest

JobFields ==
    [record : Record \cup {Absent}, suite : 1..Len(Suites),
     step : Writing \cup {"idle", "check", "push", "stopped"},
     entries : Seq(Entries), latest : Record \cup {Absent}]

\* A job that fetched b, with the checkout t.
JobIsRight(b, t, jb) ==
    /\ jb.step # "idle" =>
          /\ jb.record \in Record
          /\ \A u \in Suite : Follows(t[u], b[u], jb.record)
    /\ jb.step \in Writing \cup {"check"} =>
          \A i \in 1..Len(Suites) : i < jb.suite => Published(t[Suites[i]], jb.record)
    /\ jb.step = "push" => \A u \in Suite : Published(t[u], jb.record)
    /\ jb.step \in Writing => Underway(t[Suites[jb.suite]], jb)

\* The inductive invariant.
PublishInv ==
    /\ batch \subseteq Record
    /\ GoodHistory(branch)
    /\ base \in [Job -> History] /\ tree \in [Job -> History] /\ job \in [Job -> JobFields]
    /\ \A j \in Job : GoodHistory(base[j]) /\ JobIsRight(base[j], tree[j], job[j])

----------------------------------------------------------------------------
(* Files *)

\* What Sorted computes for a suite's entries.
LEMMA EntriesSorted ==
    ASSUME NEW f \in Files, NEW r \in Record,
           \A p \in Present(f) : f.records[p] \in Record
    PROVE  LET e == Sorted(EntriesWith(f, r)) IN
           /\ e \in Seq(Entries) /\ Len(e) >= 1
           /\ {e[k] : k \in 1..Len(e)} = EntriesWith(f, r)
           /\ \A a, b \in 1..Len(e) : a < b => NewestFirst(e[a], e[b])
           /\ e[1] \in EntriesWith(f, r)
<1> DEFINE S == EntriesWith(f, r)
           e == Sorted(S)
           n == Cardinality(S)
           P == Present(f)
<1>1. S \in SUBSET RecordEntries
  BY DEF EntriesWith, With, RecordEntries
<1>2. IsFiniteSet(S)
  <2> DEFINE g == [p \in P |-> Entry(f.records[p])]
             U == {Entry(f.records[p]) : p \in P}
  <2>1. g \in Surjection(P, U)
    BY DEF Surjection
  <2>2. IsFiniteSet(P)
    BY DEF Files
  <2> HIDE DEF g, U, P
  <2>3. IsFiniteSet(U)
    BY <2>1, <2>2, FS_Surjection
  <2>4. IsFiniteSet(U \cup {Entry(r)})
    BY <2>3, FS_AddElement
  <2>5. S = U \cup {Entry(r)}
    BY DEF U, P, EntriesWith, With
  <2> QED
    BY <2>4, <2>5
<1>3. n \in Nat /\ IsSorted(e, S, n)
  BY <1>1, <1>2, SortedIsSorted
<1>4. Entry(r) \in S
  BY DEF EntriesWith, With
<1>5. S # {} /\ S \subseteq Entries
  BY <1>1, <1>4, KeyOrders
<1> HIDE DEF S, e, n
<1>6. e \in [1..n -> Entries]
  BY <1>3, <1>5 DEF IsSorted
<1>7. e \in Seq(Entries) /\ Len(e) = n
  BY <1>3, <1>6
<1>8. n # 0
  BY <1>3, <1>5 DEF IsSorted
<1>9. n >= 1 /\ 1 \in 1..n
  BY <1>3, <1>8
<1>10. e[1] \in S
  BY <1>3, <1>9 DEF IsSorted
<1>11. /\ {e[k] : k \in 1..n} = S
       /\ \A a, b \in 1..n : a < b => NewestFirst(e[a], e[b])
  BY <1>3 DEF IsSorted
<1>12. /\ e \in Seq(Entries) /\ Len(e) >= 1
       /\ {e[k] : k \in 1..Len(e)} = S
       /\ \A a, b \in 1..Len(e) : a < b => NewestFirst(e[a], e[b])
       /\ e[1] \in S
  BY <1>7, <1>9, <1>10, <1>11
<1> QED
  BY <1>12 DEF S, e

\* When publish succeeds the suite is in order.
LEMMA PublishedAtEnd ==
    ASSUME NEW f \in Files, NEW jb \in JobFields, jb.record \in Record,
           Underway(f, jb), jb.step = "published"
    PROVE  Published(f, jb.record)
<1> DEFINE r == jb.record
           e == jb.entries
<1>1. /\ f.records[record_path(r)] = r /\ f.contracts[r.contract] = r.contract
      /\ f.index = e /\ f.latest = jb.latest
      /\ jb.latest \in With(f, r) /\ Entry(jb.latest) = e[1]
      /\ e = Sorted(EntriesWith(f, r))
      /\ \A p \in Present(f) : f.records[p] \in Record
  BY DEF Underway
<1>2. /\ e \in Seq(Entries)
      /\ {e[k] : k \in 1..Len(e)} = EntriesWith(f, r)
      /\ \A a, b \in 1..Len(e) : a < b => NewestFirst(e[a], e[b])
  BY <1>1, EntriesSorted
<1>3. With(f, r) = {f.records[p] : p \in Present(f)}
  <2>1. record_path(r) \in Present(f)
    <3>1. record_path(r) \in Paths /\ r # Absent
      BY FileAssumption DEF Paths
    <3> QED
      BY <1>1, <3>1 DEF Present
  <2> QED
    BY <1>1, <2>1 DEF With
<1>4. {f.records[p] : p \in Present(f)} \subseteq Record
  BY <1>1
<1>5. f.index # Torn /\ f.latest # Torn
  BY <1>1, <1>2, <1>3, <1>4, FileAssumption
<1>6. {f.index[k] : k \in 1..Len(f.index)} = {Entry(x) : x \in {f.records[p] : p \in Present(f)}}
  BY <1>1, <1>2, <1>3, ZenonT(30) DEF EntriesWith
<1>7. \A a, b \in 1..Len(f.index) : a < b =>
         \/ f.index[a].recorded_at > f.index[b].recorded_at
         \/ f.index[a].recorded_at = f.index[b].recorded_at /\ f.index[a].id > f.index[b].id
  BY <1>1, <1>2 DEF NewestFirst
<1>8. f.latest \in {f.records[p] : p \in Present(f)} /\ Entry(f.latest) = f.index[1]
  BY <1>1, <1>3
<1>9. PointersAgree(f)
  BY <1>4, <1>5, <1>6, <1>7, <1>8, Zenon DEF PointersAgree
<1> QED
  BY <1>1, <1>9 DEF Published

\* A history whose suites follow a good one and have r published is good.
LEMMA PublishedIsGood ==
    ASSUME NEW b, GoodHistory(b), NEW h \in History, NEW r \in Record,
           \A t \in Suite : Follows(h[t], b[t], r) /\ Published(h[t], r)
    PROVE  /\ GoodHistory(h)
           /\ \A t \in Suite : \A p \in Present(b[t]) : h[t].records[p] = b[t].records[p]
<1>1. b \in History
  BY DEF GoodHistory
<1>2. ASSUME NEW t \in Suite, NEW p \in Present(b[t])
      PROVE  h[t].records[p] = b[t].records[p]
  BY DEF Present, Follows
<1>3. ASSUME NEW t \in Suite
      PROVE  PointersAgree(h[t]) /\ ContractsAreThere(h[t])
  <2>1. PointersAgree(h[t])
    BY DEF Published
  <2> SUFFICES ASSUME NEW p \in Present(h[t])
               PROVE  h[t].contracts[h[t].records[p].contract] = h[t].records[p].contract
    BY <2>1 DEF ContractsAreThere
  <2> DEFINE x == h[t].records[p]
  <2>2. h[t] \in Files /\ b[t] \in Files
    BY <1>1 DEF History
  <2>3. p \in Paths /\ x # Absent /\ x \in Record
    BY <2>1 DEF Present, PointersAgree
  <2>4. x.contract \in Contract /\ x.contract # Absent
    BY <2>3, RecordAssumption, FileAssumption
  <2>5. CASE p = record_path(r)
    BY <2>5, Zenon DEF Published
  <2>6. CASE p # record_path(r)
    <3>1. b[t].records[p] = x
      BY <2>3, <2>6 DEF Follows
    <3>2. p \in Present(b[t])
      BY <2>3, <3>1 DEF Present
    <3>3. b[t].contracts[x.contract] = x.contract
      BY <3>1, <3>2 DEF GoodHistory, ContractsAreThere
    <3> QED
      BY <2>4, <3>3 DEF Follows
  <2> QED
    BY <2>5, <2>6
<1>4. ASSUME NEW t \in Suite, NEW u \in Suite
      PROVE  h[t].records = h[u].records
  <2>1. /\ h[t].records \in [Paths -> Record \cup {Torn, Absent}]
        /\ h[u].records \in [Paths -> Record \cup {Torn, Absent}]
    BY DEF History, Files
  <2>2. b[t].records = b[u].records
    BY DEF GoodHistory
  <2>3. ASSUME NEW p \in Paths
        PROVE  h[t].records[p] = h[u].records[p]
    BY <2>2 DEF Follows, Published
  <2> QED
    BY <2>1, <2>3
<1> QED
  BY <1>2, <1>3, <1>4 DEF GoodHistory

----------------------------------------------------------------------------
(* The steps of a job *)

\* A step concerns one job, and perhaps the branch.
LEMMA OneJob ==
    ASSUME PublishInv, UNCHANGED batch, GoodHistory(branch'),
           NEW j \in Job, NEW b, NEW t \in History, NEW jb \in JobFields,
           GoodHistory(b), JobIsRight(b, t, jb),
           base' = [base EXCEPT ![j] = b], tree' = [tree EXCEPT ![j] = t],
           job' = [job EXCEPT ![j] = jb]
    PROVE  PublishInv'
<1>1. /\ base \in [Job -> History] /\ tree \in [Job -> History] /\ job \in [Job -> JobFields]
      /\ \A i \in Job : GoodHistory(base[i]) /\ JobIsRight(base[i], tree[i], job[i])
      /\ batch \subseteq Record
  BY Zenon DEF PublishInv
<1>2. b \in History
  BY DEF GoodHistory
<1>3. base' \in [Job -> History] /\ tree' \in [Job -> History] /\ job' \in [Job -> JobFields]
  BY <1>1, <1>2
<1>4. ASSUME NEW i \in Job
      PROVE  GoodHistory(base'[i]) /\ JobIsRight(base'[i], tree'[i], job'[i])
  <2>1. CASE i = j
    <3>1. base'[i] = b /\ tree'[i] = t /\ job'[i] = jb
      BY <1>1, <2>1
    <3> QED
      BY <3>1
  <2>2. CASE i # j
    <3>1. base'[i] = base[i] /\ tree'[i] = tree[i] /\ job'[i] = job[i]
      BY <1>1, <2>2
    <3> QED
      BY <1>1, <3>1
  <2> QED
    BY <2>1, <2>2
<1>5. batch' \subseteq Record
  BY <1>1
<1> QED
  BY <1>3, <1>4, <1>5, Zenon DEF PublishInv

\* What the invariant says of one job.
LEMMA JobFacts ==
    ASSUME PublishInv, NEW j \in Job
    PROVE  /\ GoodHistory(branch) /\ branch \in History
           /\ base[j] \in History /\ tree[j] \in History /\ job[j] \in JobFields
           /\ GoodHistory(base[j]) /\ JobIsRight(base[j], tree[j], job[j])
           /\ base = [base EXCEPT ![j] = base[j]] /\ tree = [tree EXCEPT ![j] = tree[j]]
           /\ job[j].suite \in 1..Len(Suites) /\ Suites[job[j].suite] \in Suite
           /\ s(j) = Suites[job[j].suite] /\ files(j) = tree[j][s(j)] /\ files(j) \in Files
           /\ rec(j) = job[j].record /\ output(j) = record_path(rec(j))
<1>1. /\ base \in [Job -> History] /\ tree \in [Job -> History] /\ job \in [Job -> JobFields]
      /\ GoodHistory(base[j]) /\ JobIsRight(base[j], tree[j], job[j]) /\ GoodHistory(branch)
  BY Zenon DEF PublishInv
<1>2. job[j].suite \in 1..Len(Suites)
  BY <1>1 DEF JobFields
<1>3. Suites[job[j].suite] \in Suite
  BY <1>2 DEF Suite
<1> QED
  BY <1>1, <1>2, <1>3 DEF s, files, rec, output, History, GoodHistory

Started(r, step) == [Idle EXCEPT !.record = r, !.step = step]

LEMMA StartedIs ==
    ASSUME NEW r, NEW step
    PROVE  Started(r, step) =
             [record |-> r, suite |-> 1, step |-> step, entries |-> << >>, latest |-> Absent]
<1>1. [Idle EXCEPT !.record = r] =
        [record |-> r, suite |-> 1, step |-> "idle", entries |-> << >>, latest |-> Absent]
  BY DEF Idle
<1>2. Started(r, step) = [[Idle EXCEPT !.record = r] EXCEPT !.step = step]
  BY DEF Started
<1> QED
  BY <1>1, <1>2, Zenon

LEMMA StartedFields ==
    ASSUME NEW r \in Record, NEW step \in {"check", "push", "stopped"}
    PROVE  /\ Started(r, step) \in JobFields
           /\ Started(r, step).record = r /\ Started(r, step).step = step
           /\ Started(r, step).suite = 1
<1>1. Started(r, step) = [record |-> r, suite |-> 1, step |-> step, entries |-> <<>>, latest |-> Absent]
  BY StartedIs
<1>2. 1 \in 1..Len(Suites)
  BY SuiteAssumption
<1>3. << >> \in Seq(Entries) /\ step \in Writing \cup {"idle", "check", "push", "stopped"}
  OBVIOUS
<1>4. Started(r, step) \in JobFields
  BY <1>1, <1>2, <1>3 DEF JobFields
<1> QED
  BY <1>1, <1>4

LEMMA IdleFields == Idle \in JobFields /\ Idle.step = "idle"
<1>1. 1 \in 1..Len(Suites)
  BY SuiteAssumption
<1>2. << >> \in Seq(Entries)
  OBVIOUS
<1> QED
  BY <1>1, <1>2 DEF JobFields, Idle, Writing

LEMMA IdleIsRight ==
    ASSUME NEW b, NEW t
    PROVE  JobIsRight(b, t, Idle)
  BY IdleFields DEF JobIsRight, Writing

\* A job that starts over, or has stopped, has only to follow what it fetched.
LEMMA StartedIsRight ==
    ASSUME NEW b, NEW t, NEW r \in Record, NEW step \in {"check", "stopped"},
           \A u \in Suite : Follows(t[u], b[u], r)
    PROVE  JobIsRight(b, t, Started(r, step))
<1> DEFINE jb == Started(r, step)
<1>1. jb.record = r /\ jb.step = step /\ jb.suite = 1
  BY StartedFields
<1>2. jb.step \notin Writing /\ jb.step # "push"
  BY <1>1 DEF Writing
<1>3. \A i \in 1..Len(Suites) : ~(i < jb.suite)
  BY <1>1, SuiteAssumption
<1> HIDE DEF jb
<1>4. JobIsRight(b, t, jb)
  BY <1>1, <1>2, <1>3 DEF JobIsRight
<1> QED
  BY <1>4 DEF jb

LEMMA EmptyIsGood == EmptyHistory \in History /\ GoodHistory(EmptyHistory)
<1> DEFINE f == [records |-> [p \in Paths |-> Absent], contracts |-> [k \in Contract |-> Absent],
                 index |-> Absent, latest |-> Absent]
<1>1. Present(f) = {}
  BY DEF Present
<1>2. f \in Files
  BY <1>1, FS_EmptySet, FileAssumption, Zenon DEF Files
<1>3. EmptyHistory = [t \in Suite |-> f]
  BY DEF EmptyHistory
<1> HIDE DEF f
<1>4. EmptyHistory \in History
  BY <1>2, <1>3 DEF History
<1>5. \A t \in Suite : EmptyHistory[t] = f
  BY <1>3
<1> QED
  BY <1>1, <1>4, <1>5 DEF GoodHistory

LEMMA PublishStarts == Init => PublishInv
<1> SUFFICES ASSUME Init
             PROVE  PublishInv
  OBVIOUS
<1>1. batch \subseteq Record
  BY RecordAssumption DEF Init
<1>2. /\ branch = EmptyHistory /\ base = [j \in Job |-> EmptyHistory]
      /\ tree = [j \in Job |-> EmptyHistory] /\ job = [j \in Job |-> Idle]
  BY DEF Init
<1>3. base \in [Job -> History] /\ tree \in [Job -> History] /\ job \in [Job -> JobFields]
  BY <1>2, EmptyIsGood, IdleFields
<1>4. \A j \in Job : GoodHistory(base[j]) /\ JobIsRight(base[j], tree[j], job[j])
  BY <1>2, EmptyIsGood, IdleIsRight
<1> QED
  BY <1>1, <1>2, <1>3, <1>4, EmptyIsGood DEF PublishInv

LEMMA FetchKeeps ==
    ASSUME PublishInv, UNCHANGED batch, NEW j \in Job, NEW r \in batch, Fetch(j, r)
    PROVE  PublishInv'
<1>1. r \in Record
  BY DEF PublishInv
<1>2. PICK h \in {branch, EmptyHistory} :
        base' = [base EXCEPT ![j] = h] /\ tree' = [tree EXCEPT ![j] = h]
  BY Zenon DEF Fetch
<1>3. job' = [job EXCEPT ![j] = Started(r, "check")] /\ branch' = branch
  BY Zenon DEF Fetch, Started
<1>4. GoodHistory(branch) /\ GoodHistory(h) /\ h \in History
  BY <1>2, JobFacts, EmptyIsGood, Zenon
<1>5. \A u \in Suite : Follows(h[u], h[u], r)
  BY DEF Follows
<1>6. JobIsRight(h, h, Started(r, "check"))
  BY <1>1, <1>5, StartedIsRight
<1>7. Started(r, "check") \in JobFields
  BY <1>1, StartedFields
<1>8. GoodHistory(branch')
  BY <1>3, <1>4, Zenon
<1> QED
  BY <1>2, <1>3, <1>4, <1>6, <1>7, <1>8, OneJob, Zenon

\* The process ends with the checkout t, or begins again in it.
LEMMA StopsOrRetries ==
    ASSUME PublishInv, UNCHANGED <<batch, branch, base>>, NEW j \in Job,
           job[j].step # "idle", NEW t \in History, tree' = [tree EXCEPT ![j] = t],
           \A u \in Suite : Follows(t[u], base[j][u], job[j].record),
           NEW step \in {"check", "stopped"},
           job' = [job EXCEPT ![j] = [Idle EXCEPT !.record = job[j].record, !.step = step]]
    PROVE  PublishInv'
<1> DEFINE r == job[j].record
<1>1. /\ GoodHistory(branch) /\ base = [base EXCEPT ![j] = base[j]]
      /\ GoodHistory(base[j]) /\ JobIsRight(base[j], tree[j], job[j])
  BY JobFacts
<1>2. r \in Record
  BY <1>1 DEF JobIsRight
<1>3. base' = [base EXCEPT ![j] = base[j]] /\ GoodHistory(branch')
  BY <1>1
<1>4. job' = [job EXCEPT ![j] = Started(r, step)]
  BY DEF Started
<1>5. JobIsRight(base[j], t, Started(r, step)) /\ Started(r, step) \in JobFields
  BY <1>2, StartedIsRight, StartedFields
<1> QED
  BY <1>1, <1>3, <1>4, <1>5, OneJob, Zenon

\* The same where the checkout is left as it is.
LEMMA StopKeeps ==
    ASSUME PublishInv, UNCHANGED <<batch, branch, base, tree>>, NEW j \in Job,
           job[j].step # "idle", NEW step \in {"check", "stopped"},
           job' = [job EXCEPT ![j] = [Idle EXCEPT !.record = job[j].record, !.step = step]]
    PROVE  PublishInv'
<1>1. /\ tree[j] \in History /\ tree = [tree EXCEPT ![j] = tree[j]]
      /\ JobIsRight(base[j], tree[j], job[j])
  BY JobFacts
<1>2. \A u \in Suite : Follows(tree[j][u], base[j][u], job[j].record)
  BY <1>1 DEF JobIsRight
<1>3. tree' = [tree EXCEPT ![j] = tree[j]]
  BY <1>1
<1> QED
  BY <1>1, <1>2, <1>3, StopsOrRetries, Zenon

LEMMA DiscardKeeps ==
    ASSUME PublishInv, UNCHANGED batch, GoodHistory(branch'), NEW j \in Job, Discard(j)
    PROVE  PublishInv'
  BY OneJob, EmptyIsGood, IdleFields, IdleIsRight, Zenon DEF Discard

\* The job at its next step.
LEMMA StepFields ==
    ASSUME NEW jb \in JobFields, NEW next \in Writing
    PROVE  LET new == [jb EXCEPT !.step = next] IN
           /\ new \in JobFields /\ new.step = next
           /\ new.record = jb.record /\ new.suite = jb.suite
           /\ new.entries = jb.entries /\ new.latest = jb.latest
  BY DEF JobFields

\* A write of the suite a job is at: the other suites are as they were.
LEMMA TreeWritten ==
    ASSUME PublishInv, NEW j \in Job, job[j].step \in Writing,
           NEW f \in Files, Follows(f, base[j][s(j)], rec(j))
    PROVE  LET t == [tree[j] EXCEPT ![s(j)] = f] IN
           /\ [tree EXCEPT ![j][s(j)] = f] = [tree EXCEPT ![j] = t]
           /\ t \in History /\ t[Suites[job[j].suite]] = f
           /\ \A u \in Suite : Follows(t[u], base[j][u], rec(j))
           /\ \A i \in 1..Len(Suites) : i < job[j].suite => Published(t[Suites[i]], rec(j))
<1> DEFINE t == [tree[j] EXCEPT ![s(j)] = f]
<1>1. /\ tree[j] \in History /\ s(j) = Suites[job[j].suite] /\ s(j) \in Suite
      /\ job[j].suite \in 1..Len(Suites) /\ rec(j) = job[j].record
      /\ JobIsRight(base[j], tree[j], job[j])
  BY JobFacts
<1>2. job[j].step # "idle"
  BY Zenon DEF Writing
<1>3. /\ \A u \in Suite : Follows(tree[j][u], base[j][u], rec(j))
      /\ \A i \in 1..Len(Suites) : i < job[j].suite => Published(tree[j][Suites[i]], rec(j))
  BY <1>1, <1>2 DEF JobIsRight
<1>4. t \in History /\ t[s(j)] = f /\ \A u \in Suite : u # s(j) => t[u] = tree[j][u]
  BY <1>1 DEF History
<1>5. [tree EXCEPT ![j][s(j)] = f] = [tree EXCEPT ![j] = t]
  OBVIOUS
<1> HIDE DEF t
<1>6. ASSUME NEW u \in Suite
      PROVE  Follows(t[u], base[j][u], rec(j))
  BY <1>3, <1>4
<1>7. ASSUME NEW i \in 1..Len(Suites), i < job[j].suite
      PROVE  Published(t[Suites[i]], rec(j))
  <2>1. Suites[i] # s(j) /\ Suites[i] \in Suite
    <3>1. i # job[j].suite
      BY <1>1, <1>7, SuiteAssumption
    <3> QED
      BY <1>1, <3>1, SuiteAssumption, Zenon DEF Suite
  <2>2. t[Suites[i]] = tree[j][Suites[i]]
    BY <1>4, <2>1
  <2> QED
    BY <1>3, <1>7, <2>2
<1>8. t[Suites[job[j].suite]] = f
  BY <1>1, <1>4
<1> QED
  BY <1>4, <1>5, <1>6, <1>7, <1>8 DEF t

LEMMA WrittenKeeps ==
    ASSUME PublishInv, UNCHANGED <<batch, branch, base>>, NEW j \in Job,
           job[j].step \in Writing, NEW next \in Writing,
           NEW f \in Files, Follows(f, base[j][s(j)], rec(j)),
           Underway(f, [job[j] EXCEPT !.step = next]),
           tree' = [tree EXCEPT ![j][s(j)] = f],
           job' = [job EXCEPT ![j].step = next]
    PROVE  PublishInv'
<1> DEFINE t == [tree[j] EXCEPT ![s(j)] = f]
           jb == [job[j] EXCEPT !.step = next]
<1>1. /\ [tree EXCEPT ![j][s(j)] = f] = [tree EXCEPT ![j] = t]
      /\ t \in History /\ t[Suites[job[j].suite]] = f
      /\ \A u \in Suite : Follows(t[u], base[j][u], rec(j))
      /\ \A i \in 1..Len(Suites) : i < job[j].suite => Published(t[Suites[i]], rec(j))
  BY TreeWritten
<1>2. /\ GoodHistory(branch) /\ base = [base EXCEPT ![j] = base[j]]
      /\ GoodHistory(base[j]) /\ JobIsRight(base[j], tree[j], job[j])
      /\ job[j] \in JobFields /\ rec(j) = job[j].record
  BY JobFacts
<1>3. jb \in JobFields /\ jb.step = next /\ jb.record = job[j].record /\ jb.suite = job[j].suite
  BY <1>2, StepFields
<1>4. job[j].record \in Record
  BY <1>2 DEF JobIsRight, Writing
<1>5. job' = [job EXCEPT ![j] = jb]
  OBVIOUS
<1>6. Underway(f, jb)
  OBVIOUS
<1> HIDE DEF t, jb
<1>7. jb.step # "push"
  BY <1>3 DEF Writing
<1>8. JobIsRight(base[j], t, jb)
  BY <1>1, <1>2, <1>3, <1>4, <1>6, <1>7 DEF JobIsRight
<1>9. /\ base' = [base EXCEPT ![j] = base[j]] /\ GoodHistory(branch')
      /\ tree' = [tree EXCEPT ![j] = t] /\ UNCHANGED batch
  BY <1>1, <1>2
<1>10. t \in History /\ GoodHistory(base[j]) /\ jb \in JobFields
  BY <1>1, <1>2, <1>3
<1> QED
  BY <1>5, <1>8, <1>9, <1>10, OneJob, ZenonT(30)

LEMMA TornKeeps ==
    ASSUME PublishInv, UNCHANGED <<batch, branch, base>>, NEW j \in Job,
           job[j].step \in Writing,
           NEW f \in Files, Follows(f, base[j][s(j)], rec(j)),
           tree' = [tree EXCEPT ![j][s(j)] = f], Stop(j)
    PROVE  PublishInv'
<1> DEFINE t == [tree[j] EXCEPT ![s(j)] = f]
<1>1. /\ [tree EXCEPT ![j][s(j)] = f] = [tree EXCEPT ![j] = t]
      /\ t \in History
      /\ \A u \in Suite : Follows(t[u], base[j][u], rec(j))
  BY TreeWritten
<1>2. rec(j) = job[j].record
  BY JobFacts
<1>3. job[j].step # "idle"
  BY DEF Writing
<1>4. job' = [job EXCEPT ![j] = [Idle EXCEPT !.record = job[j].record, !.step = "stopped"]]
  BY DEF Stop
<1> HIDE DEF t
<1>5. /\ t \in History /\ tree' = [tree EXCEPT ![j] = t]
      /\ \A u \in Suite : Follows(t[u], base[j][u], job[j].record)
      /\ "stopped" \in {"check", "stopped"}
  BY <1>1, <1>2
<1> QED
  BY <1>3, <1>4, <1>5, StopsOrRetries, Zenon

\* Write, with both ends it may have.
LEMMA WriteKeeps ==
    ASSUME PublishInv, UNCHANGED batch, NEW j \in Job,
           job[j].step \in Writing, NEW next \in Writing, NEW whole \in Files, NEW torn \in Files,
           Follows(whole, base[j][s(j)], rec(j)), Follows(torn, base[j][s(j)], rec(j)),
           Underway(whole, [job[j] EXCEPT !.step = next]),
           Write(j, next, whole, torn)
    PROVE  PublishInv'
<1>1. UNCHANGED <<batch, branch, base>>
  BY DEF Write
<1>2. CASE /\ tree' = [tree EXCEPT ![j][s(j)] = whole]
           /\ job' = [job EXCEPT ![j].step = next]
  BY <1>1, <1>2, WrittenKeeps, Zenon
<1>3. CASE /\ tree' = [tree EXCEPT ![j][s(j)] = torn]
           /\ Stop(j)
  BY <1>1, <1>3, TornKeeps, Zenon
<1> QED
  BY <1>2, <1>3, Zenon DEF Write

LEMMA SkipKeeps ==
    ASSUME PublishInv, UNCHANGED batch, NEW j \in Job,
           job[j].step \in Writing, NEW next \in Writing,
           Underway(files(j), [job[j] EXCEPT !.step = next]), Skip(j, next)
    PROVE  PublishInv'
<1>1. /\ tree[j] \in History /\ files(j) = tree[j][s(j)] /\ files(j) \in Files
      /\ JobIsRight(base[j], tree[j], job[j]) /\ rec(j) = job[j].record
      /\ s(j) \in Suite /\ tree = [tree EXCEPT ![j] = tree[j]]
  BY JobFacts
<1>2. Follows(files(j), base[j][s(j)], rec(j))
  BY <1>1 DEF JobIsRight, Writing
<1>3. tree[j] = [tree[j] EXCEPT ![s(j)] = files(j)]
  BY <1>1 DEF History
<1>4. tree' = [tree EXCEPT ![j][s(j)] = files(j)]
  BY <1>1, <1>3 DEF Skip
<1>5. UNCHANGED <<batch, branch, base>> /\ job' = [job EXCEPT ![j].step = next]
  BY DEF Skip
<1> QED
  BY <1>1, <1>2, <1>4, <1>5, WrittenKeeps, Zenon

\* What a job that is about to write has to go by.
LEMMA WritingFacts ==
    ASSUME PublishInv, NEW j \in Job, job[j].step \in Writing
    PROVE  /\ job[j] \in JobFields /\ files(j) \in Files
           /\ rec(j) = job[j].record /\ rec(j) \in Record /\ output(j) = record_path(rec(j))
           /\ output(j) \in Paths /\ rec(j).contract \in Contract
           /\ Underway(files(j), job[j])
           /\ Follows(files(j), base[j][s(j)], rec(j))
<1>1. /\ job[j] \in JobFields /\ files(j) \in Files /\ files(j) = tree[j][s(j)]
      /\ s(j) = Suites[job[j].suite] /\ s(j) \in Suite
      /\ rec(j) = job[j].record /\ output(j) = record_path(rec(j))
      /\ JobIsRight(base[j], tree[j], job[j])
  BY JobFacts, Zenon
<1>2. /\ rec(j) \in Record /\ Underway(files(j), job[j])
      /\ Follows(files(j), base[j][s(j)], rec(j))
  BY <1>1, Zenon DEF JobIsRight, Writing
<1>3. output(j) \in Paths /\ rec(j).contract \in Contract
  BY <1>1, <1>2, RecordAssumption DEF Paths
<1> QED
  BY <1>1, <1>2, <1>3, Zenon
\* A suite with another record file or contract file, or other pointers.
LEMMA RecordFile ==
    ASSUME NEW f \in Files, NEW r \in Record, NEW v \in {Torn, r},
           f.records[record_path(r)] = Absent
    PROVE  LET g == [f EXCEPT !.records[record_path(r)] = v] IN
           /\ g \in Files
           /\ \A b : Follows(f, b, r) => Follows(g, b, r)
           /\ g.records[record_path(r)] = v /\ g.contracts = f.contracts
           /\ v = r => /\ With(g, r) = With(f, r)
                       /\ (\A p \in Present(f) : f.records[p] \in Record) =>
                             \A p \in Present(g) : g.records[p] \in Record
<1> DEFINE o == record_path(r)
           g == [f EXCEPT !.records[o] = v]
<1>1. o \in Paths
  BY DEF Paths
<1>2. /\ f.records \in [Paths -> Record \cup {Torn, Absent}] /\ IsFiniteSet(Present(f))
      /\ \A p \in Paths : f.records[p] \in Record => record_path(f.records[p]) = p
  BY DEF Files
<1>3. /\ g.records = [f.records EXCEPT ![o] = v] /\ g.contracts = f.contracts
      /\ g \in [records : [Paths -> Record \cup {Torn, Absent}],
                contracts : [Contract -> Contract \cup {Torn, Absent}],
                index : Seq(Entries) \cup {Torn, Absent},
                latest : Record \cup {Torn, Absent}]
  <2>1. f \in [records : [Paths -> Record \cup {Torn, Absent}],
                contracts : [Contract -> Contract \cup {Torn, Absent}],
                index : Seq(Entries) \cup {Torn, Absent},
                latest : Record \cup {Torn, Absent}]
    BY DEF Files
  <2>2. [f.records EXCEPT ![o] = v] \in [Paths -> Record \cup {Torn, Absent}]
    BY <1>2, Zenon
  <2>3. g = [f EXCEPT !.records = [f.records EXCEPT ![o] = v]]
    OBVIOUS
  <2> DEFINE n == [f.records EXCEPT ![o] = v]
  <2> HIDE DEF n
  <2>4. LET h == [f EXCEPT !.records = n] IN
        /\ h.records = n /\ h.contracts = f.contracts
        /\ h \in [records : [Paths -> Record \cup {Torn, Absent}],
                  contracts : [Contract -> Contract \cup {Torn, Absent}],
                  index : Seq(Entries) \cup {Torn, Absent},
                  latest : Record \cup {Torn, Absent}]
    BY <2>1, <2>2 DEF n
  <2> QED
    BY <2>3, <2>4 DEF n
<1> HIDE DEF g
<1>4. g.records[o] = v /\ \A p \in Paths : p # o => g.records[p] = f.records[p]
  BY <1>1, <1>2, <1>3
<1>5. v # Absent /\ r # Absent
  BY FileAssumption
<1>6. Present(g) = Present(f) \cup {o}
  BY <1>1, <1>4, <1>5 DEF Present
<1>7. IsFiniteSet(Present(g))
  BY <1>2, <1>6, FS_AddElement
<1>8. \A p \in Paths : g.records[p] \in Record => record_path(g.records[p]) = p
  BY <1>2, <1>4, FileAssumption
<1>9. g \in Files
  BY <1>3, <1>7, <1>8 DEF Files
<1>10. ASSUME NEW b, Follows(f, b, r)
       PROVE  Follows(g, b, r)
  <2>1. b.records[o] = Absent
    BY <1>1, <1>10 DEF Follows
  <2> QED
    BY <1>3, <1>4, <1>10, <2>1 DEF Follows
<1>11. ASSUME v = r
       PROVE  /\ With(g, r) = With(f, r)
              /\ (\A p \in Present(f) : f.records[p] \in Record) =>
                    \A p \in Present(g) : g.records[p] \in Record
  <2>1. o \notin Present(f) /\ Present(f) \subseteq Paths
    BY DEF Present
  <2>2. \A p \in Present(f) : g.records[p] = f.records[p]
    BY <1>4, <2>1
  <2> QED
    BY <1>4, <1>6, <1>11, <2>2 DEF With
<1> QED
  BY <1>3, <1>4, <1>9, <1>10, <1>11 DEF g

LEMMA ContractFile ==
    ASSUME NEW f \in Files, NEW r \in Record, NEW v \in {Torn, r.contract},
           f.contracts[r.contract] = Absent
    PROVE  LET g == [f EXCEPT !.contracts[r.contract] = v] IN
           /\ g \in Files
           /\ \A b : Follows(f, b, r) => Follows(g, b, r)
           /\ g.records = f.records /\ g.contracts[r.contract] = v
           /\ Present(g) = Present(f) /\ With(g, r) = With(f, r)
<1> DEFINE o == r.contract
           g == [f EXCEPT !.contracts[o] = v]
<1>1. o \in Contract
  BY RecordAssumption
<1>2. /\ IsFiniteSet(Present(f)) /\ f.contracts \in [Contract -> Contract \cup {Torn, Absent}]
      /\ \A p \in Paths : f.records[p] \in Record => record_path(f.records[p]) = p
  BY DEF Files
<1>3. /\ g.contracts = [f.contracts EXCEPT ![o] = v] /\ g.records = f.records
      /\ g \in [records : [Paths -> Record \cup {Torn, Absent}],
                contracts : [Contract -> Contract \cup {Torn, Absent}],
                index : Seq(Entries) \cup {Torn, Absent},
                latest : Record \cup {Torn, Absent}]
  <2>1. f \in [records : [Paths -> Record \cup {Torn, Absent}],
                contracts : [Contract -> Contract \cup {Torn, Absent}],
                index : Seq(Entries) \cup {Torn, Absent},
                latest : Record \cup {Torn, Absent}]
    BY DEF Files
  <2>2. [f.contracts EXCEPT ![o] = v] \in [Contract -> Contract \cup {Torn, Absent}]
    BY <1>1, <1>2
  <2>3. g = [f EXCEPT !.contracts = [f.contracts EXCEPT ![o] = v]]
    OBVIOUS
  <2> DEFINE n == [f.contracts EXCEPT ![o] = v]
  <2> HIDE DEF n
  <2>4. LET h == [f EXCEPT !.contracts = n] IN
        /\ h.contracts = n /\ h.records = f.records
        /\ h \in [records : [Paths -> Record \cup {Torn, Absent}],
                  contracts : [Contract -> Contract \cup {Torn, Absent}],
                  index : Seq(Entries) \cup {Torn, Absent},
                  latest : Record \cup {Torn, Absent}]
    BY <2>1, <2>2, Zenon DEF n
  <2> QED
    BY <2>3, <2>4 DEF n
<1> HIDE DEF g
<1>4. g.contracts[o] = v /\ \A k \in Contract : k # o => g.contracts[k] = f.contracts[k]
  BY <1>1, <1>2, <1>3
<1>5. Present(g) = Present(f) /\ With(g, r) = With(f, r)
  BY <1>3 DEF Present, With
<1>6. g \in Files
  BY <1>2, <1>3, <1>5 DEF Files
<1>7. ASSUME NEW b, Follows(f, b, r)
      PROVE  Follows(g, b, r)
  <2>1. b.contracts[o] = Absent
    BY <1>1, <1>7 DEF Follows
  <2> QED
    BY <1>3, <1>4, <1>7, <2>1 DEF Follows
<1> QED
  BY <1>3, <1>4, <1>5, <1>6, <1>7 DEF g

\* A suite with other pointers.
LEMMA PointerFile ==
    ASSUME NEW f \in Files, NEW r, NEW g \in [records : [Paths -> Record \cup {Torn, Absent}],
                contracts : [Contract -> Contract \cup {Torn, Absent}],
                index : Seq(Entries) \cup {Torn, Absent},
                latest : Record \cup {Torn, Absent}],
           g.records = f.records, g.contracts = f.contracts
    PROVE  /\ g \in Files /\ Present(g) = Present(f) /\ With(g, r) = With(f, r)
           /\ \A b : Follows(f, b, r) => Follows(g, b, r)
<1>1. Present(g) = Present(f) /\ With(g, r) = With(f, r)
  BY DEF Present, With
<1>2. g \in Files
  BY <1>1 DEF Files
<1> QED
  BY <1>1, <1>2 DEF Follows
\* The check finds the index and the newest record that the files will have.
LEMMA CheckKeeps ==
    ASSUME PublishInv, UNCHANGED batch, NEW j \in Job, Check(j)
    PROVE  PublishInv'
<1> DEFINE f == files(j)
           r == rec(j)
<1>1. /\ job[j] \in JobFields /\ f \in Files /\ f = tree[j][s(j)]
      /\ s(j) = Suites[job[j].suite] /\ s(j) \in Suite /\ output(j) = record_path(r)
      /\ r = job[j].record /\ JobIsRight(base[j], tree[j], job[j])
      /\ GoodHistory(branch) /\ GoodHistory(base[j]) /\ tree[j] \in History
      /\ base = [base EXCEPT ![j] = base[j]] /\ tree = [tree EXCEPT ![j] = tree[j]]
  BY JobFacts
<1>2. job[j].step = "check" /\ UNCHANGED <<branch, base, tree>>
  BY Zenon DEF Check
<1>3. /\ r \in Record /\ \A u \in Suite : Follows(tree[j][u], base[j][u], r)
      /\ \A i \in 1..Len(Suites) : i < job[j].suite => Published(tree[j][Suites[i]], r)
  BY <1>1, <1>2 DEF JobIsRight
<1>4. CASE Stop(j)
  <2>2. job' = [job EXCEPT ![j] = [Idle EXCEPT !.record = job[j].record, !.step = "stopped"]]
    BY <1>4 DEF Stop
  <2>3. job[j].step # "idle" /\ UNCHANGED <<batch, branch, base, tree>>
        /\ "stopped" \in {"check", "stopped"}
    BY <1>2
  <2> QED
    BY <2>2, <2>3, StopKeeps, ZenonT(30)
<1>5. CASE Unchanged(j) /\ AllReadable(j) /\ ~Stop(j)
  <2> DEFINE e == Sorted(EntriesWith(f, r))
             l == IF e[1].path = output(j) THEN r ELSE f.records[e[1].path]
             jb == [job[j] EXCEPT !.step = "record", !.entries = e, !.latest = l]
  <2>1. {Entry(x) : x \in AfterThisOne(j)} = EntriesWith(f, r)
    BY DEF AfterThisOne, EntriesWith, With
  <2>2. job' = [job EXCEPT ![j].step = "record", ![j].entries = e, ![j].latest = l]
    BY <1>5, <2>1, ZenonT(30) DEF Check
  <2>3. /\ f.records[record_path(r)] \in {Absent, r}
        /\ f.contracts[r.contract] \in {Absent, r.contract}
    BY <1>1, <1>5, ZenonT(30) DEF Unchanged
  <2>4. \A p \in Present(f) : f.records[p] \in Record
    <3>1. \A p \in Present(f) : p \in Paths /\ f.records[p] # Absent /\ f.records[p] # Torn
      BY <1>5, Zenon DEF AllReadable, Present
    <3> QED
      BY <1>1, <3>1, Zenon DEF Files
  <2>5. e \in Seq(Entries) /\ e[1] \in EntriesWith(f, r)
    BY <1>1, <1>3, <2>4, EntriesSorted
  <2>6. l \in With(f, r) /\ Entry(l) = e[1] /\ l \in Record
    <3>1. PICK x \in With(f, r) : e[1] = Entry(x)
      BY <2>5, Zenon DEF EntriesWith
    <3>2. With(f, r) \subseteq Record
      BY <1>3, <2>4, Zenon DEF With
    <3>3. e[1].path = record_path(x)
      BY <3>1 DEF Entry
    <3>4. x = r \/ \E p \in Present(f) : x = f.records[p] /\ p = record_path(x)
      <4>1. \A p \in Present(f) : p \in Paths
        BY DEF Present
      <4>2. \A p \in Paths : f.records[p] \in Record => record_path(f.records[p]) = p
        BY <1>1, Zenon DEF Files
      <4>3. x = r \/ \E p \in Present(f) : x = f.records[p]
        BY <3>1, Zenon DEF With
      <4> HIDE DEF f, r
      <4> QED
        BY <2>4, <4>1, <4>2, <4>3
    <3>5. x = l
      <4>1. CASE record_path(x) = record_path(r)
        <5>1. x = r
          BY <2>3, <3>4, <4>1 DEF Present
        <5> QED
          BY <1>1, <3>3, <4>1, <5>1
      <4>2. CASE record_path(x) # record_path(r)
        <5>1. x = f.records[record_path(x)]
          BY <3>4, <4>2
        <5> QED
          BY <1>1, <3>3, <4>2, <5>1, Zenon
      <4> QED
        BY <4>1, <4>2, Zenon
    <3> HIDE DEF e, l
    <3> QED
      BY <3>1, <3>2, <3>5
  <2> HIDE DEF e, l
  <2>7. job' = [job EXCEPT ![j] = jb]
    BY <2>2, Zenon
  <2>8. /\ jb \in JobFields /\ jb.step = "record" /\ jb.record = r
        /\ jb.suite = job[j].suite /\ jb.entries = e /\ jb.latest = l
    <3> DEFINE k1 == [job[j] EXCEPT !.step = "record"]
               k2 == [k1 EXCEPT !.entries = e]
               k3 == [k2 EXCEPT !.latest = l]
    <3>1. jb = k3
      OBVIOUS
    <3>2. k1 \in JobFields /\ k1.step = "record" /\ k1.record = job[j].record /\ k1.suite = job[j].suite
      BY <1>1 DEF JobFields, Writing
    <3> HIDE DEF k1
    <3>3. k2 \in JobFields /\ k2.step = "record" /\ k2.record = job[j].record
          /\ k2.suite = job[j].suite /\ k2.entries = e
      BY <2>5, <3>2 DEF JobFields
    <3> HIDE DEF k2
    <3>4. k3 \in JobFields /\ k3.step = "record" /\ k3.record = job[j].record
          /\ k3.suite = job[j].suite /\ k3.entries = e /\ k3.latest = l
      BY <2>6, <3>3 DEF JobFields
    <3> QED
      BY <1>1, <3>1, <3>4
  <2> HIDE DEF jb, f, r
  <2>9. e = Sorted(EntriesWith(f, r))
    BY DEF e
  <2>10. Underway(f, jb)
    BY <2>3, <2>4, <2>6, <2>8, <2>9 DEF Underway
  <2>11. jb.step \in Writing /\ jb.step # "push" /\ f = tree[j][Suites[jb.suite]]
    BY <1>1, <2>8, Zenon DEF Writing
  <2>12. JobIsRight(base[j], tree[j], jb)
    BY <1>3, <2>8, <2>10, <2>11 DEF JobIsRight
  <2>13. /\ base' = [base EXCEPT ![j] = base[j]] /\ tree' = [tree EXCEPT ![j] = tree[j]]
         /\ GoodHistory(branch') /\ jb \in JobFields /\ tree[j] \in History
         /\ GoodHistory(base[j])
    BY <1>1, <1>2, <2>8
  <2> QED
    BY <2>7, <2>12, <2>13, OneJob, Zenon
<1> QED
  BY <1>4, <1>5, Zenon DEF Check

LEMMA WriteRecordKeeps ==
    ASSUME PublishInv, UNCHANGED batch, NEW j \in Job, WriteRecord(j)
    PROVE  PublishInv'
<1> DEFINE f == files(j)
           r == rec(j)
           jb == [job[j] EXCEPT !.step = "contract"]
           whole == [f EXCEPT !.records[record_path(r)] = r]
           torn == [f EXCEPT !.records[record_path(r)] = Torn]
<1>1. job[j].step = "record" /\ job[j].step \in Writing /\ "contract" \in Writing
  BY DEF WriteRecord, Writing
<1>2. /\ job[j] \in JobFields /\ f \in Files /\ r = job[j].record /\ r \in Record
      /\ output(j) = record_path(r) /\ Underway(f, job[j]) /\ Follows(f, base[j][s(j)], r)
  BY <1>1, WritingFacts
<1>3. /\ jb.step = "contract" /\ jb.record = r
      /\ jb.entries = job[j].entries /\ jb.latest = job[j].latest
  BY <1>1, <1>2, StepFields
<1>4. CASE f.records[output(j)] = Absent
  <2>1. f.records[record_path(r)] = Absent
    BY <1>2, <1>4
  <2>2. /\ whole \in Files /\ Follows(whole, base[j][s(j)], r)
        /\ whole.records[record_path(r)] = r /\ whole.contracts = f.contracts
        /\ With(whole, r) = With(f, r)
        /\ (\A p \in Present(f) : f.records[p] \in Record) =>
              \A p \in Present(whole) : whole.records[p] \in Record
    <3>1. r \in {Torn, r}
      OBVIOUS
    <3> QED
      BY <1>2, <2>1, <3>1, RecordFile, Zenon
  <2>3. torn \in Files /\ Follows(torn, base[j][s(j)], r)
    <3>1. Torn \in {Torn, r}
      OBVIOUS
    <3> QED
      BY <1>2, <2>1, <3>1, RecordFile, ZenonT(30)
  <2>4. Write(j, "contract", whole, torn)
    BY <1>2, <1>4 DEF WriteRecord
  <2> HIDE DEF whole, torn, jb, f, r
  <2>5. EntriesWith(whole, r) = EntriesWith(f, r)
    BY <2>2, Zenon DEF EntriesWith
  <2>6. Underway(whole, jb)
    BY <1>2, <1>3, <2>2, <2>5, Zenon DEF Underway
  <2> QED
    BY <1>1, <1>2, <2>2, <2>3, <2>4, <2>6, WriteKeeps, Zenon DEF r, jb
<1>5. CASE f.records[output(j)] # Absent
  <2>1. Skip(j, "contract")
    BY <1>5, Zenon DEF WriteRecord
  <2>2. f.records[record_path(r)] = r
    BY <1>2, <1>5, Zenon DEF Underway
  <2> HIDE DEF jb, f, r
  <2>3. Underway(f, jb)
    BY <1>2, <1>3, <2>2 DEF Underway
  <2> QED
    BY <1>1, <2>1, <2>3, SkipKeeps DEF f, jb
<1> QED
  BY <1>4, <1>5
LEMMA WriteContractKeeps ==
    ASSUME PublishInv, UNCHANGED batch, NEW j \in Job, WriteContract(j)
    PROVE  PublishInv'
<1> DEFINE f == files(j)
           r == rec(j)
           jb == [job[j] EXCEPT !.step = "index"]
           whole == [f EXCEPT !.contracts[r.contract] = r.contract]
           torn == [f EXCEPT !.contracts[r.contract] = Torn]
<1>1. job[j].step = "contract" /\ job[j].step \in Writing /\ "index" \in Writing
  BY DEF WriteContract, Writing
<1>2. /\ job[j] \in JobFields /\ f \in Files /\ r = job[j].record /\ r \in Record
      /\ Underway(f, job[j]) /\ Follows(f, base[j][s(j)], r)
  BY <1>1, WritingFacts
<1>3. /\ jb.step = "index" /\ jb.record = r
      /\ jb.entries = job[j].entries /\ jb.latest = job[j].latest
  BY <1>1, <1>2, StepFields
<1>4. CASE f.contracts[r.contract] = Absent
  <2>1. /\ whole \in Files /\ Follows(whole, base[j][s(j)], r)
        /\ whole.records = f.records /\ whole.contracts[r.contract] = r.contract
        /\ Present(whole) = Present(f) /\ With(whole, r) = With(f, r)
    <3>1. r.contract \in {Torn, r.contract}
      OBVIOUS
    <3> QED
      BY <1>2, <1>4, <3>1, ContractFile, Zenon
  <2>2. torn \in Files /\ Follows(torn, base[j][s(j)], r)
    <3>1. Torn \in {Torn, r.contract}
      OBVIOUS
    <3> QED
      BY <1>2, <1>4, <3>1, ContractFile, ZenonT(30)
  <2>3. Write(j, "index", whole, torn)
    BY <1>4 DEF WriteContract
  <2> HIDE DEF whole, torn, jb, f, r
  <2>4. EntriesWith(whole, r) = EntriesWith(f, r)
    BY <2>1, Zenon DEF EntriesWith
  <2>5. Underway(whole, jb)
    BY <1>1, <1>2, <1>3, <2>1, <2>4 DEF Underway
  <2> QED
    BY <1>1, <2>1, <2>2, <2>3, <2>5, WriteKeeps DEF r, jb
<1>5. CASE f.contracts[r.contract] # Absent
  <2>1. Skip(j, "index")
    BY <1>5, Zenon DEF WriteContract
  <2>2. f.contracts[r.contract] = r.contract
    BY <1>2, <1>5, Zenon DEF Underway
  <2> HIDE DEF jb, f, r
  <2>3. Underway(f, jb)
    BY <1>1, <1>2, <1>3, <2>2 DEF Underway
  <2> QED
    BY <1>1, <2>1, <2>3, SkipKeeps DEF f, jb
<1> QED
  BY <1>4, <1>5

\* The two pointers.
LEMMA PointersWritten ==
    ASSUME NEW f \in Files, NEW v \in Seq(Entries) \cup {Torn, Absent},
           NEW w \in Record \cup {Torn, Absent}
    PROVE  /\ LET g == [f EXCEPT !.index = v] IN
              /\ g \in [records : [Paths -> Record \cup {Torn, Absent}],
                        contracts : [Contract -> Contract \cup {Torn, Absent}],
                        index : Seq(Entries) \cup {Torn, Absent},
                        latest : Record \cup {Torn, Absent}]
              /\ g.records = f.records /\ g.contracts = f.contracts /\ g.index = v
           /\ LET g == [f EXCEPT !.latest = w] IN
              /\ g \in [records : [Paths -> Record \cup {Torn, Absent}],
                        contracts : [Contract -> Contract \cup {Torn, Absent}],
                        index : Seq(Entries) \cup {Torn, Absent},
                        latest : Record \cup {Torn, Absent}]
              /\ g.records = f.records /\ g.contracts = f.contracts /\ g.index = f.index
              /\ g.latest = w
<1>1. f \in [records : [Paths -> Record \cup {Torn, Absent}],
             contracts : [Contract -> Contract \cup {Torn, Absent}],
             index : Seq(Entries) \cup {Torn, Absent},
             latest : Record \cup {Torn, Absent}]
  BY DEF Files
<1>2. LET g == [f EXCEPT !.index = v] IN
      /\ g \in [records : [Paths -> Record \cup {Torn, Absent}],
                contracts : [Contract -> Contract \cup {Torn, Absent}],
                index : Seq(Entries) \cup {Torn, Absent},
                latest : Record \cup {Torn, Absent}]
      /\ g.records = f.records /\ g.contracts = f.contracts /\ g.index = v
  BY <1>1
<1>3. LET g == [f EXCEPT !.latest = w] IN
      /\ g \in [records : [Paths -> Record \cup {Torn, Absent}],
                contracts : [Contract -> Contract \cup {Torn, Absent}],
                index : Seq(Entries) \cup {Torn, Absent},
                latest : Record \cup {Torn, Absent}]
      /\ g.records = f.records /\ g.contracts = f.contracts /\ g.index = f.index
      /\ g.latest = w
  BY <1>1
<1> QED
  BY <1>2, <1>3, Zenon

LEMMA WriteIndexKeeps ==
    ASSUME PublishInv, UNCHANGED batch, NEW j \in Job, WriteIndex(j)
    PROVE  PublishInv'
<1> DEFINE f == files(j)
           r == rec(j)
           e == job[j].entries
           jb == [job[j] EXCEPT !.step = "latest"]
           whole == [f EXCEPT !.index = e]
           torn == [f EXCEPT !.index = Torn]
<1>1. job[j].step = "index" /\ job[j].step \in Writing /\ "latest" \in Writing
  BY DEF WriteIndex, Writing
<1>2. /\ job[j] \in JobFields /\ f \in Files /\ r = job[j].record /\ r \in Record
      /\ Underway(f, job[j]) /\ Follows(f, base[j][s(j)], r)
  BY <1>1, WritingFacts
<1>3. /\ jb.step = "latest" /\ jb.record = r
      /\ jb.entries = e /\ jb.latest = job[j].latest
  BY <1>1, <1>2, StepFields
<1>4. e \in Seq(Entries)
  BY <1>2, Zenon DEF JobFields
<1>5. /\ whole \in Files /\ Follows(whole, base[j][s(j)], r)
      /\ whole.records = f.records /\ whole.contracts = f.contracts /\ whole.index = e
      /\ Present(whole) = Present(f) /\ With(whole, r) = With(f, r)
  <2>1. /\ whole \in [records : [Paths -> Record \cup {Torn, Absent}],
                      contracts : [Contract -> Contract \cup {Torn, Absent}],
                      index : Seq(Entries) \cup {Torn, Absent},
                      latest : Record \cup {Torn, Absent}]
        /\ whole.records = f.records /\ whole.contracts = f.contracts /\ whole.index = e
    BY <1>2, <1>4, PointersWritten, Zenon
  <2> HIDE DEF whole, f, r, e
  <2> QED
    BY <1>2, <2>1, PointerFile
<1>6. torn \in Files /\ Follows(torn, base[j][s(j)], r)
  <2>1. /\ torn \in [records : [Paths -> Record \cup {Torn, Absent}],
                     contracts : [Contract -> Contract \cup {Torn, Absent}],
                     index : Seq(Entries) \cup {Torn, Absent},
                     latest : Record \cup {Torn, Absent}]
        /\ torn.records = f.records /\ torn.contracts = f.contracts
    BY <1>2, PointersWritten, Zenon
  <2> HIDE DEF torn, f, r, e
  <2> QED
    BY <1>2, <2>1, PointerFile
<1>7. Write(j, "latest", whole, torn)
  BY DEF WriteIndex
<1> HIDE DEF whole, torn, jb, f, r, e
<1>8. EntriesWith(whole, r) = EntriesWith(f, r)
  BY <1>5 DEF EntriesWith
<1>9. Underway(whole, jb)
  BY <1>1, <1>2, <1>3, <1>5, <1>8, Zenon DEF Underway, e
<1> QED
  BY <1>1, <1>5, <1>6, <1>7, <1>9, WriteKeeps DEF r, jb

LEMMA WriteLatestKeeps ==
    ASSUME PublishInv, UNCHANGED batch, NEW j \in Job, WriteLatest(j)
    PROVE  PublishInv'
<1> DEFINE f == files(j)
           r == rec(j)
           l == job[j].latest
           jb == [job[j] EXCEPT !.step = "published"]
           whole == [f EXCEPT !.latest = l]
           torn == [f EXCEPT !.latest = Torn]
<1>1. job[j].step = "latest" /\ job[j].step \in Writing /\ "published" \in Writing
  BY DEF WriteLatest, Writing
<1>2. /\ job[j] \in JobFields /\ f \in Files /\ r = job[j].record /\ r \in Record
      /\ Underway(f, job[j]) /\ Follows(f, base[j][s(j)], r)
  BY <1>1, WritingFacts
<1>3. /\ jb.step = "published" /\ jb.record = r
      /\ jb.entries = job[j].entries /\ jb.latest = l
  BY <1>1, <1>2, StepFields
<1>4. l \in Record \cup {Absent}
  BY <1>2 DEF JobFields
<1>5. /\ whole \in Files /\ Follows(whole, base[j][s(j)], r)
      /\ whole.records = f.records /\ whole.contracts = f.contracts
      /\ whole.index = f.index /\ whole.latest = l
      /\ Present(whole) = Present(f) /\ With(whole, r) = With(f, r)
  <2>1. /\ whole \in [records : [Paths -> Record \cup {Torn, Absent}],
                      contracts : [Contract -> Contract \cup {Torn, Absent}],
                      index : Seq(Entries) \cup {Torn, Absent},
                      latest : Record \cup {Torn, Absent}]
        /\ whole.records = f.records /\ whole.contracts = f.contracts
        /\ whole.index = f.index /\ whole.latest = l
    BY <1>2, <1>4, PointersWritten, Zenon
  <2> HIDE DEF whole, f, r, l
  <2> QED
    BY <1>2, <2>1, PointerFile, Zenon
<1>6. torn \in Files /\ Follows(torn, base[j][s(j)], r)
  <2>1. /\ torn \in [records : [Paths -> Record \cup {Torn, Absent}],
                     contracts : [Contract -> Contract \cup {Torn, Absent}],
                     index : Seq(Entries) \cup {Torn, Absent},
                     latest : Record \cup {Torn, Absent}]
        /\ torn.records = f.records /\ torn.contracts = f.contracts
    BY <1>2, PointersWritten, Zenon
  <2> HIDE DEF torn, f, r, l
  <2> QED
    BY <1>2, <2>1, PointerFile
<1>7. Write(j, "published", whole, torn)
  BY DEF WriteLatest
<1> HIDE DEF whole, torn, jb, f, r, l
<1>8. EntriesWith(whole, r) = EntriesWith(f, r)
  BY <1>5 DEF EntriesWith
<1>9. Underway(whole, jb)
  BY <1>1, <1>2, <1>3, <1>5, <1>8, Zenon DEF Underway, l
<1> QED
  BY <1>1, <1>5, <1>6, <1>7, <1>9, WriteKeeps DEF r, jb
LEMMA NextSuiteIs ==
    ASSUME NEW r, NEW k
    PROVE  [Idle EXCEPT !.record = r, !.suite = k, !.step = "check"] =
             [record |-> r, suite |-> k, step |-> "check", entries |-> << >>, latest |-> Absent]
<1> DEFINE k1 == [Idle EXCEPT !.record = r]
           k2 == [k1 EXCEPT !.suite = k]
<1>1. k1 = [record |-> r, suite |-> 1, step |-> "idle", entries |-> << >>, latest |-> Absent]
  BY DEF Idle
<1> HIDE DEF k1
<1>2. k2 = [record |-> r, suite |-> k, step |-> "idle", entries |-> << >>, latest |-> Absent]
  BY <1>1
<1> HIDE DEF k2
<1>3. [k2 EXCEPT !.step = "check"] =
        [record |-> r, suite |-> k, step |-> "check", entries |-> << >>, latest |-> Absent]
  BY <1>2
<1> QED
  BY <1>3 DEF k1, k2

\* A suite that has been published counts as done from then on.
LEMMA NextSuiteKeeps ==
    ASSUME PublishInv, UNCHANGED batch, NEW j \in Job, NextSuite(j)
    PROVE  PublishInv'
<1> DEFINE r == rec(j)
           k == job[j].suite
<1>1. job[j].step = "published" /\ job[j].step \in Writing /\ UNCHANGED <<branch, base, tree>>
  BY DEF NextSuite, Writing
<1>2. /\ r = job[j].record /\ job[j] \in JobFields /\ files(j) \in Files
      /\ files(j) = tree[j][Suites[k]] /\ k \in 1..Len(Suites)
      /\ JobIsRight(base[j], tree[j], job[j])
      /\ GoodHistory(branch) /\ GoodHistory(base[j]) /\ tree[j] \in History
      /\ base = [base EXCEPT ![j] = base[j]] /\ tree = [tree EXCEPT ![j] = tree[j]]
  BY JobFacts
<1>3. r \in Record /\ Underway(files(j), job[j])
  BY <1>1, WritingFacts
<1>4. Published(tree[j][Suites[k]], r)
  BY <1>1, <1>2, <1>3, PublishedAtEnd, SMTT(20)
<1>5. /\ \A u \in Suite : Follows(tree[j][u], base[j][u], r)
      /\ \A i \in 1..Len(Suites) : i < k => Published(tree[j][Suites[i]], r)
  BY <1>1, <1>2 DEF JobIsRight
<1>6. Len(Suites) \in Nat
  BY SuiteAssumption
<1>7. /\ base' = [base EXCEPT ![j] = base[j]] /\ tree' = [tree EXCEPT ![j] = tree[j]]
      /\ GoodHistory(branch') /\ tree[j] \in History /\ GoodHistory(base[j])
  BY <1>1, <1>2
<1>8. CASE k < Len(Suites)
  <2> DEFINE jb == [Idle EXCEPT !.record = r, !.suite = k + 1, !.step = "check"]
  <2>1. job' = [job EXCEPT ![j] = jb]
    BY <1>8 DEF NextSuite
  <2>2. jb = [record |-> r, suite |-> k + 1, step |-> "check", entries |-> << >>, latest |-> Absent]
    BY NextSuiteIs, Zenon
  <2> HIDE DEF jb, r, k
  <2>3. k + 1 \in 1..Len(Suites)
    BY <1>2, <1>6, <1>8
  <2>4. jb \in JobFields
    BY <1>3, <2>2, <2>3 DEF JobFields
  <2>5. jb.record = r /\ jb.suite = k + 1 /\ jb.step = "check"
    BY <2>2
  <2>6. \A i \in 1..Len(Suites) : i < k + 1 => i < k \/ i = k
    BY <1>2, <1>6
  <2>7. \A i \in 1..Len(Suites) : i < k + 1 => Published(tree[j][Suites[i]], r)
    BY <1>4, <1>5, <2>6
  <2>8. jb.step \notin Writing /\ jb.step # "push"
    BY <2>5 DEF Writing
  <2>9. JobIsRight(base[j], tree[j], jb)
    BY <1>3, <1>5, <2>5, <2>7, <2>8 DEF JobIsRight
  <2> QED
    BY <1>7, <2>1, <2>4, <2>9, OneJob, Zenon
<1>9. CASE ~(k < Len(Suites))
  <2> DEFINE jb == Started(r, "push")
  <2>1. job' = [job EXCEPT ![j] = jb]
    BY <1>9 DEF NextSuite, Started
  <2>2. jb \in JobFields /\ jb.record = r /\ jb.step = "push"
    BY <1>3, StartedFields
  <2> HIDE DEF jb, r, k
  <2>3. ASSUME NEW u \in Suite
        PROVE  Published(tree[j][u], r)
    <3>1. PICK i \in 1..Len(Suites) : u = Suites[i]
      BY DEF Suite
    <3>2. i < k \/ i = k
      BY <1>2, <1>6, <1>9
    <3> QED
      BY <1>4, <1>5, <3>1, <3>2
  <2>4. jb.step \notin Writing \cup {"check"}
    BY <2>2 DEF Writing
  <2>5. JobIsRight(base[j], tree[j], jb)
    BY <1>3, <1>5, <2>2, <2>3, <2>4, Zenon DEF JobIsRight
  <2> QED
    BY <1>7, <2>1, <2>2, <2>5, OneJob, Zenon
<1> QED
  BY <1>8, <1>9

\* What a push that git accepts puts on the branch.
LEMMA PushedIsGood ==
    ASSUME PublishInv, NEW j \in Job, job[j].step = "push", base[j] = branch
    PROVE  /\ GoodHistory(tree[j])
           /\ \A t \in Suite : \A p \in Present(branch[t]) :
                 tree[j][t].records[p] = branch[t].records[p]
<1>1. /\ JobIsRight(base[j], tree[j], job[j]) /\ GoodHistory(branch) /\ tree[j] \in History
  BY JobFacts
<1>2. /\ job[j].record \in Record
      /\ \A t \in Suite : Follows(tree[j][t], branch[t], job[j].record)
                          /\ Published(tree[j][t], job[j].record)
  BY <1>1 DEF JobIsRight
<1> QED
  BY <1>1, <1>2, PublishedIsGood

LEMMA PushKeeps ==
    ASSUME PublishInv, UNCHANGED batch, NEW j \in Job, Push(j)
    PROVE  PublishInv'
<1>1. job[j].step = "push"
  BY DEF Push
<1>2. CASE branch' = tree[j] /\ base[j] = branch /\ Discard(j)
  <2>1. branch' = tree[j] /\ Discard(j)
    BY <1>2
  <2>2. GoodHistory(branch')
    BY <1>1, <1>2, <2>1, PushedIsGood
  <2> QED
    BY <2>1, <2>2, DiscardKeeps
<1>3. CASE Stop(j) /\ UNCHANGED <<branch, base, tree>>
  <2>1. /\ job' = [job EXCEPT ![j] = [Idle EXCEPT !.record = job[j].record, !.step = "stopped"]]
        /\ UNCHANGED <<batch, branch, base, tree>> /\ job[j].step # "idle"
        /\ "stopped" \in {"check", "stopped"}
    BY <1>1, <1>3 DEF Stop
  <2> QED
    BY <2>1, StopKeeps, Zenon
<1>4. CASE Discard(j) /\ UNCHANGED branch
  <2>1. GoodHistory(branch')
    BY <1>4, JobFacts
  <2> QED
    BY <1>4, <2>1, DiscardKeeps
<1> QED
  BY <1>2, <1>3, <1>4, Zenon DEF Push

LEMMA PublishSteps == PublishInv /\ [Next]_vars => PublishInv'
<1> SUFFICES ASSUME PublishInv, [Next]_vars
             PROVE  PublishInv'
  OBVIOUS
<1>1. CASE UNCHANGED vars
  BY <1>1 DEF vars, PublishInv
<1>2. CASE Next
  <2>1. UNCHANGED batch
    BY <1>2 DEF Next
  <2>2. PICK j \in Job :
          \/ \E r \in batch : Fetch(j, r)
          \/ Retry(j) \/ GiveUp(j) \/ Check(j) \/ Crash(j)
          \/ WriteRecord(j) \/ WriteContract(j) \/ WriteIndex(j) \/ WriteLatest(j)
          \/ NextSuite(j) \/ Push(j)
    BY <1>2, Zenon DEF Next
  <2>3. ASSUME NEW r \in batch, Fetch(j, r) PROVE PublishInv'
    BY <2>1, <2>3, FetchKeeps
  <2>4. CASE Retry(j)
    <3>1. /\ job' = [job EXCEPT ![j] = [Idle EXCEPT !.record = job[j].record, !.step = "check"]]
          /\ UNCHANGED <<batch, branch, base, tree>> /\ job[j].step # "idle"
          /\ "check" \in {"check", "stopped"}
      BY <2>1, <2>4 DEF Retry
    <3> QED
      BY <3>1, StopKeeps, Zenon
  <2>5. CASE GiveUp(j)
    <3>1. Discard(j) /\ branch' = branch /\ GoodHistory(branch)
      BY <2>5, JobFacts DEF GiveUp
    <3>2. GoodHistory(branch')
      BY <3>1
    <3> QED
      BY <2>1, <3>1, <3>2, DiscardKeeps
  <2>6. CASE Check(j)
    BY <2>1, <2>6, CheckKeeps
  <2>7. CASE Crash(j)
    <3>1. /\ job' = [job EXCEPT ![j] = [Idle EXCEPT !.record = job[j].record, !.step = "stopped"]]
          /\ UNCHANGED <<batch, branch, base, tree>> /\ job[j].step # "idle"
          /\ "stopped" \in {"check", "stopped"}
      BY <2>1, <2>7, Zenon DEF Crash, Stop
    <3> QED
      BY <3>1, StopKeeps, Zenon
  <2>8. CASE WriteRecord(j)
    BY <2>1, <2>8, WriteRecordKeeps
  <2>9. CASE WriteContract(j)
    BY <2>1, <2>9, WriteContractKeeps
  <2>10. CASE WriteIndex(j)
    BY <2>1, <2>10, WriteIndexKeeps
  <2>11. CASE WriteLatest(j)
    BY <2>1, <2>11, WriteLatestKeeps
  <2>12. CASE NextSuite(j)
    BY <2>1, <2>12, NextSuiteKeeps
  <2>13. CASE Push(j)
    BY <2>1, <2>13, PushKeeps
  <2> QED
    BY <2>2, <2>3, <2>4, <2>5, <2>6, <2>7, <2>8, <2>9, <2>10, <2>11, <2>12, <2>13, Zenon
<1> QED
  BY <1>1, <1>2, Zenon

THEOREM PublishInvariant == Spec => []PublishInv
  BY PublishStarts, PublishSteps, PTL DEF Spec

----------------------------------------------------------------------------

\* Whenever publish succeeds, index.json lists all the records of the suite,
\* newest first, and latest.json is the first of them, whatever earlier
\* attempts left in the checkout.
THEOREM PublishAlwaysConverges == Spec => []PublishConverges
<1>1. PublishInv => PublishConverges
  <2> SUFFICES ASSUME PublishInv, NEW j \in Job, job[j].step = "published"
               PROVE  PointersAgree(files(j))
    BY DEF PublishConverges
  <2>1. job[j].step \in Writing
    BY DEF Writing
  <2>2. /\ job[j] \in JobFields /\ files(j) \in Files /\ job[j].record \in Record
        /\ Underway(files(j), job[j])
    BY <2>1, WritingFacts
  <2>3. Published(files(j), job[j].record)
    BY <2>2, PublishedAtEnd
  <2> QED
    BY <2>3 DEF Published
<1> QED
  BY <1>1, PublishInvariant, PTL

\* The branch never holds a file that was cut off, the pointers of a suite that
\* has records agree with them, their contracts are there, and the suites have
\* the same records, although jobs stop halfway and push concurrently.
THEOREM BranchStaysWhole == Spec => []BranchIsWhole
<1>1. PublishInv => BranchIsWhole
  <2> SUFFICES ASSUME PublishInv
               PROVE  BranchIsWhole
    OBVIOUS
  <2>1. GoodHistory(branch)
    BY Zenon DEF PublishInv
  <2>2. BranchIsSound
    BY <2>1 DEF GoodHistory, BranchIsSound, ContractsAreThere
  <2>3. SuitesInStep
    BY <2>1 DEF GoodHistory, SuitesInStep
  <2> QED
    BY <2>2, <2>3 DEF BranchIsWhole
<1> QED
  BY <1>1, PublishInvariant, PTL

\* No step takes a record off the branch or changes it.
THEOREM RecordsAlwaysStay == Spec => RecordsStay
<1> DEFINE Stay == \A t \in Suite : \A p \in Present(branch[t]) :
                      branch'[t].records[p] = branch[t].records[p]
<1>1. PublishInv /\ [Next]_vars => [Stay]_vars
  <2> SUFFICES ASSUME PublishInv, Next
               PROVE  Stay
    BY Zenon
  <2>1. CASE UNCHANGED branch
    BY <2>1
  <2>2. ASSUME NEW j \in Job, Push(j), base[j] = branch, branch' = tree[j]
        PROVE  Stay
    <3>1. job[j].step = "push" /\ branch' = tree[j]
      BY <2>2 DEF Push
    <3> QED
      BY <2>2, <3>1, PushedIsGood
  <2>3. UNCHANGED branch \/ \E j \in Job : Push(j) /\ base[j] = branch /\ branch' = tree[j]
    BY Zenon DEF Next, Fetch, Retry, GiveUp, Check, Crash, WriteRecord, WriteContract,
           WriteIndex, WriteLatest, Write, Skip, NextSuite, Push
  <2> QED
    BY <2>1, <2>2, <2>3, Zenon
<1> QED
  BY <1>1, PublishInvariant, PTL DEF Spec, RecordsStay
=============================================================================
