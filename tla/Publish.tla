------------------------------ MODULE Publish ------------------------------
(***************************************************************************)
(* scripts/benchmark_history.py publish and publish-echo, run by the       *)
(* publish job of .github/workflows/benchmark.yml.  A job fetches the      *)
(* history branch into a checkout of its own, publishes one record in each *)
(* suite there, and pushes.  A publish is several file writes in a row; a  *)
(* job may stop between any two of them or in the middle of one, and be    *)
(* tried again in a fresh checkout, or in the one it left behind.          *)
(*                                                                         *)
(* A checkout is one file tree per suite; the same code runs for both, in  *)
(* the branch root for "core" and under echo/ for "echo".                  *)
(***************************************************************************)
EXTENDS Integers, Sequences, FiniteSets

CONSTANTS Job,      \* runs of the publish job
          Suites,   \* what it publishes, in order: core, then echo
          Record,   \* the records that are measured
          Batches,  \* sets of them that are published in one history
          TicksPerYear,
          Contract, \* contract texts; a digest stands for its text
          Torn,     \* a file that was cut off while it was written
          Absent    \* no such file

Suite == {Suites[k] : k \in 1..Len(Suites)}

Entries == [id : Nat, path : Int \X Nat, recorded_at : Nat]

ASSUME RecordAssumption ==
    /\ Batches \subseteq SUBSET Record /\ TicksPerYear \in Nat \ {0}
    /\ \A r \in Record : r.id \in Nat /\ r.recorded_at \in Nat /\ r.contract \in Contract

\* The suites have directories of their own.
ASSUME SuiteAssumption ==
    /\ Suites \in Seq(Suite) /\ Suites # << >>
    /\ \A i, k \in 1..Len(Suites) : i # k => Suites[i] # Suites[k]

\* A file that is missing or cut off is none that was written.
ASSUME FileAssumption ==
    /\ Torn # Absent
    /\ \A file \in {Torn, Absent} : file \notin Record /\ file \notin Contract
    /\ Torn \notin Seq(Entries)

VARIABLES batch,   \* the records of this history
          branch,  \* the files of the history branch
          base,    \* the branch as a job last fetched it
          tree,    \* the files of a job's checkout
          job      \* where a job is

vars == <<batch, branch, base, tree, job>>

\* records/<year>/<id>.json, the year being that of recorded_at.
year(r) == r.recorded_at \div TicksPerYear
record_path(r) == <<year(r), r.id>>
Paths == {record_path(r) : r \in Record}

EmptyHistory ==
    [s \in Suite |-> [records |-> [p \in Paths |-> Absent],
                      contracts |-> [k \in Contract |-> Absent],
                      index |-> Absent, latest |-> Absent]]

\* A job's record, the suite it is publishing, its next step, and what publish has read before it writes.
Idle == [record |-> Absent, suite |-> 1, step |-> "idle", entries |-> <<>>,
         latest |-> Absent]

Init ==
    /\ batch \in Batches
    /\ branch = EmptyHistory
    /\ base = [j \in Job |-> EmptyHistory]
    /\ tree = [j \in Job |-> EmptyHistory]
    /\ job = [j \in Job |-> Idle]

\* A fetch that fails, because there is no branch yet or for any other reason,
\* starts an empty history.
Fetch(j, r) ==
    /\ job[j].step = "idle"
    /\ \E fetched \in {branch, EmptyHistory} :
         /\ base' = [base EXCEPT ![j] = fetched]
         /\ tree' = [tree EXCEPT ![j] = fetched]
    /\ job' = [job EXCEPT ![j] = [Idle EXCEPT !.record = r, !.step = "check"]]
    /\ UNCHANGED branch

\* The same record is published again where the job stopped.
Retry(j) ==
    /\ job[j].step = "stopped"
    /\ job' = [job EXCEPT ![j] = [Idle EXCEPT !.record = job[j].record, !.step = "check"]]
    /\ UNCHANGED <<branch, base, tree>>

\* The job is over and its checkout is gone.
Discard(j) ==
    /\ job' = [job EXCEPT ![j] = Idle]
    /\ base' = [base EXCEPT ![j] = EmptyHistory]
    /\ tree' = [tree EXCEPT ![j] = EmptyHistory]

GiveUp(j) ==
    /\ job[j].step = "stopped"
    /\ Discard(j)
    /\ UNCHANGED branch

\* The process ends, and what it had in memory with it.
Stop(j) ==
    job' = [job EXCEPT ![j] = [Idle EXCEPT !.record = job[j].record, !.step = "stopped"]]

----------------------------------------------------------------------------
(* publish *)

s(j) == Suites[job[j].suite]
files(j) == tree[j][s(j)]
rec(j) == job[j].record
output(j) == record_path(rec(j))

OldestFirst(a, b) ==
    a.recorded_at < b.recorded_at \/ (a.recorded_at = b.recorded_at /\ a.id < b.id)

\* entries.sort(key = (recorded_at, record_id), reverse = True)
NewestFirst(a, b) ==
    a.recorded_at > b.recorded_at \/ (a.recorded_at = b.recorded_at /\ a.id > b.id)

Sorted(S) ==
    CHOOSE e \in [1..Cardinality(S) -> S] :
        /\ {e[k] : k \in 1..Cardinality(S)} = S
        /\ \A a, b \in 1..Cardinality(S) : a < b => NewestFirst(e[a], e[b])

Entry(r) == [id |-> r.id, path |-> record_path(r), recorded_at |-> r.recorded_at]

Present(f) == {p \in Paths : f.records[p] # Absent}

\* The records that will be in the tree, this one included.
AfterThisOne(j) ==
    {files(j).records[p] : p \in Present(files(j))} \cup {rec(j)}

\* The checks before anything is written: the contract's file and the
\* record's file, if they exist, hold the same already.
Unchanged(j) ==
    /\ files(j).contracts[rec(j).contract] \in {Absent, rec(j).contract}
    /\ files(j).records[output(j)] \in {Absent, rec(j)}

\* Every record is read for the index; a torn one is not JSON.
AllReadable(j) == \A p \in Present(files(j)) : files(j).records[p] # Torn

\* Nothing is published if the contract in the job's sources is not the one
\* that the record was measured under.
Check(j) ==
    /\ job[j].step = "check"
    /\ \E contract \in Contract :
         IF contract = rec(j).contract /\ Unchanged(j) /\ AllReadable(j)
         THEN \E entries \in {Sorted({Entry(r) : r \in AfterThisOne(j)})} :
                job' = [job EXCEPT ![j].step = "record", ![j].entries = entries,
                          ![j].latest =
                            IF entries[1].path = output(j) THEN rec(j)
                            ELSE files(j).records[entries[1].path]]
         ELSE Stop(j)
    /\ UNCHANGED <<branch, base, tree>>

\* A write of one file: it is done and the next step follows, or the job ends
\* with the file cut off.
Write(j, next, whole, torn) ==
    /\ \/ /\ tree' = [tree EXCEPT ![j][s(j)] = whole]
          /\ job' = [job EXCEPT ![j].step = next]
       \/ /\ tree' = [tree EXCEPT ![j][s(j)] = torn]
          /\ Stop(j)
    /\ UNCHANGED <<branch, base>>

Skip(j, next) ==
    job' = [job EXCEPT ![j].step = next] /\ UNCHANGED <<branch, base, tree>>

WriteRecord(j) ==
    /\ job[j].step = "record"
    /\ LET new(torn) == [files(j) EXCEPT !.records[output(j)] =
                           IF torn THEN Torn ELSE rec(j)]
       IN  IF files(j).records[output(j)] = Absent THEN Write(j, "contract", new(FALSE), new(TRUE))
           ELSE Skip(j, "contract")

WriteContract(j) ==
    /\ job[j].step = "contract"
    /\ LET new(torn) == [files(j) EXCEPT !.contracts[rec(j).contract] =
                           IF torn THEN Torn ELSE rec(j).contract]
       IN  IF files(j).contracts[rec(j).contract] = Absent
           THEN Write(j, "index", new(FALSE), new(TRUE)) ELSE Skip(j, "index")

WriteIndex(j) ==
    /\ job[j].step = "index"
    /\ LET new(torn) == [files(j) EXCEPT !.index = IF torn THEN Torn ELSE job[j].entries]
       IN  Write(j, "latest", new(FALSE), new(TRUE))

WriteLatest(j) ==
    /\ job[j].step = "latest"
    /\ LET new(torn) == [files(j) EXCEPT !.latest = IF torn THEN Torn ELSE job[j].latest]
       IN  Write(j, "published", new(FALSE), new(TRUE))

\* The process or its machine ends between two writes.
Crash(j) ==
    /\ job[j].step \in {"record", "contract", "index", "latest", "published"}
    /\ Stop(j)
    /\ UNCHANGED <<branch, base, tree>>

----------------------------------------------------------------------------
(* the workflow *)

PushEach(j) ==
    /\ job[j].step = "published"
    /\ job' = [job EXCEPT ![j] = [Idle EXCEPT !.record = rec(j), !.step = "push"]]
    /\ UNCHANGED <<branch, base, tree>>

\* The next suite; after the last one the job pushes.
NextSuite(j) ==
    /\ job[j].step = "published"
    /\ job' = [job EXCEPT ![j] =
                 IF job[j].suite < Len(Suites)
                 THEN [Idle EXCEPT !.record = rec(j), !.suite = job[j].suite + 1,
                                   !.step = "check"]
                 ELSE [Idle EXCEPT !.record = rec(j), !.step = "push"]]
    /\ UNCHANGED <<branch, base, tree>>

ForcePush(j) ==
    /\ job[j].step = "push"
    /\ branch' = tree[j]
    /\ Discard(j)

\* A checkout in which nothing has changed is not pushed.  git push refuses a
\* branch that is not the one fetched: it has moved since, or exists although
\* the fetch failed.
Push(j) ==
    /\ job[j].step = "push"
    /\ \/ tree[j] = base[j] /\ Discard(j) /\ UNCHANGED branch
       \/ tree[j] # base[j] /\ base[j] = branch /\ branch' = tree[j] /\ Discard(j)
       \/ tree[j] # base[j] /\ base[j] # branch /\ Stop(j) /\ UNCHANGED <<branch, base, tree>>

Next ==
    /\ UNCHANGED batch
    /\ \E j \in Job :
        \/ \E r \in batch : Fetch(j, r)
        \/ Retry(j) \/ GiveUp(j) \/ Check(j) \/ Crash(j)
        \/ WriteRecord(j) \/ WriteContract(j) \/ WriteIndex(j) \/ WriteLatest(j)
        \/ NextSuite(j) \/ Push(j)

Spec == Init /\ [][Next]_vars

----------------------------------------------------------------------------

\* A suite's files say the same: index.json lists every record in the tree,
\* newest first, and latest.json is the newest of them.
PointersAgree(f) ==
    LET stored == {f.records[p] : p \in Present(f)} IN
    /\ stored \subseteq Record
    /\ f.index # Torn /\ f.latest # Torn
    /\ {f.index[k] : k \in 1..Len(f.index)} = {Entry(r) : r \in stored}
    /\ \A a, b \in 1..Len(f.index) : a < b =>
         \/ f.index[a].recorded_at > f.index[b].recorded_at
         \/ f.index[a].recorded_at = f.index[b].recorded_at /\ f.index[a].id > f.index[b].id
    /\ f.latest \in stored /\ Entry(f.latest) = f.index[1]

\* Whenever publish succeeds, index.json and latest.json are right for all the
\* records in the tree, whatever an earlier attempt left there.
PublishConverges ==
    \A j \in Job : job[j].step = "published" => PointersAgree(files(j))

\* The branch never receives a file that was cut off, and in each suite every
\* record's contract is there and the pointers agree, although jobs crash
\* halfway, are retried and push concurrently.
BranchIsSound ==
    \A t \in Suite : Present(branch[t]) # {} =>
        /\ PointersAgree(branch[t])
        /\ \A p \in Present(branch[t]) :
             LET k == branch[t].records[p].contract IN branch[t].contracts[k] = k

\* A job's records reach the branch together or not at all, although the job
\* may stop after one suite and find the other one's files half written when
\* it is tried again.
SuitesInStep ==
    \A t, u \in Suite : branch[t].records = branch[u].records

\* Every state of the branch is one a reader may take: whole, and the same in
\* both suites.
BranchIsWhole == BranchIsSound /\ SuitesInStep

\* A record on the branch stays there as it is.
RecordsStay ==
    [][\A t \in Suite : \A p \in Present(branch[t]) :
         branch'[t].records[p] = branch[t].records[p]]_vars
=============================================================================
