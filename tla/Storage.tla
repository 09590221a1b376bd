------------------------------ MODULE Storage ------------------------------
(***************************************************************************)
(* Store and ShardedStore of kernelflow-storage.                           *)
(*                                                                         *)
(* put and get are async: shard_for picks a database when the operation is *)
(* called, the work is a task on the blocking pool, where tasks of several *)
(* operations run in any order, and the caller awaits its JoinHandle.  A   *)
(* caller may be dropped while it waits (the timeout around every node     *)
(* does that), which does not stop the task.  The process may be killed at *)
(* any time and start again, possibly with another number of shards; what  *)
(* RocksDB wrote survives.                                                 *)
(*                                                                         *)
(* The operations are numbered in the order of their calls, and a put      *)
(* writes its own number, so that a get tells which put it read.           *)
(***************************************************************************)
EXTENDS Integers, Sequences

CONSTANTS
  Cf,           \* the column families in use
  Key,
  HashOf,       \* HashOf[key]: DefaultHasher, the same in every process
  ShardCount,   \* the arguments ShardedStore::open is called with
  Unreadable,   \* the column families whose values bincode writes and cannot read back
  MaxOps,       \* bound: calls of put and get
  MaxBoots      \* bound: starts of the process

ASSUME StorageAssumption ==
  /\ HashOf \in [Key -> Nat]
  /\ ShardCount \subseteq Nat
  /\ Unreadable \subseteq Cf
  /\ MaxOps \in Nat
  /\ MaxBoots \in Nat

VARIABLES
  up,     \* a ShardedStore is open
  boots,  \* how often one was opened
  shards, \* shards.len() of the one opened last
  disk,   \* (directory, column family, key) -> the put whose value is there
  ops     \* the calls so far, each with its task and its caller

vars == <<up, boots, shards, disk, ops>>

OpId == 1..MaxOps
Nothing == 0

\* The databases "shard-{i}" under the base path
Dir == UNION {0..(n - 1) : n \in ShardCount}
Place == Dir \X Cf \X Key

Init ==
  /\ up = FALSE
  /\ boots = 0
  /\ shards = 0
  /\ disk = [p \in Place |-> Nothing]
  /\ ops = << >>

\* ShardedStore::open: all databases with all column families exist afterwards.
\* A failed open leaves nothing open and is not a step.
OpenStore(n) ==
  /\ ~up
  /\ boots < MaxBoots
  /\ up' = TRUE
  /\ boots' = boots + 1
  /\ shards' = n
  /\ UNCHANGED <<disk, ops>>

\* Mutant: a RandomState hasher, keyed anew by every process
ShardForRandom(key) == (HashOf[key] + boots) % shards

\* Mutant: an index one past the last shard
ShardForPastEnd(key) == HashOf[key] % (shards + 1)

\* ShardedStore::shard_for; it panics without shards
ShardFor(key) == HashOf[key] % shards

\* The puts and gets that have returned Ok
Acked == {o \in DOMAIN ops : ops[o].caller = "ok"}

\* `shard_for(key).put(cf, key, val)` or `.get(cf, key)`
Call(kind, cf, key) ==
  /\ up
  /\ Len(ops) < MaxOps
  /\ ops' = Append(ops,
       [kind |-> kind, cf |-> cf, key |-> key, count |-> shards,
        dir |-> IF shards = 0 THEN 0 ELSE ShardFor(key),
        task |-> IF shards = 0 THEN "none" ELSE "queued",
        caller |-> IF shards = 0 THEN "panicked" ELSE "waiting",
        read |-> Nothing,
        seen |-> Acked])
  /\ UNCHANGED <<up, boots, shards, disk>>

\* Where an operation reads or writes
Where(o) == <<ops[o].dir, ops[o].cf, ops[o].key>>

\* The task of a put runs on the blocking pool: serialize, put_cf.  An I/O
\* error leaves the database as it is.
PutTask(o, outcome) ==
  /\ up
  /\ o \in DOMAIN ops
  /\ ops[o].kind = "put"
  /\ ops[o].task = "queued"
  /\ ops' = [ops EXCEPT ![o].task = outcome]
  /\ disk' = IF outcome = "ok" THEN [disk EXCEPT ![Where(o)] = o] ELSE disk
  /\ UNCHANGED <<up, boots, shards>>

\* The task of a get: get_cf, then deserialize.  bincode has no deserialize_any,
\* so a value of an internally tagged enum such as KernelEvent is an error.
GetTask(o, outcome) ==
  /\ up
  /\ o \in DOMAIN ops
  /\ ops[o].kind = "get"
  /\ ops[o].task = "queued"
  /\ LET found == disk[Where(o)]
         undecodable == found # Nothing /\ ops[o].cf \in Unreadable
         res == IF undecodable THEN "err" ELSE outcome
     IN ops' = [ops EXCEPT ![o].task = res, ![o].read = IF res = "ok" THEN found ELSE Nothing]
  /\ UNCHANGED <<up, boots, shards, disk>>

\* Mutant: put does not await its task
ReturnEarly(o) ==
  /\ o \in DOMAIN ops
  /\ ops[o].caller = "waiting"
  /\ ops' = [ops EXCEPT ![o].caller = IF ops[o].task = "err" THEN "err" ELSE "ok"]
  /\ UNCHANGED <<up, boots, shards, disk>>

\* The JoinHandle yields what the task returned
Return(o) ==
  /\ o \in DOMAIN ops
  /\ ops[o].caller = "waiting"
  /\ ops[o].task \in {"ok", "err"}
  /\ ops' = [ops EXCEPT ![o].caller = ops[o].task]
  /\ UNCHANGED <<up, boots, shards, disk>>

\* Mutant: a put whose caller is dropped is taken back
CancelUndoes(o) ==
  /\ o \in DOMAIN ops
  /\ ops[o].caller = "waiting"
  /\ ops' = [ops EXCEPT ![o].caller = "dropped"]
  /\ disk' = [p \in Place |-> IF disk[p] = o THEN Nothing ELSE disk[p]]
  /\ UNCHANGED <<up, boots, shards>>

\* The caller is dropped; its task is detached and runs on
Cancel(o) ==
  /\ o \in DOMAIN ops
  /\ ops[o].caller = "waiting"
  /\ ops' = [ops EXCEPT ![o].caller = "dropped"]
  /\ UNCHANGED <<up, boots, shards, disk>>

\* The process dies, with its callers and its blocking pool
Crash ==
  /\ up
  /\ up' = FALSE
  /\ ops' = [o \in DOMAIN ops |->
       [ops[o] EXCEPT !.caller = IF @ = "waiting" THEN "dropped" ELSE @,
                      !.task = IF @ = "queued" THEN "lost" ELSE @]]
  /\ UNCHANGED <<boots, shards, disk>>

OpStep(o) ==
  \/ \E outcome \in {"ok", "err"} : PutTask(o, outcome) \/ GetTask(o, outcome)
  \/ Return(o)

Next ==
  \/ \E n \in ShardCount : OpenStore(n)
  \/ \E kind \in {"put", "get"}, cf \in Cf, key \in Key : Call(kind, cf, key)
  \/ \E o \in OpId : OpStep(o) \/ Cancel(o)
  \/ Crash

Spec == Init /\ [][Next]_vars
-----------------------------------------------------------------------------
Ops == [kind : {"put", "get"}, cf : Cf, key : Key, count : ShardCount, dir : Nat,
        task : {"none", "queued", "ok", "err", "lost"},
        caller : {"waiting", "ok", "err", "dropped", "panicked"},
        read : OpId \cup {Nothing}, seen : SUBSET OpId]

\* Type correctness.  Every call that reached a database found its directory.
TypeOK ==
  /\ up \in BOOLEAN
  /\ boots \in 0..MaxBoots
  /\ shards \in ShardCount \cup {0}
  /\ disk \in [Place -> OpId \cup {Nothing}]
  /\ ops \in Seq(Ops)
  /\ \A o \in DOMAIN ops : ops[o].task # "none" => Where(o) \in Place

SameKey(o, q) == ops[o].cf = ops[q].cf /\ ops[o].key = ops[q].key

\* No stale read: a put that returned Ok before a get was called is not missed
\* by it, nor hidden by a put that had returned before this one was called, also
\* when the process was killed in between, as long as the number of shards is
\* the same.
ReadsFresh ==
  \A g \in Acked, q \in Acked :
    /\ ops[g].kind = "get" /\ ops[q].kind = "put" /\ SameKey(g, q)
    /\ q \in ops[g].seen
    /\ ops[q].count = ops[g].count
    => ops[g].read # Nothing /\ ops[g].read \notin ops[q].seen

\* Reads never go back: a value that a get has returned stays readable, until a
\* put takes its place that was still running, or was called, after the one that
\* wrote the value was called.  This holds also when that put never returned Ok,
\* because its caller was dropped or the process was killed: having been seen,
\* it is not undone.
ReadsNeverGoBack ==
  \A g \in Acked, h \in Acked :
    /\ ops[g].kind = "get" /\ ops[h].kind = "get" /\ SameKey(g, h)
    /\ h \in ops[g].seen
    /\ ops[h].count = ops[g].count
    /\ ops[h].read # Nothing
    => ops[g].read # Nothing /\ ops[g].read \notin ops[ops[h].read].seen

\* Durable: a put that returned Ok is on disk until a put takes its place that
\* was still running, or was called, after this one was called.  In particular
\* a put whose caller was dropped long ago may still land and win.
Durable ==
  \A q \in Acked : ops[q].kind = "put" =>
    disk[Where(q)] # Nothing /\ disk[Where(q)] \notin ops[q].seen
=============================================================================
