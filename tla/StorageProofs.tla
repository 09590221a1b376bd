--------------------------- MODULE StorageProofs ---------------------------
(***************************************************************************)
(* What callers of ShardedStore may rely on, for any keys, hash function   *)
(* and shard counts, any number of operations and of crashes: reads are    *)
(* fresh and what put acknowledged is durable.                             *)
(***************************************************************************)
EXTENDS Storage, TLAPS

\* A call: it went to the shard its key hashes to, it has not returned Ok before
\* its task was done, and what had returned before it was called is done
CallInv ==
  /\ Len(ops) <= MaxOps
  /\ up => shards \in ShardCount
  /\ \A o \in DOMAIN ops :
       /\ ops[o].task # "none" => ops[o].count # 0 /\ ops[o].dir = HashOf[ops[o].key] % ops[o].count
       /\ ops[o].caller = "ok" => ops[o].task = "ok"
       /\ \A s \in ops[o].seen : s \in DOMAIN ops /\ ops[s].caller = "ok"

\* What is on disk was put there by the task of a put
DiskInv ==
  \A p \in Place : disk[p] # Nothing =>
    /\ disk[p] \in DOMAIN ops /\ ops[disk[p]].kind = "put" /\ Where(disk[p]) = p
    /\ ops[disk[p]].task = "ok"

\* Durable, for puts that are written and have not returned
WrittenInv ==
  \A q \in DOMAIN ops : ops[q].kind = "put" /\ ops[q].task = "ok" =>
    disk[Where(q)] # Nothing /\ disk[Where(q)] \notin ops[q].seen

\* ReadsFresh, for gets whose task is done
FreshInv ==
  \A g \in DOMAIN ops, q \in DOMAIN ops :
    /\ ops[g].kind = "get" /\ ops[g].task = "ok" /\ ops[q].kind = "put" /\ SameKey(g, q)
    /\ q \in ops[g].seen
    /\ ops[q].count = ops[g].count
    => ops[g].read # Nothing /\ ops[g].read \notin ops[q].seen

\* What was read was written, at the place of the get
ReadInv ==
  \A g \in DOMAIN ops : ops[g].read # Nothing =>
    /\ ops[g].read \in DOMAIN ops /\ ops[ops[g].read].kind = "put" /\ SameKey(g, ops[g].read)
    /\ ops[ops[g].read].task = "ok" /\ Where(ops[g].read) = Where(g)

\* ReadsNeverGoBack, for a get whose task is done
BackInv ==
  \A g \in DOMAIN ops, h \in DOMAIN ops :
    /\ ops[g].kind = "get" /\ ops[g].task = "ok" /\ SameKey(g, h)
    /\ h \in ops[g].seen
    /\ ops[h].count = ops[g].count
    /\ ops[h].read # Nothing
    => ops[g].read # Nothing /\ ops[g].read \notin ops[ops[h].read].seen

StoreInv == TypeOK /\ CallInv /\ DiskInv /\ WrittenInv /\ FreshInv /\ ReadInv /\ BackInv

LEMMA InitStore == Init => StoreInv
  <1> SUFFICES ASSUME Init PROVE StoreInv
    OBVIOUS
  <1>1. DOMAIN ops = {} /\ Len(ops) = 0 /\ ops \in Seq(Ops)
    BY DEF Init
  <1>2. TypeOK
    <2>1. disk \in [Place -> OpId \cup {Nothing}]
      BY DEF Init
    <2>2. boots \in 0..MaxBoots
      BY StorageAssumption DEF Init
    <2> QED  BY <1>1, <2>1, <2>2 DEF Init, TypeOK
  <1>3. DiskInv
    BY DEF Init, DiskInv
  <1>4. CallInv
    BY <1>1, StorageAssumption DEF Init, CallInv
  <1> QED  BY <1>1, <1>2, <1>3, <1>4 DEF StoreInv, WrittenInv, FreshInv, ReadInv, BackInv

\* A call that went to a shard went to a database that exists
LEMMA InPlace ==
  ASSUME NEW n \in ShardCount, n # 0, NEW cf \in Cf, NEW key \in Key
  PROVE  HashOf[key] % n \in Nat /\ <<HashOf[key] % n, cf, key>> \in Place
  <1>1. n \in Nat /\ n > 0 /\ HashOf[key] \in Nat
    BY StorageAssumption
  <1>2. HashOf[key] % n \in 0..(n - 1)
    BY <1>1
  <1>3. HashOf[key] % n \in Dir
    BY <1>2 DEF Dir
  <1> QED  BY <1>2, <1>3 DEF Place

\* Opening a store touches no operation
LEMMA OpenInv ==
  ASSUME StoreInv, NEW n \in ShardCount, OpenStore(n)
  PROVE  StoreInv'
  <1>1. UNCHANGED <<disk, ops>>
    BY DEF OpenStore
  <1>2. TypeOK'
    BY <1>1, StorageAssumption DEF StoreInv, TypeOK, OpenStore, Where
  <1> QED  BY <1>1, <1>2 DEF StoreInv, CallInv, DiskInv, WrittenInv, FreshInv, ReadInv, BackInv, Where, SameKey, OpenStore

\* A new operation changes no other one, and has done nothing yet
LEMMA CallKeeps ==
  ASSUME StoreInv, NEW kind \in {"put", "get"}, NEW cf \in Cf, NEW key \in Key, Call(kind, cf, key)
  PROVE  StoreInv'
  <1>0. PICK c : c = Len(ops) + 1
    OBVIOUS
  <1> DEFINE op == [kind |-> kind, cf |-> cf, key |-> key, count |-> shards,
                   dir |-> IF shards = 0 THEN 0 ELSE ShardFor(key),
                   task |-> IF shards = 0 THEN "none" ELSE "queued",
                   caller |-> IF shards = 0 THEN "panicked" ELSE "waiting",
                   read |-> Nothing,
                   seen |-> Acked]
  <1>1. ops' = Append(ops, op) /\ UNCHANGED <<up, boots, shards, disk>> /\ Len(ops) < MaxOps
    BY DEF Call
  <1>2. ops \in Seq(Ops) /\ MaxOps \in Nat /\ Len(ops) \in Nat
    BY StorageAssumption DEF StoreInv, TypeOK
  <1>3. shards \in ShardCount /\ shards \in Nat
    BY StorageAssumption DEF StoreInv, CallInv, Call
  <1>4. shards # 0 => ShardFor(key) \in Nat /\ <<ShardFor(key), cf, key>> \in Place
    BY <1>3, InPlace DEF ShardFor
  <1>5. Acked \subseteq DOMAIN ops /\ DOMAIN ops = 1..Len(ops) /\ DOMAIN ops \subseteq OpId
    BY <1>1, <1>2 DEF Acked, OpId
  <1>6. op \in Ops
    BY <1>3, <1>4, <1>5 DEF Ops, OpId, Nothing
  <1>7. /\ op.kind = kind /\ op.cf = cf /\ op.key = key /\ op.count = shards /\ op.read = Nothing
        /\ op.seen = Acked
        /\ shards = 0 => op.task = "none" /\ op.caller = "panicked"
        /\ shards # 0 => op.task = "queued" /\ op.caller = "waiting" /\ op.dir = ShardFor(key)
    OBVIOUS
  <1> HIDE DEF op
  <1>8. /\ ops' \in Seq(Ops) /\ DOMAIN ops' = DOMAIN ops \cup {c} /\ Len(ops') = c
        /\ c \notin DOMAIN ops /\ ops'[c] = op
        /\ \A m \in DOMAIN ops : ops'[m] = ops[m]
    BY <1>0, <1>1, <1>2, <1>6
  <1>9. c <= MaxOps
    BY <1>0, <1>1, <1>2, StorageAssumption
  <1>10. \A m \in DOMAIN ops : Where(m)' = Where(m)
    BY <1>8 DEF Where
  <1>11. shards # 0 => Where(c)' \in Place
    BY <1>4, <1>7, <1>8 DEF Where
  <1>12. TypeOK'
    BY <1>1, <1>7, <1>8, <1>10, <1>11 DEF StoreInv, TypeOK
  <1>13. CallInv'
    <2>1. \A s \in Acked : s \in DOMAIN ops' /\ ops'[s].caller = "ok"
      BY <1>8 DEF Acked
    <2>2. /\ ops'[c].task # "none" => ops'[c].count # 0 /\ ops'[c].dir = HashOf[ops'[c].key] % ops'[c].count
          /\ ops'[c].caller # "ok"
          /\ ops'[c].seen = Acked
      BY <1>7, <1>8 DEF ShardFor
    <2>3. ASSUME NEW m \in DOMAIN ops
          PROVE  /\ ops'[m].task # "none" => ops'[m].count # 0 /\ ops'[m].dir = HashOf[ops'[m].key] % ops'[m].count
                 /\ ops'[m].caller = "ok" => ops'[m].task = "ok"
                 /\ \A s \in ops'[m].seen : s \in DOMAIN ops' /\ ops'[s].caller = "ok"
      BY <1>8 DEF StoreInv, CallInv
    <2>4. Len(ops') <= MaxOps /\ (up' => shards' \in ShardCount)
      BY <1>1, <1>3, <1>8, <1>9
    <2> QED  BY <1>8, <2>1, <2>2, <2>3, <2>4 DEF CallInv
  <1>14. DiskInv'
    BY <1>1, <1>8, <1>10 DEF StoreInv, DiskInv
  <1>15. WrittenInv'
    BY <1>1, <1>7, <1>8, <1>10 DEF StoreInv, WrittenInv
  <1>16. FreshInv'
    <2> SUFFICES ASSUME NEW g \in DOMAIN ops', NEW q \in DOMAIN ops',
                        ops'[g].kind = "get", ops'[g].task = "ok", ops'[q].kind = "put", SameKey(g, q)',
                        q \in ops'[g].seen, ops'[q].count = ops'[g].count
                 PROVE  ops'[g].read # Nothing /\ ops'[g].read \notin ops'[q].seen
      BY DEF FreshInv, Nothing
    <2>1. g \in DOMAIN ops
      BY <1>7, <1>8
    <2>2. q \in DOMAIN ops
      BY <1>8, <2>1 DEF StoreInv, CallInv
    <2> QED  BY <1>8, <2>1, <2>2 DEF StoreInv, FreshInv, SameKey
  <1>17. ReadInv'
    BY <1>7, <1>8, <1>10 DEF StoreInv, ReadInv, SameKey, Nothing
  <1>18. BackInv'
    <2> SUFFICES ASSUME NEW g \in DOMAIN ops', NEW h \in DOMAIN ops',
                        ops'[g].kind = "get", ops'[g].task = "ok", SameKey(g, h)',
                        h \in ops'[g].seen, ops'[h].count = ops'[g].count, ops'[h].read # Nothing
                 PROVE  ops'[g].read # Nothing /\ ops'[g].read \notin ops'[ops'[h].read].seen
      BY DEF BackInv, Nothing
    <2>1. g \in DOMAIN ops
      BY <1>7, <1>8
    <2>2. h \in DOMAIN ops
      BY <1>8, <2>1 DEF StoreInv, CallInv
    <2>3. ops[h].read \in DOMAIN ops
      BY <1>8, <2>2 DEF StoreInv, ReadInv
    <2> QED  BY <1>8, <2>1, <2>2, <2>3 DEF StoreInv, BackInv, SameKey
  <1> QED  BY <1>12, <1>13, <1>14, <1>15, <1>16, <1>17, <1>18 DEF StoreInv

\* What no step changes of a call
Fixed(o) ==
  /\ ops'[o].kind = ops[o].kind /\ ops'[o].cf = ops[o].cf /\ ops'[o].key = ops[o].key
  /\ ops'[o].count = ops[o].count /\ ops'[o].dir = ops[o].dir /\ ops'[o].seen = ops[o].seen

\* Where an operation goes is fixed with its call
LEMMA FixedWhere ==
  ASSUME NEW o, Fixed(o)
  PROVE  Where(o)' = Where(o)
  BY DEF Fixed, Where

\* Steps that only tell callers, or take them and their tasks away
LEMMA CallersInv ==
  ASSUME StoreInv, ops' \in Seq(Ops), UNCHANGED disk,
         up' \in BOOLEAN, up' => up, UNCHANGED <<boots, shards>>,
         DOMAIN ops' = DOMAIN ops,
         \A o \in DOMAIN ops :
           /\ Fixed(o) /\ ops'[o].read = ops[o].read
           /\ ops'[o].task = "ok" <=> ops[o].task = "ok"
           /\ ops[o].task = "none" => ops'[o].task = "none"
           /\ ops[o].caller = "ok" => ops'[o].caller = "ok"
           /\ ops'[o].caller = "ok" => ops[o].task = "ok"
  PROVE  StoreInv'
  <1>1. \A o \in DOMAIN ops : Where(o)' = Where(o)
    BY FixedWhere
  <1>2. Len(ops') = Len(ops)
    BY DEF StoreInv, TypeOK
  <1>3. TypeOK'
    BY <1>1 DEF StoreInv, TypeOK
  <1>4. CallInv'
    BY <1>2 DEF StoreInv, CallInv, Fixed
  <1>5. DiskInv'
    BY <1>1 DEF StoreInv, DiskInv, Fixed
  <1>6. WrittenInv'
    BY <1>1 DEF StoreInv, WrittenInv, Fixed
  <1>7. FreshInv'
    BY DEF StoreInv, FreshInv, Fixed, SameKey
  <1>8. ReadInv'
    BY <1>1 DEF StoreInv, ReadInv, Fixed, SameKey
  <1>9. BackInv'
    BY DEF StoreInv, ReadInv, BackInv, Fixed, SameKey
  <1> QED  BY <1>3, <1>4, <1>5, <1>6, <1>7, <1>8, <1>9 DEF StoreInv

\* The caller hears of its task, or is dropped
LEMMA ReturnInv ==
  ASSUME StoreInv, NEW o, Return(o) \/ Cancel(o)
  PROVE  StoreInv'
  <1>1. ops \in Seq(Ops) /\ o \in DOMAIN ops /\ ops[o] \in Ops /\ ops[o].caller = "waiting"
    BY DEF StoreInv, TypeOK, Return, Cancel
  <1>2. PICK r \in {"ok", "err", "dropped"} :
          /\ ops' = [ops EXCEPT ![o].caller = r] /\ UNCHANGED <<up, boots, shards, disk>>
          /\ r = "ok" => ops[o].task = "ok"
    BY DEF Return, Cancel
  <1>3. [ops[o] EXCEPT !.caller = r] \in Ops
    BY <1>1 DEF Ops
  <1>4. /\ ops' \in Seq(Ops) /\ DOMAIN ops' = DOMAIN ops /\ ops'[o] = [ops[o] EXCEPT !.caller = r]
        /\ \A m \in DOMAIN ops : m # o => ops'[m] = ops[m]
    BY <1>1, <1>2, <1>3
  <1>5. /\ Fixed(o) /\ ops'[o].read = ops[o].read /\ ops'[o].task = ops[o].task /\ ops'[o].caller = r
    BY <1>1, <1>4 DEF Ops, Fixed
  <1>6. \A m \in DOMAIN ops : ops[m].caller = "ok" => ops[m].task = "ok"
    BY DEF StoreInv, CallInv
  <1>7. up' \in BOOLEAN
    BY <1>2 DEF StoreInv, TypeOK
  <1> QED  BY <1>1, <1>2, <1>4, <1>5, <1>6, <1>7, CallersInv DEF Fixed

\* The process dies: waiting callers and queued tasks are gone, the disk stays
LEMMA CrashInv ==
  ASSUME StoreInv, Crash
  PROVE  StoreInv'
  <1> DEFINE dead(r) == [r EXCEPT !.caller = IF @ = "waiting" THEN "dropped" ELSE @,
                                  !.task = IF @ = "queued" THEN "lost" ELSE @]
  <1>1. ops \in Seq(Ops) /\ DOMAIN ops = 1..Len(ops) /\ Len(ops) \in Nat
    BY DEF StoreInv, TypeOK
  <1>2. /\ ops' = [o \in DOMAIN ops |-> dead(ops[o])]
        /\ up' = FALSE /\ UNCHANGED <<boots, shards, disk>>
    BY DEF Crash
  <1>3. ASSUME NEW r \in Ops
        PROVE  /\ dead(r) \in Ops
               /\ dead(r).kind = r.kind /\ dead(r).cf = r.cf /\ dead(r).key = r.key
               /\ dead(r).count = r.count /\ dead(r).dir = r.dir /\ dead(r).seen = r.seen
               /\ dead(r).read = r.read
               /\ dead(r).task = (IF r.task = "queued" THEN "lost" ELSE r.task)
               /\ dead(r).caller = (IF r.caller = "waiting" THEN "dropped" ELSE r.caller)
    BY DEF Ops
  <1> HIDE DEF dead
  <1>4. \A o \in DOMAIN ops : ops[o] \in Ops /\ ops'[o] = dead(ops[o])
    BY <1>1, <1>2
  <1>5. ops' \in [1..Len(ops) -> Ops] /\ DOMAIN ops' = DOMAIN ops
    BY <1>1, <1>2, <1>3, <1>4
  <1>6. ops' \in Seq(Ops)
    BY <1>1, <1>5
  <1>7. \A m \in DOMAIN ops : ops[m].caller = "ok" => ops[m].task = "ok"
    BY DEF StoreInv, CallInv
  <1>8. ASSUME NEW o \in DOMAIN ops
        PROVE  /\ Fixed(o) /\ ops'[o].read = ops[o].read
               /\ ops'[o].task = "ok" <=> ops[o].task = "ok"
               /\ ops[o].task = "none" => ops'[o].task = "none"
               /\ ops[o].caller = "ok" => ops'[o].caller = "ok"
               /\ ops'[o].caller = "ok" => ops[o].task = "ok"
    BY <1>3, <1>4, <1>7 DEF Fixed
  <1> QED  BY <1>2, <1>5, <1>6, <1>8, CallersInv

\* A task that ends touches its own operation only
LEMMA TaskMoves ==
  ASSUME StoreInv, NEW o \in DOMAIN ops, NEW t \in {"ok", "err"}, NEW v \in OpId \cup {Nothing},
         ops[o].task = "queued", ops' = [ops EXCEPT ![o] = [@ EXCEPT !.task = t, !.read = v]]
  PROVE  /\ ops' \in Seq(Ops) /\ DOMAIN ops' = DOMAIN ops /\ Len(ops') = Len(ops)
         /\ \A m \in DOMAIN ops : m # o => ops'[m] = ops[m]
         /\ \A m \in DOMAIN ops : Fixed(m) /\ ops'[m].caller = ops[m].caller
         /\ ops'[o].task = t /\ ops'[o].read = v
  <1>1. ops \in Seq(Ops) /\ ops[o] \in Ops
    BY DEF StoreInv, TypeOK
  <1>2. [ops[o] EXCEPT !.task = t, !.read = v] \in Ops
    BY <1>1 DEF Ops
  <1>3. /\ ops' \in Seq(Ops) /\ DOMAIN ops' = DOMAIN ops /\ Len(ops') = Len(ops)
        /\ ops'[o] = [ops[o] EXCEPT !.task = t, !.read = v]
        /\ \A m \in DOMAIN ops : m # o => ops'[m] = ops[m]
    BY <1>1, <1>2
  <1>4. Fixed(o) /\ ops'[o].caller = ops[o].caller /\ ops'[o].task = t /\ ops'[o].read = v
    BY <1>1, <1>3 DEF Ops, Fixed
  <1> QED  BY <1>3, <1>4 DEF Fixed

\* What a task that ends keeps of the calls
LEMMA TaskCalls ==
  ASSUME StoreInv, NEW o \in DOMAIN ops, ops[o].task = "queued",
         Len(ops') = Len(ops), DOMAIN ops' = DOMAIN ops,
         \A m \in DOMAIN ops : m # o => ops'[m] = ops[m],
         \A m \in DOMAIN ops : Fixed(m) /\ ops'[m].caller = ops[m].caller,
         UNCHANGED <<up, boots, shards>>
  PROVE  CallInv' /\ \A m \in DOMAIN ops : Where(m)' = Where(m) /\ o \notin ops[m].seen
  <1>1. \A m \in DOMAIN ops : ops[m].caller = "ok" => ops[m].task = "ok"
    BY DEF StoreInv, CallInv
  <1>2. \A m \in DOMAIN ops : o \notin ops[m].seen
    BY <1>1 DEF StoreInv, CallInv
  <1>3. ops[o].caller # "ok"
    BY <1>1
  <1>4. Len(ops') <= MaxOps /\ (up' => shards' \in ShardCount)
    BY DEF StoreInv, CallInv
  <1>5. ASSUME NEW m \in DOMAIN ops
        PROVE  /\ ops'[m].task # "none" => ops'[m].count # 0 /\ ops'[m].dir = HashOf[ops'[m].key] % ops'[m].count
               /\ ops'[m].caller = "ok" => ops'[m].task = "ok"
               /\ \A s \in ops'[m].seen : s \in DOMAIN ops' /\ ops'[s].caller = "ok"
    <2>1. ops'[m].task # "none" => ops[m].task # "none"
      OBVIOUS
    <2> QED  BY <1>3, <2>1 DEF StoreInv, CallInv, Fixed
  <1>6. \A m \in DOMAIN ops : Where(m)' = Where(m)
    BY FixedWhere
  <1> QED  BY <1>2, <1>4, <1>5, <1>6 DEF CallInv

\* A put is not among the operations that had returned before another one of
\* the same place was called, since its task has just run
LEMMA PutInv ==
  ASSUME StoreInv, NEW o, NEW outcome \in {"ok", "err"}, PutTask(o, outcome)
  PROVE  StoreInv'
  <1>1. /\ o \in DOMAIN ops /\ ops[o].kind = "put" /\ ops[o].task = "queued"
        /\ ops' = [ops EXCEPT ![o].task = outcome] /\ UNCHANGED <<up, boots, shards>>
        /\ disk' = IF outcome = "ok" THEN [disk EXCEPT ![Where(o)] = o] ELSE disk
    BY DEF PutTask
  <1>2. ops \in Seq(Ops) /\ ops[o] \in Ops /\ Where(o) \in Place /\ disk \in [Place -> OpId \cup {Nothing}]
    BY <1>1 DEF StoreInv, TypeOK
  <1>3. PICK v \in OpId \cup {Nothing} : v = ops[o].read
    BY <1>2 DEF Ops
  <1>4. ops' = [ops EXCEPT ![o] = [@ EXCEPT !.task = outcome, !.read = v]]
    BY <1>1, <1>2, <1>3 DEF Ops
  <1>5. /\ ops' \in Seq(Ops) /\ DOMAIN ops' = DOMAIN ops /\ Len(ops') = Len(ops)
        /\ \A m \in DOMAIN ops : m # o => ops'[m] = ops[m]
        /\ \A m \in DOMAIN ops : Fixed(m) /\ ops'[m].caller = ops[m].caller
        /\ ops'[o].task = outcome /\ ops'[o].read = v
    BY <1>1, <1>4, TaskMoves
  <1>6. CallInv' /\ \A m \in DOMAIN ops : Where(m)' = Where(m) /\ o \notin ops[m].seen
    BY <1>1, <1>5, TaskCalls
  <1>7. o \in OpId /\ o # Nothing
    <2>1. o \in 1..Len(ops) /\ Len(ops) \in Nat /\ MaxOps \in Nat /\ Len(ops) <= MaxOps
      BY <1>1, <1>2, StorageAssumption DEF StoreInv, CallInv
    <2> QED  BY <2>1 DEF OpId, Nothing
  <1>8. /\ disk' \in [Place -> OpId \cup {Nothing}]
        /\ \A p \in Place : disk'[p] = disk[p] \/ (disk'[p] = o /\ p = Where(o))
        /\ outcome = "ok" => disk'[Where(o)] = o
    BY <1>1, <1>2, <1>7
  <1>9. TypeOK'
    <2>1. \A m \in DOMAIN ops' : ops'[m].task # "none" => Where(m)' \in Place
      BY <1>1, <1>5, <1>6 DEF StoreInv, TypeOK
    <2> QED  BY <1>1, <1>5, <1>8, <2>1 DEF StoreInv, TypeOK
  <1>10. DiskInv'
    <2>1. ASSUME NEW p \in Place, NEW d, d = disk'[p], d # Nothing
          PROVE  /\ d \in DOMAIN ops' /\ ops'[d].kind = "put" /\ <<ops'[d].dir, ops'[d].cf, ops'[d].key>> = p
                 /\ ops'[d].task = "ok"
      <3>1. d \in DOMAIN ops /\ ops[d].kind = "put" /\ Where(d) = p
        BY <1>1, <1>8, <2>1 DEF StoreInv, DiskInv
      <3>2. ops'[d].task = "ok"
        BY <1>1, <1>5, <1>8, <2>1 DEF StoreInv, DiskInv
      <3> QED  BY <1>5, <3>1, <3>2 DEF Fixed, Where
    <2> QED  BY <2>1 DEF DiskInv, Where, Nothing, Place, Dir
  <1>11. WrittenInv'
    <2> SUFFICES ASSUME NEW q \in DOMAIN ops, ops[q].kind = "put", ops'[q].task = "ok"
                 PROVE  disk'[Where(q)] # Nothing /\ disk'[Where(q)] \notin ops[q].seen
      BY <1>5, <1>6 DEF WrittenInv, Fixed, Nothing
    <2>1. Where(q) \in Place
      BY <1>1, <1>2, <1>5 DEF StoreInv, TypeOK
    <2>2. CASE q = o
      BY <1>5, <1>6, <1>7, <1>8, <2>2
    <2>3. CASE q # o
      <3>1. disk[Where(q)] # Nothing /\ disk[Where(q)] \notin ops[q].seen
        BY <1>5, <2>3 DEF StoreInv, WrittenInv
      <3> QED  BY <1>6, <1>7, <1>8, <2>1, <3>1
    <2> QED  BY <2>2, <2>3
  <1>12. FreshInv'
    BY <1>1, <1>3, <1>5 DEF StoreInv, FreshInv, Fixed, SameKey, Nothing
  <1>13. \A m \in DOMAIN ops : ops'[m].read = ops[m].read
    BY <1>3, <1>5
  <1>14. ReadInv'
    <2> SUFFICES ASSUME NEW g \in DOMAIN ops, ops[g].read # Nothing
                 PROVE  /\ ops[g].read \in DOMAIN ops /\ ops[ops[g].read].kind = "put"
                        /\ SameKey(g, ops[g].read)
                        /\ ops'[ops[g].read].task = "ok" /\ Where(ops[g].read) = Where(g)
      BY <1>5, <1>6, <1>13 DEF ReadInv, Fixed, SameKey, Nothing
    <2>1. ops[ops[g].read].task = "ok" /\ ops[g].read \in DOMAIN ops
      BY DEF StoreInv, ReadInv
    <2>2. ops'[ops[g].read].task = "ok"
      BY <1>1, <1>5, <2>1
    <2> QED  BY <2>2 DEF StoreInv, ReadInv
  <1>15. BackInv'
    <2>1. \A g \in DOMAIN ops : ops[g].kind = "get" => ops'[g] = ops[g]
      BY <1>1, <1>5
    <2>2. \A h \in DOMAIN ops : ops[h].read # Nothing => ops[h].read \in DOMAIN ops
      BY DEF StoreInv, ReadInv
    <2> QED  BY <1>5, <1>13, <2>1, <2>2 DEF StoreInv, BackInv, Fixed, SameKey, Nothing
  <1> QED  BY <1>6, <1>9, <1>10, <1>11, <1>12, <1>14, <1>15 DEF StoreInv

\* A get reads the place a put with the same key and shard count wrote to
LEMMA GetInv ==
  ASSUME StoreInv, NEW o, NEW outcome \in {"ok", "err"}, GetTask(o, outcome)
  PROVE  StoreInv'
  <1>1. /\ o \in DOMAIN ops /\ ops[o].kind = "get" /\ ops[o].task = "queued"
        /\ UNCHANGED <<up, boots, shards, disk>>
    BY DEF GetTask
  <1>2. ops \in Seq(Ops) /\ ops[o] \in Ops /\ Where(o) \in Place /\ disk \in [Place -> OpId \cup {Nothing}]
    BY <1>1 DEF StoreInv, TypeOK
  <1>3. PICK t \in {"ok", "err"}, v \in OpId \cup {Nothing} :
          /\ ops' = [ops EXCEPT ![o].task = t, ![o].read = v]
          /\ v = IF t = "ok" THEN disk[Where(o)] ELSE Nothing
    BY <1>2 DEF GetTask
  <1>4. ops' = [ops EXCEPT ![o] = [@ EXCEPT !.task = t, !.read = v]]
    BY <1>1, <1>2, <1>3 DEF Ops
  <1>5. /\ ops' \in Seq(Ops) /\ DOMAIN ops' = DOMAIN ops /\ Len(ops') = Len(ops)
        /\ \A m \in DOMAIN ops : m # o => ops'[m] = ops[m]
        /\ \A m \in DOMAIN ops : Fixed(m) /\ ops'[m].caller = ops[m].caller
        /\ ops'[o].task = t /\ ops'[o].read = v
    BY <1>1, <1>3, <1>4, TaskMoves
  <1>6. CallInv' /\ \A m \in DOMAIN ops : Where(m)' = Where(m) /\ o \notin ops[m].seen
    BY <1>1, <1>5, TaskCalls
  <1>7. TypeOK'
    <2>1. \A m \in DOMAIN ops' : ops'[m].task # "none" => Where(m)' \in Place
      BY <1>1, <1>5, <1>6 DEF StoreInv, TypeOK
    <2> QED  BY <1>1, <1>5, <2>1 DEF StoreInv, TypeOK
  <1>8. DiskInv'
    BY <1>1, <1>5, <1>6 DEF StoreInv, DiskInv, Fixed, Nothing
  <1>9. WrittenInv'
    BY <1>1, <1>5, <1>6 DEF StoreInv, WrittenInv, Fixed, Nothing
  <1>10. FreshInv'
    <2> SUFFICES ASSUME NEW g \in DOMAIN ops, NEW q \in DOMAIN ops,
                        ops[g].kind = "get", ops'[g].task = "ok", ops[q].kind = "put", SameKey(g, q),
                        q \in ops[g].seen, ops[q].count = ops[g].count
                 PROVE  ops'[g].read # Nothing /\ ops'[g].read \notin ops[q].seen
      BY <1>5 DEF FreshInv, Fixed, SameKey, Nothing
    <2>1. CASE g # o
      BY <1>5, <2>1 DEF StoreInv, FreshInv
    <2>2. CASE g = o
      <3>1. ops[q].task = "ok"
        BY DEF StoreInv, CallInv
      <3>2. Where(q) = Where(o)
        BY <1>1, <2>2, <3>1 DEF StoreInv, CallInv, SameKey, Where
      <3>3. disk[Where(q)] # Nothing /\ disk[Where(q)] \notin ops[q].seen
        BY <3>1 DEF StoreInv, WrittenInv
      <3> QED  BY <1>3, <1>5, <2>2, <3>2, <3>3
    <2> QED  BY <2>1, <2>2
  <1>11. ReadInv'
    <2> SUFFICES ASSUME NEW g \in DOMAIN ops, ops'[g].read # Nothing
                 PROVE  /\ ops'[g].read \in DOMAIN ops /\ ops[ops'[g].read].kind = "put"
                        /\ SameKey(g, ops'[g].read)
                        /\ ops'[ops'[g].read].task = "ok" /\ Where(ops'[g].read) = Where(g)
      BY <1>5, <1>6 DEF ReadInv, Fixed, SameKey, Nothing
    <2>1. CASE g # o
      <3>1. ops'[g].read = ops[g].read
        BY <1>5, <2>1
      <3>2. /\ ops[g].read \in DOMAIN ops /\ ops[ops[g].read].kind = "put"
            /\ SameKey(g, ops[g].read)
            /\ ops[ops[g].read].task = "ok" /\ Where(ops[g].read) = Where(g)
        BY <3>1 DEF StoreInv, ReadInv
      <3>3. ops[g].read # o
        BY <1>1, <3>2
      <3> QED  BY <1>5, <3>1, <3>2, <3>3
    <2>2. CASE g = o
      <3>1. v # Nothing /\ v = disk[Where(o)] /\ ops'[g].read = v
        BY <1>3, <1>5, <2>2
      <3>2. v \in DOMAIN ops /\ ops[v].kind = "put" /\ Where(v) = Where(o) /\ ops[v].task = "ok"
        BY <1>2, <3>1 DEF StoreInv, DiskInv
      <3>3. v # o /\ ops'[v].task = "ok"
        BY <1>1, <1>5, <3>2
      <3> QED  BY <2>2, <3>1, <3>2, <3>3 DEF Where, SameKey
    <2> QED  BY <2>1, <2>2
  <1>12. BackInv'
    <2> SUFFICES ASSUME NEW g \in DOMAIN ops, NEW h \in DOMAIN ops,
                        ops[g].kind = "get", ops'[g].task = "ok", SameKey(g, h), h \in ops[g].seen,
                        ops[h].count = ops[g].count, ops'[h].read # Nothing
                 PROVE  ops'[g].read # Nothing /\ ops'[g].read \notin ops'[ops'[h].read].seen
      BY <1>5 DEF BackInv, Fixed, SameKey, Nothing
    <2>1. h # o /\ ops[h].task = "ok"
      BY <1>6 DEF StoreInv, CallInv
    <2>2. PICK p : p = ops[h].read
      OBVIOUS
    <2>3. /\ ops'[h].read = p /\ p # Nothing /\ p \in DOMAIN ops /\ ops[p].kind = "put"
          /\ ops[p].task = "ok" /\ Where(p) = Where(h) /\ ops'[p].seen = ops[p].seen
      BY <1>5, <2>1, <2>2 DEF StoreInv, ReadInv, Fixed
    <2>4. CASE g # o
      <3>1. ops[g].task = "ok" /\ ops'[g].read = ops[g].read
        BY <1>5, <2>4
      <3>2. ops[g].read # Nothing /\ ops[g].read \notin ops[p].seen
        BY <2>2, <2>3, <3>1 DEF StoreInv, BackInv
      <3> QED  BY <2>3, <3>1, <3>2
    <2>5. CASE g = o
      <3>1. Where(p) = Where(o)
        BY <1>1, <2>1, <2>3, <2>5 DEF StoreInv, CallInv, SameKey, Where
      <3>2. disk[Where(p)] # Nothing /\ disk[Where(p)] \notin ops[p].seen
        BY <2>3 DEF StoreInv, WrittenInv
      <3> QED  BY <1>3, <1>5, <2>3, <2>5, <3>1, <3>2
    <2> QED  BY <2>4, <2>5
  <1> QED  BY <1>6, <1>7, <1>8, <1>9, <1>10, <1>11, <1>12 DEF StoreInv

LEMMA StoreInvariant == Spec => []StoreInv
  <1>1. ASSUME StoreInv, [Next]_vars PROVE StoreInv'
    <2>1. CASE Next
      BY <1>1, <2>1, OpenInv, CallKeeps, ReturnInv, CrashInv, PutInv, GetInv DEF Next, OpStep
    <2>2. CASE UNCHANGED vars
      BY <1>1, <2>2 DEF vars, StoreInv, TypeOK, CallInv, DiskInv, WrittenInv, FreshInv, ReadInv, BackInv, Where, SameKey
    <2> QED  BY <1>1, <2>1, <2>2
  <1> QED  BY <1>1, InitStore, PTL DEF Spec

\* Every call that reaches a database finds its directory: shard_for yields an
\* index of a shard that was opened, for every hash and number of shards.
THEOREM TypeCorrect == Spec => []TypeOK
  <1>1. StoreInv => TypeOK
    BY DEF StoreInv
  <1> QED  BY <1>1, StoreInvariant, PTL

\* What a get returns was written by a put under the same key and in the same
\* column family (shard_for and cf_handle), for any hash function: keys that
\* share a database do not mix.
THEOREM NoLeaks ==
  Spec => [](\A g \in DOMAIN ops : ops[g].read # Nothing =>
               ops[ops[g].read].kind = "put" /\ SameKey(g, ops[g].read))
  <1>1. StoreInv => \A g \in DOMAIN ops : ops[g].read # Nothing =>
                      ops[ops[g].read].kind = "put" /\ SameKey(g, ops[g].read)
    BY DEF StoreInv, ReadInv
  <1> QED  BY <1>1, StoreInvariant, PTL

\* A put that returned Ok before a get was called is not missed by it, across
\* any number of crashes and restarts with the same number of shards.
THEOREM NoStaleReads == Spec => []ReadsFresh
  <1>1. StoreInv => ReadsFresh
    BY DEF StoreInv, CallInv, FreshInv, ReadsFresh, Acked
  <1> QED  BY <1>1, StoreInvariant, PTL

\* A value that a get has returned is not undone, whatever became of the put
\* that wrote it, across any number of crashes and restarts.
THEOREM SeenStays == Spec => []ReadsNeverGoBack
  <1>1. StoreInv => ReadsNeverGoBack
    BY DEF StoreInv, CallInv, BackInv, ReadsNeverGoBack, Acked
  <1> QED  BY <1>1, StoreInvariant, PTL

\* A put that returned Ok stays on disk until a later or concurrent put takes
\* its place.
THEOREM PutsAreDurable == Spec => []Durable
  <1>1. StoreInv => Durable
    BY DEF StoreInv, CallInv, WrittenInv, Durable, Acked
  <1> QED  BY <1>1, StoreInvariant, PTL
=============================================================================
