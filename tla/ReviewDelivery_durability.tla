--------------------- MODULE ReviewDelivery_durability ---------------------
(***************************************************************************)
(* The delivery loses no note and announces nothing that is not durable,   *)
(* and it implements NoteLedger.  The invariant is proved in three parts:  *)
(* the store (what cache, disk and the running commit say about each       *)
(* other), the queues (only posted operations travel) and the promises     *)
(* (NoNoteLost, AnnouncedIsDurable), which rest on the first two.          *)
(***************************************************************************)
EXTENDS ReviewDelivery_proofs

StoreInv == CacheKeepsAll /\ CountersAhead /\ OneRevisionEach /\ SavedIsDurable

-----------------------------------------------------------------------------
(* The store *)

LEMMA MergeKeeps ==
  ASSUME NEW x \in Docs, NEW y \in Docs, Keeps(y.ops, x.ops)
  PROVE  Merge(x, y).ops = x.ops /\ Merge(x, y).rev >= x.rev
BY DEF Merge, Docs, Revisions, Keeps, Higher

LEMMA LoadedKeeps ==
  ASSUME TypeOK, CacheKeepsAll
  PROVE  Loaded \in Docs /\ Loaded.ops = cache.ops /\ Loaded.rev >= cache.rev
BY MergeKeeps, LoadedType DEF TypeOK, RoomTypes, StoreTypes, Docs, Revisions, CacheKeepsAll, Loaded

\* No action writes anything but the cached document.
LEMMA DiskStep ==
  ASSUME [Next]_vars
  PROVE  disk' = disk \/ disk' = cache
<1>1. CASE HostNext
  BY <1>1 DEF HostNext, HostCommits, HostPosts, HostStartsDrain, HostDrains, HostReceives,
     HostGreets, GreetingSent, RetryCommit, FreshCommit, RejectCommit, WriteLands, WriteFails,
     SaveIsStale, Publish, SendCommit, SendCopy, FlushCache, StartRoom, OpenReview, CloseReview,
     OpenOther, LeaveReview, EndRoom, HostCrashes, storeVars
<1>2. ASSUME NEW g \in Guests, GuestNext(g)
      PROVE  disk' = disk \/ disk' = cache
  <2>1. CASE \E o \in Ops : GuestPosts(g, o)
    BY <2>1 DEF GuestPosts, storeVars
  <2>2. CASE GuestStartsDrain(g) \/ GuestDrains(g) \/ GuestDrainFails(g)
    BY <2>2 DEF GuestStartsDrain, GuestDrains, GuestDrainFails, storeVars
  <2>3. CASE GuestJoins(g) \/ LinkBreaks(g) \/ GuestGoesOff(g) \/ GuestCrashes(g)
    BY <2>3 DEF GuestJoins, LinkBreaks, GuestGoesOff, GuestCrashes, storeVars
  <2>4. CASE GuestAdopts(g) \/ GuestClears(g) \/ GuestAdoptsOther(g)
    BY <2>4 DEF GuestAdopts, GuestClears, GuestAdoptsOther, storeVars
  <2>5. CASE GuestHears(g) \/ GuestHearsCopy(g)
    BY <2>5 DEF GuestHears, GuestHearsCopy, storeVars
  <2> QED
    BY <1>2, <2>1, <2>2, <2>3, <2>4, <2>5 DEF GuestNext
<1>3. CASE UNCHANGED vars
  BY <1>3 DEF vars, storeVars
<1> QED
  BY <1>1, <1>2, <1>3 DEF Next

LEMMA DiskGrows ==
  ASSUME TypeOK, CacheKeepsAll, [Next]_vars
  PROVE  Keeps(disk.ops, disk'.ops)
BY DiskStep DEF CacheKeepsAll, Keeps

\* A step that leaves the cached revisions alone keeps the store's invariant.
LEMMA SameRevisions ==
  ASSUME TypeOK, StoreInv, TypeOK',
         cache'.ops = cache.ops, cache'.rev >= cache.rev,
         disk' = disk \/ disk' = cache,
         Keeps(doc'.ops, cache.ops),
         task'.stage # "idle" =>
           Keeps(task'.next.ops, cache.ops) /\ task'.next.ops[task'.op] # 0,
         SavedIsDurable'
  PROVE  StoreInv'
<1> USE DEF TypeOK, StoreTypes, Docs, Revisions
<1>1. CacheKeepsAll'
  BY DEF StoreInv, CacheKeepsAll, Keeps
<1>2. CountersAhead'
  BY DEF StoreInv, CountersAhead
<1>3. OneRevisionEach'
  BY DEF StoreInv, CacheKeepsAll, Keeps, OneRevisionEach
<1> QED
  BY <1>1, <1>2, <1>3 DEF StoreInv

\* A commit past its save stays on disk for as long as it runs.
LEMMA StillSaved ==
  ASSUME TypeOK, StoreInv, [Next]_vars,
         task'.stage \in {"saved", "sending", "copying"} =>
           /\ task.stage \in {"saved", "sending", "copying"}
           /\ task'.op = task.op /\ task'.next = task.next
  PROVE  SavedIsDurable'
<1>1. CASE task'.stage \in {"saved", "sending", "copying"}
  <2>1. task.op \in Ops /\ task.next.ops[task.op] # 0
        /\ disk.ops[task.op] = task.next.ops[task.op]
    BY <1>1, TaskBody DEF TypeOK, StoreInv, CacheKeepsAll, SavedIsDurable
  <2>2. disk'.ops[task.op] = disk.ops[task.op]
    BY <2>1, DiskGrows DEF StoreInv, Keeps
  <2> QED
    BY <1>1, <2>1, <2>2 DEF SavedIsDurable
<1>2. CASE task'.stage \notin {"saved", "sending", "copying"}
  BY <1>2 DEF SavedIsDurable
<1> QED
  BY <1>1, <1>2

LEMMA NoDocKeeps == \A k : Keeps(NoDoc.ops, k)
BY DEF NoDoc, NoOps, Keeps

\* The commit hands out a number above every number in use.
LEMMA FreshCommitStore ==
  ASSUME TypeOK, TypeOK', StoreInv, FreshCommit
  PROVE  StoreInv'
<1> DEFINE i == Head(tail)
           next == Committed(Loaded, i)
<1>1. i \in Intents /\ i.op \in Ops
  <2>1. i \in Intents
    BY HeadTailType DEF TypeOK, CommitTypes, FreshCommit
  <2> QED
    BY <2>1 DEF Intents
<1>2. Loaded \in Docs /\ Loaded.ops = cache.ops /\ Loaded.rev >= cache.rev
  BY LoadedKeeps DEF StoreInv
<1>3. cache' = next /\ disk' = disk /\ doc' = doc
      /\ task'.stage = "saving" /\ task'.next = next /\ task'.op = i.op
  BY DEF FreshCommit, Running, roomVars
<1>4. cache.ops[i.op] = 0
  BY <1>2 DEF FreshCommit
<1>5. /\ next.rev = Loaded.rev + 1 /\ next.ops[i.op] = Loaded.rev + 1
      /\ \A o \in Ops \ {i.op} : next.ops[o] = cache.ops[o]
  BY <1>1, <1>2 DEF Committed, Docs, Revisions
<1> HIDE DEF next, i
<1> USE DEF TypeOK, StoreTypes, Docs, Revisions
<1>6. Keeps(cache.ops, next.ops)
  BY <1>4, <1>5 DEF Keeps
<1>7. CacheKeepsAll'
  BY <1>1, <1>2, <1>3, <1>5, <1>6 DEF StoreInv, CacheKeepsAll, Keeps
<1>8. CountersAhead'
  BY <1>1, <1>2, <1>3, <1>5 DEF StoreInv, CountersAhead
<1>9. OneRevisionEach'
  <2>1. \A o \in Ops : cache.ops[o] < Loaded.rev + 1 /\ disk.ops[o] < Loaded.rev + 1
    BY <1>2 DEF StoreInv, CacheKeepsAll, Keeps, CountersAhead
  <2> QED
    BY <1>1, <1>2, <1>3, <1>5, <2>1 DEF StoreInv, OneRevisionEach
<1>10. SavedIsDurable'
  BY <1>3 DEF SavedIsDurable
<1> QED
  BY <1>7, <1>8, <1>9, <1>10 DEF StoreInv

\* After a crash the store is what the disk says.
LEMMA HostCrashesStore ==
  ASSUME TypeOK, TypeOK', StoreInv, HostCrashes
  PROVE  StoreInv'
<1>1. cache' = disk /\ disk' = disk /\ doc' = NoDoc /\ task'.stage = "idle"
  BY DEF HostCrashes, Idle
<1> USE DEF TypeOK, StoreTypes, Docs, Revisions
<1>2. CacheKeepsAll' /\ SavedIsDurable'
  BY <1>1, NoDocKeeps DEF CacheKeepsAll, Keeps, SavedIsDurable
<1>3. CountersAhead'
  BY <1>1 DEF StoreInv, CountersAhead
<1>4. OneRevisionEach'
  BY <1>1 DEF StoreInv, CacheKeepsAll, Keeps, OneRevisionEach
<1> QED
  BY <1>2, <1>3, <1>4 DEF StoreInv

LEMMA StoreStep ==
  ASSUME TypeOK, TypeOK', StoreInv, [Next]_vars
  PROVE  StoreInv'
<1> DEFINE Quiet == UNCHANGED <<cache, disk, doc, task>>
<1>0. disk' = disk \/ disk' = cache
  BY DiskStep
<1>1. cache \in Docs /\ disk \in Docs /\ doc \in Docs /\ cache.rev \in Nat
  BY DEF TypeOK, StoreTypes, RoomTypes, Docs
<1>2. ASSUME Quiet PROVE StoreInv'
  <2>1. SavedIsDurable'
    BY <1>2, StillSaved
  <2> QED
    BY <1>1, <1>2, <2>1, SameRevisions DEF StoreInv, CacheKeepsAll
<1>3. ASSUME NEW o \in Ops, HostPosts(o) PROVE StoreInv'
  <2>1. cache' = Merge(cache, doc) /\ disk' = disk /\ doc' = doc /\ task' = task
    BY <1>3 DEF HostPosts, roomVars
  <2>2. cache'.ops = cache.ops /\ cache'.rev >= cache.rev
    BY <1>1, <2>1, MergeKeeps DEF StoreInv, CacheKeepsAll
  <2>3. SavedIsDurable'
    BY <2>1, StillSaved
  <2> QED
    BY <2>1, <2>2, <2>3, SameRevisions DEF StoreInv, CacheKeepsAll
<1>4. CASE RetryCommit
  <2>1. /\ cache' = Loaded /\ disk' = disk /\ doc' = doc
        /\ task'.stage = "saving" /\ task'.next = Loaded /\ Loaded.ops[task'.op] # 0
    BY <1>4 DEF RetryCommit, roomVars, Running
  <2>2. SavedIsDurable'
    BY <2>1 DEF SavedIsDurable
  <2>3. Keeps(cache.ops, cache.ops)
    BY DEF Keeps
  <2> QED
    BY <2>1, <2>2, <2>3, LoadedKeeps, SameRevisions DEF StoreInv, CacheKeepsAll
<1>5. CASE WriteLands
  <2>1. /\ cache' = cache /\ disk' = cache /\ doc' = doc /\ task.stage # "idle"
        /\ task'.op = task.op /\ task'.next = task.next
    BY <1>5, TaskBody DEF WriteLands, roomVars, TypeOK, Commits
  <2>2. SavedIsDurable'
    BY <2>1, TaskBody DEF StoreInv, CacheKeepsAll, Keeps, SavedIsDurable, TypeOK
  <2> QED
    BY <1>1, <2>1, <2>2, SameRevisions DEF StoreInv, CacheKeepsAll
<1>6. CASE WriteFails \/ SaveIsStale
  <2>1. cache' = cache /\ doc' = doc /\ task'.stage = "idle"
    BY <1>6 DEF WriteFails, SaveIsStale, roomVars, storeVars, Idle
  <2>2. SavedIsDurable'
    BY <2>1 DEF SavedIsDurable
  <2> QED
    BY <1>0, <1>1, <2>1, <2>2, SameRevisions DEF StoreInv, CacheKeepsAll
<1>7. CASE Publish
  <2>1. task \in Commits /\ task.next \in Docs
    BY <1>7, TaskBody DEF Publish, TypeOK
  <2>2. Keeps(task.next.ops, cache.ops) /\ task.next.ops[task.op] # 0
    BY <1>7 DEF Publish, StoreInv, CacheKeepsAll
  <2>3. disk' = disk /\ (doc' = doc \/ doc' = task.next)
        /\ (cache' = cache \/ cache' = Merge(cache, task.next))
    BY <1>7 DEF Publish
  <2>4. task'.stage = "idle" \/ (task'.op = task.op /\ task'.next = task.next)
    BY <1>7, <2>1 DEF Publish, Idle, Commits
  <2>5. SavedIsDurable'
    BY <1>7, <2>4, StillSaved DEF Publish
  <2>6. cache'.ops = cache.ops /\ cache'.rev >= cache.rev
    BY <1>1, <2>1, <2>2, <2>3, MergeKeeps
  <2> QED
    BY <2>2, <2>3, <2>4, <2>5, <2>6, SameRevisions DEF StoreInv, CacheKeepsAll
<1>8. CASE SendCommit \/ SendCopy
  <2>1. task.stage \in {"sending", "copying"}
    BY <1>8 DEF SendCommit, SendCopy
  <2>2. task'.stage = "idle" \/ (task'.op = task.op /\ task'.next = task.next)
    BY <1>8, <2>1, TaskBody DEF SendCommit, SendCopy, TypeOK, Idle, Commits
  <2>3. SavedIsDurable'
    BY <2>1, <2>2, StillSaved
  <2>4. UNCHANGED <<cache, disk, doc>>
    BY <1>8 DEF SendCommit, SendCopy, storeVars, roomVars
  <2> QED
    BY <1>1, <2>1, <2>2, <2>3, <2>4, SameRevisions DEF StoreInv, CacheKeepsAll
<1>9. CASE FlushCache
  <2>1. cache' = cache /\ doc' = doc /\ task' = task
    BY <1>9 DEF FlushCache, roomVars, commitVars
  <2>2. SavedIsDurable'
    BY <2>1, StillSaved
  <2> QED
    BY <1>0, <1>1, <2>1, <2>2, SameRevisions DEF StoreInv, CacheKeepsAll
<1>10. CASE OpenReview
  <2>1. disk' = disk /\ task' = task /\ cache' = [cache EXCEPT !.sid = room] /\ doc' = cache'
    BY <1>10 DEF OpenReview
  <2>2. cache'.ops = cache.ops /\ cache'.rev = cache.rev /\ Keeps(doc'.ops, cache.ops)
    BY <1>1, <2>1 DEF Docs, Keeps
  <2>3. SavedIsDurable'
    BY <2>1, StillSaved
  <2> QED
    BY <1>1, <2>1, <2>2, <2>3, SameRevisions DEF StoreInv, CacheKeepsAll
<1>11. CASE CloseReview \/ OpenOther \/ EndRoom
  <2>1. disk' = disk /\ task' = task /\ cache' = Loaded /\ doc' = NoDoc
    BY <1>11 DEF CloseReview, OpenOther, LeaveReview, EndRoom, commitVars
  <2>2. SavedIsDurable'
    BY <2>1, StillSaved
  <2> QED
    BY <2>1, <2>2, LoadedKeeps, NoDocKeeps, SameRevisions DEF StoreInv, CacheKeepsAll
<1>12. CASE FreshCommit
  BY <1>12, FreshCommitStore
<1>13. CASE HostCrashes
  BY <1>13, HostCrashesStore
<1>14. ASSUME NEW g \in Guests, HostReceives(g) \/ HostGreets(g) \/ GreetingSent(g) \/ GuestNext(g)
       PROVE  Quiet
  BY <1>14 DEF GuestNext, HostReceives, HostGreets, GreetingSent, GuestPosts, GuestStartsDrain,
     GuestDrains, GuestDrainFails, GuestJoins, LinkBreaks, GuestGoesOff, GuestCrashes,
     GuestAdopts, GuestClears, GuestAdoptsOther, GuestHears, GuestHearsCopy,
     storeVars, roomVars, commitVars
<1>15. ASSUME HostStartsDrain \/ HostDrains \/ RejectCommit \/ StartRoom PROVE Quiet
  BY <1>15 DEF HostStartsDrain, HostDrains, RejectCommit, StartRoom, storeVars, roomVars, commitVars
<1>16. ASSUME UNCHANGED vars PROVE Quiet
  BY <1>16 DEF vars, storeVars, roomVars, commitVars
<1> QED
  BY <1>2, <1>3, <1>4, <1>5, <1>6, <1>7, <1>8, <1>9, <1>10, <1>11, <1>12, <1>13, <1>14,
     <1>15, <1>16 DEF Next, HostNext, HostCommits

-----------------------------------------------------------------------------
(* The queues *)

LEMMA SetOfAppend ==
  ASSUME NEW S, NEW s \in Seq(S), NEW x
  PROVE  ToSet(Append(s, x)) = ToSet(s) \union {x}
<1>1. Len(Append(s, x)) = Len(s) + 1 /\ DOMAIN Append(s, x) = 1..(Len(s) + 1)
  OBVIOUS
<1>2. Append(s, x)[Len(s) + 1] = x /\ \A i \in 1..Len(s) : Append(s, x)[i] = s[i]
  OBVIOUS
<1> QED
  BY <1>1, <1>2 DEF ToSet

LEMMA SetOfHeadTail ==
  ASSUME NEW S, NEW s \in Seq(S), s # <<>>
  PROVE  Head(s) \in ToSet(s) /\ ToSet(Tail(s)) \subseteq ToSet(s)
<1>1. 1 \in DOMAIN s /\ Head(s) = s[1]
  OBVIOUS
<1>2. \A i \in DOMAIN Tail(s) : i + 1 \in DOMAIN s /\ Tail(s)[i] = s[i + 1]
  OBVIOUS
<1> QED
  BY <1>1, <1>2 DEF ToSet

LEMMA SetOfEmpty == ToSet(<<>>) = {}
BY DEF ToSet

\* Removing one element loses that element at most and adds none.
LEMMA SetOfRemoveAt ==
  ASSUME NEW S, NEW s \in Seq(S), NEW i \in 1..Len(s)
  PROVE  /\ ToSet(RemoveAt(s, i)) \subseteq ToSet(s)
         /\ ToSet(s) \ {s[i]} \subseteq ToSet(RemoveAt(s, i))
<1> DEFINE x == SubSeq(s, 1, i - 1)
           y == SubSeq(s, i + 1, Len(s))
           r == RemoveAt(s, i)
<1>1. /\ x \in Seq(S) /\ Len(x) = i - 1
      /\ \A j \in 1..(i - 1) : x[j] = s[j]
  BY SubSeqProperties
<1>2. /\ y \in Seq(S) /\ Len(y) = Len(s) - i
      /\ \A j \in 1..(Len(s) - i) : y[j] = s[i + j]
  <2>1. \A j \in (i + 1)..Len(s) : s[j] \in S
    OBVIOUS
  <2>2. /\ y \in Seq(S)
        /\ Len(y) = IF i + 1 <= Len(s) THEN Len(s) - (i + 1) + 1 ELSE 0
        /\ \A j \in 1..(Len(s) - (i + 1) + 1) : y[j] = s[(i + 1) + j - 1]
    BY <2>1, SubSeqProperties
  <2> QED
    BY <2>2
<1>3. /\ Len(r) = Len(x) + Len(y) /\ r \in Seq(S)
      /\ \A j \in 1..(Len(x) + Len(y)) :
           r[j] = IF j <= Len(x) THEN x[j] ELSE y[j - Len(x)]
  BY <1>1, <1>2, ConcatProperties DEF RemoveAt
<1> HIDE DEF x, y, r
<1>4. /\ Len(r) = Len(s) - 1
      /\ \A j \in 1..(Len(s) - 1) : r[j] = IF j < i THEN s[j] ELSE s[j + 1]
  <2>1. Len(s) \in Nat /\ i \in Nat /\ 1 <= i /\ i <= Len(s)
    OBVIOUS
  <2>2. Len(r) = Len(s) - 1
    BY <1>1, <1>2, <1>3, <2>1
  <2>3. ASSUME NEW j \in 1..(Len(s) - 1), j < i
        PROVE  r[j] = s[j]
    <3>1. j \in 1..(i - 1) /\ j <= Len(x) /\ j \in 1..(Len(x) + Len(y))
      BY <1>1, <1>2, <2>1, <2>3
    <3> QED
      BY <3>1, <1>1, <1>3
  <2>4. ASSUME NEW j \in 1..(Len(s) - 1), ~ (j < i)
        PROVE  r[j] = s[j + 1]
    <3>1. /\ j \in 1..(Len(x) + Len(y)) /\ ~ (j <= Len(x))
          /\ j - Len(x) \in 1..(Len(s) - i) /\ i + (j - Len(x)) = j + 1
      BY <1>1, <1>2, <2>1, <2>4
    <3>2. r[j] = y[j - Len(x)]
      BY <3>1, <1>3
    <3>3. y[j - Len(x)] = s[i + (j - Len(x))]
      BY <3>1, <1>2
    <3> QED
      BY <3>1, <3>2, <3>3
  <2> QED
    BY <2>2, <2>3, <2>4
<1>5. DOMAIN r = 1..(Len(s) - 1) /\ DOMAIN s = 1..Len(s)
  BY <1>3, <1>4
<1>6. \A j \in DOMAIN r : \E k \in DOMAIN s : r[j] = s[k]
  BY <1>4, <1>5
<1>7. \A k \in DOMAIN s : k # i => \E j \in DOMAIN r : r[j] = s[k]
  <2> SUFFICES ASSUME NEW k \in DOMAIN s, k # i PROVE \E j \in DOMAIN r : r[j] = s[k]
    OBVIOUS
  <2>1. CASE k < i
    BY <1>4, <1>5, <2>1
  <2>2. CASE k > i
    <3>1. k - 1 \in DOMAIN r /\ r[k - 1] = s[k]
      BY <1>4, <1>5, <2>2
    <3> QED
      BY <3>1
  <2> QED
    BY <1>5, <2>1, <2>2
<1>8. ToSet(r) \subseteq ToSet(s) /\ ToSet(s) \ {s[i]} \subseteq ToSet(r)
  BY <1>6, <1>7 DEF ToSet
<1> QED
  BY <1>8 DEF r

\* acknowledgeEnvelope takes nothing but the acknowledged operation, and from
\* nobody but its owner.
LEMMA ForgetTakesOne ==
  ASSUME NEW m \in Members, NEW o \in Ops, outbox \in [Members -> Seq(Ops)]
  PROVE  /\ \A k \in Members : ToSet(Forget(m, o)[k]) \subseteq ToSet(outbox[k])
         /\ \A k \in Members : ToSet(outbox[k]) \ {o} \subseteq ToSet(Forget(m, o)[k])
         /\ \A k \in Members \ {m} : Forget(m, o)[k] = outbox[k]
<1>1. CASE o \in ToSet(outbox[m])
  <2> DEFINE i == CHOOSE i \in DOMAIN outbox[m] : outbox[m][i] = o
  <2>1. i \in 1..Len(outbox[m]) /\ outbox[m][i] = o
    BY <1>1 DEF ToSet
  <2>2. Forget(m, o) = [outbox EXCEPT ![m] = RemoveAt(outbox[m], i)]
    BY <1>1 DEF Forget
  <2> HIDE DEF i
  <2>3. /\ ToSet(RemoveAt(outbox[m], i)) \subseteq ToSet(outbox[m])
        /\ ToSet(outbox[m]) \ {o} \subseteq ToSet(RemoveAt(outbox[m], i))
    BY <2>1, SetOfRemoveAt
  <2> QED
    BY <2>2, <2>3
<1>2. CASE o \notin ToSet(outbox[m])
  BY <1>2 DEF Forget
<1> QED
  BY <1>1, <1>2

LEMMA AppendPosted ==
  ASSUME NEW S, NEW s \in Seq(S), NEW x, NEW P,
         \A i \in DOMAIN s : s[i].op \in P, x.op \in P
  PROVE  \A i \in DOMAIN Append(s, x) : Append(s, x)[i].op \in P
<1>1. DOMAIN Append(s, x) = 1..(Len(s) + 1) /\ Append(s, x)[Len(s) + 1] = x
      /\ \A i \in 1..Len(s) : Append(s, x)[i] = s[i]
  OBVIOUS
<1> QED
  BY <1>1

LEMMA TailOfPosted ==
  ASSUME NEW S, NEW s \in Seq(S), s # <<>>, NEW P, \A i \in DOMAIN s : s[i].op \in P
  PROVE  Head(s).op \in P /\ \A i \in DOMAIN Tail(s) : Tail(s)[i].op \in P
<1>1. \A i \in DOMAIN Tail(s) : i + 1 \in DOMAIN s /\ Tail(s)[i] = s[i + 1]
  OBVIOUS
<1> QED
  BY <1>1

LEMMA PostedGrows == [Next]_vars => posted \subseteq posted'
<1> SUFFICES ASSUME [Next]_vars PROVE posted \subseteq posted'
  OBVIOUS
<1>1. CASE HostNext
  BY <1>1 DEF HostNext, HostCommits, HostPosts, HostStartsDrain, HostDrains, HostReceives,
     HostGreets, GreetingSent, RetryCommit, FreshCommit, RejectCommit, WriteLands, WriteFails,
     SaveIsStale, Publish, SendCommit, SendCopy, FlushCache, StartRoom, OpenReview, CloseReview,
     OpenOther, LeaveReview, EndRoom, HostCrashes, memberVars
<1>2. ASSUME NEW g \in Guests, GuestNext(g)
      PROVE  posted \subseteq posted'
  <2>1. CASE \E o \in Ops : GuestPosts(g, o)
    BY <2>1 DEF GuestPosts, memberVars
  <2>2. CASE GuestStartsDrain(g) \/ GuestDrains(g) \/ GuestDrainFails(g)
    BY <2>2 DEF GuestStartsDrain, GuestDrains, GuestDrainFails, memberVars
  <2>3. CASE GuestJoins(g) \/ LinkBreaks(g) \/ GuestGoesOff(g) \/ GuestCrashes(g)
    BY <2>3 DEF GuestJoins, LinkBreaks, GuestGoesOff, GuestCrashes, memberVars
  <2>4. CASE GuestAdopts(g) \/ GuestClears(g) \/ GuestAdoptsOther(g)
    BY <2>4 DEF GuestAdopts, GuestClears, GuestAdoptsOther, memberVars
  <2>5. CASE GuestHears(g) \/ GuestHearsCopy(g)
    BY <2>5 DEF GuestHears, GuestHearsCopy, memberVars
  <2> QED
    BY <1>2, <2>1, <2>2, <2>3, <2>4, <2>5 DEF GuestNext
<1> QED
  BY <1>1, <1>2 DEF Next, vars, memberVars

\* What is handed to a drain or taken out of a queue was posted.
LEMMA DrainHeads ==
  ASSUME TypeOK, MembersPosted, NEW m \in Members
  PROVE  /\ outbox[m] # <<>> => Head(outbox[m]) \in posted
         /\ outbox[m] # <<>> => ToSet(Tail(outbox[m])) \subseteq posted
         /\ drain[m] # <<>> => Head(drain[m]) \in posted
         /\ drain[m] # <<>> => ToSet(Tail(drain[m])) \subseteq posted
<1>1. outbox[m] \in Seq(Ops) /\ drain[m] \in Seq(Ops)
  BY DEF TypeOK, MemberTypes
<1>2. ToSet(outbox[m]) \subseteq posted /\ ToSet(drain[m]) \subseteq posted
  BY DEF MembersPosted
<1> QED
  BY <1>1, <1>2, SetOfHeadTail

LEMMA GuestDrainPosted ==
  ASSUME TypeOK, OnlyPosted, NEW g \in Guests, GuestDrainBegins(g),
         posted' = posted, outbox' = outbox
  PROVE  MembersPosted' /\ UpPosted'
<1>0. g \in Members
  BY DEF Members
<1>1. CASE UNCHANGED <<up, drain>>
  BY <1>1 DEF OnlyPosted, MembersPosted, UpPosted
<1>2. CASE ~UNCHANGED <<up, drain>>
  <2>1. /\ outbox[g] # <<>>
        /\ up' = [up EXCEPT ![g] = Append(up[g], [op |-> Head(outbox[g]), sid |-> sid'[g]])]
        /\ drain' = [drain EXCEPT ![g] = Tail(outbox[g])]
    BY <1>2 DEF GuestDrainBegins
  <2>2. Head(outbox[g]) \in posted /\ ToSet(Tail(outbox[g])) \subseteq posted
    BY <1>0, <2>1, DrainHeads DEF OnlyPosted
  <2>3. MembersPosted'
    BY <2>1, <2>2 DEF TypeOK, MemberTypes, OnlyPosted, MembersPosted
  <2>4. up[g] \in Seq(Submits) /\ \A i \in DOMAIN up[g] : up[g][i].op \in posted
    BY DEF TypeOK, LinkTypes, OnlyPosted, UpPosted
  <2> DEFINE x == [op |-> Head(outbox[g]), sid |-> sid'[g]]
  <2>5. x.op \in posted
    BY <2>2
  <2>6. \A i \in DOMAIN Append(up[g], x) : Append(up[g], x)[i].op \in posted
    BY <2>4, <2>5, AppendPosted
  <2>7. UpPosted'
    BY <2>1, <2>6 DEF TypeOK, LinkTypes, OnlyPosted, UpPosted
  <2> QED
    BY <2>3, <2>7
<1> QED
  BY <1>1, <1>2

LEMMA HostDrainPosted ==
  ASSUME TypeOK, OnlyPosted, HostDrainBegins, posted' = posted, outbox' = outbox
  PROVE  MembersPosted' /\ TailPosted'
<1>0. Host \in Members
  BY DEF Members
<1>1. CASE UNCHANGED <<tail, drain>>
  BY <1>1 DEF OnlyPosted, MembersPosted, TailPosted
<1>2. CASE ~UNCHANGED <<tail, drain>>
  <2> DEFINE x == Intent(Head(outbox[Host]), room, TRUE)
  <2>1. /\ outbox[Host] # <<>>
        /\ tail' = Append(tail, x)
        /\ drain' = [drain EXCEPT ![Host] = Tail(outbox[Host])]
    BY <1>2 DEF HostDrainBegins
  <2>2. Head(outbox[Host]) \in posted /\ ToSet(Tail(outbox[Host])) \subseteq posted
    BY <1>0, <2>1, DrainHeads DEF OnlyPosted
  <2>3. MembersPosted'
    BY <2>1, <2>2 DEF TypeOK, MemberTypes, OnlyPosted, MembersPosted
  <2>4. tail \in Seq(Intents) /\ \A i \in DOMAIN tail : tail[i].op \in posted
    BY DEF TypeOK, CommitTypes, OnlyPosted, TailPosted
  <2>5. x.op \in posted
    BY <2>2 DEF Intent
  <2>6. TailPosted'
    BY <2>1, <2>4, <2>5, AppendPosted DEF TailPosted
  <2> QED
    BY <2>3, <2>6
<1> QED
  BY <1>1, <1>2

LEMMA CachePostedStep ==
  ASSUME TypeOK, TypeOK', StoreInv, OnlyPosted, [Next]_vars
  PROVE  CachePosted'
<1>1. posted \subseteq posted'
  BY PostedGrows
<1>2. CASE FreshCommit
  <2>1. tail # <<>> /\ cache' = Committed(Loaded, Head(tail))
    BY <1>2 DEF FreshCommit
  <2>2. Head(tail).op \in posted
    BY <2>1, TailOfPosted DEF TypeOK, CommitTypes, OnlyPosted, TailPosted
  <2>3. \A o \in Ops : cache'.ops[o] # 0 => cache.ops[o] # 0 \/ o = Head(tail).op
    BY <2>1, LoadedKeeps DEF StoreInv, Committed, Docs, Revisions
  <2> QED
    BY <1>1, <2>2, <2>3 DEF OnlyPosted, CachePosted
<1>3. ASSUME ~FreshCommit PROVE \A o \in Ops : cache'.ops[o] # 0 => cache.ops[o] # 0
  <2> DEFINE Same == cache'.ops = cache.ops
  <2>0. cache \in Docs /\ disk \in Docs /\ doc \in Docs
    BY DEF TypeOK, StoreTypes, RoomTypes
  <2>1. \A o \in Ops : HostPosts(o) => Same
    BY <2>0, MergeKeeps DEF HostPosts, StoreInv, CacheKeepsAll
  <2>2. RetryCommit \/ CloseReview \/ OpenOther \/ EndRoom => Same
    BY LoadedKeeps DEF StoreInv, RetryCommit, CloseReview, OpenOther, LeaveReview, EndRoom
  <2>3. Publish => Same
    BY <2>0, MergeKeeps, TaskBody DEF TypeOK, Publish, StoreInv, CacheKeepsAll
  <2>4. OpenReview => Same
    BY <2>0 DEF OpenReview, Docs
  <2>5. HostCrashes => cache' = disk
    BY DEF HostCrashes
  <2>6. ASSUME HostStartsDrain \/ HostDrains \/ RejectCommit \/ WriteLands \/ WriteFails
               \/ SaveIsStale \/ SendCommit \/ SendCopy \/ FlushCache \/ StartRoom
        PROVE  Same
    BY <2>6 DEF HostStartsDrain, HostDrains, RejectCommit, WriteLands, WriteFails, SaveIsStale,
       SendCommit, SendCopy, FlushCache, StartRoom, storeVars
  <2>7. ASSUME NEW g \in Guests,
               HostReceives(g) \/ HostGreets(g) \/ GreetingSent(g) \/ GuestNext(g)
        PROVE  Same
    BY <2>7 DEF GuestNext, HostReceives, HostGreets, GreetingSent, GuestPosts, GuestStartsDrain,
       GuestDrains, GuestDrainFails, GuestJoins, LinkBreaks, GuestGoesOff, GuestCrashes,
       GuestAdopts, GuestClears, GuestAdoptsOther, GuestHears, GuestHearsCopy, storeVars
  <2>8. UNCHANGED vars => Same
    BY DEF vars, storeVars
  <2>9. Same \/ cache' = disk
    BY <1>3, <2>1, <2>2, <2>3, <2>4, <2>5, <2>6, <2>7, <2>8 DEF Next, HostNext, HostCommits
  <2> QED
    BY <2>9 DEF StoreInv, CacheKeepsAll, Keeps
<1> QED
  BY <1>1, <1>2, <1>3 DEF OnlyPosted, CachePosted

\* The commit queue: what joins it was posted.
LEMMA TailPostedStep ==
  ASSUME TypeOK, OnlyPosted, [Next]_vars
  PROVE  TailPosted'
<1>1. posted \subseteq posted'
  BY PostedGrows
<1>2. tail \in Seq(Intents) /\ \A i \in DOMAIN tail : tail[i].op \in posted
  BY DEF TypeOK, CommitTypes, OnlyPosted, TailPosted
<1>3. ASSUME tail' = tail PROVE TailPosted'
  BY <1>1, <1>2, <1>3 DEF TailPosted
<1>4. ASSUME NEW o \in Ops, HostPosts(o) PROVE TailPosted'
  <2>1. tail' = Append(tail, Intent(o, room, FALSE)) /\ o \in posted'
    BY <1>4 DEF HostPosts
  <2>2. Intent(o, room, FALSE).op \in posted' /\ \A i \in DOMAIN tail : tail[i].op \in posted'
    BY <1>1, <1>2, <2>1 DEF Intent
  <2> QED
    BY <1>2, <2>1, <2>2, AppendPosted DEF TailPosted
<1>5. CASE HostStartsDrain \/ OpenReview
  BY <1>5, HostDrainPosted DEF HostStartsDrain, OpenReview
<1>6. CASE HostDrains
  <2>1. drain[Host] # <<>> /\ tail' = Append(tail, Intent(Head(drain[Host]), room, TRUE))
    BY <1>6 DEF HostDrains
  <2>2. Head(drain[Host]) \in posted
    BY <2>1, DrainHeads DEF OnlyPosted, Members
  <2>3. Intent(Head(drain[Host]), room, TRUE).op \in posted'
    BY <1>1, <2>2 DEF Intent
  <2>4. \A i \in DOMAIN tail : tail[i].op \in posted'
    BY <1>1, <1>2
  <2> QED
    BY <1>2, <2>1, <2>3, <2>4, AppendPosted DEF TailPosted
<1>7. ASSUME NEW g \in Guests, HostReceives(g) PROVE TailPosted'
  <2> DEFINE x == Intent(Head(up[g]).op, Head(up[g]).sid, FALSE)
  <2>1. up[g] # <<>> /\ (tail' = tail \/ tail' = Append(tail, x))
    BY <1>7 DEF HostReceives
  <2>2. up[g] \in Seq(Submits) /\ \A i \in DOMAIN up[g] : up[g][i].op \in posted
    BY DEF TypeOK, LinkTypes, OnlyPosted, UpPosted
  <2>3. Head(up[g]).op \in posted
    BY <2>1, <2>2, TailOfPosted
  <2>4. x.op \in posted' /\ \A i \in DOMAIN tail : tail[i].op \in posted'
    BY <1>1, <1>2, <2>3 DEF Intent
  <2> QED
    BY <1>2, <1>3, <2>1, <2>4, AppendPosted DEF TailPosted
<1>8. CASE RetryCommit \/ FreshCommit \/ RejectCommit
  <2>1. tail # <<>> /\ tail' = Tail(tail)
    BY <1>8 DEF RetryCommit, FreshCommit, RejectCommit
  <2> QED
    BY <1>1, <1>2, <2>1, TailOfPosted DEF TailPosted
<1>9. CASE HostCrashes
  BY <1>9 DEF HostCrashes, TailPosted
<1>10. ASSUME WriteLands \/ WriteFails \/ SaveIsStale \/ Publish \/ SendCommit \/ SendCopy
              \/ FlushCache \/ StartRoom \/ CloseReview \/ OpenOther \/ EndRoom
       PROVE  tail' = tail
  BY <1>10 DEF WriteLands, WriteFails, SaveIsStale, Publish, SendCommit, SendCopy, FlushCache,
     StartRoom, CloseReview, OpenOther, LeaveReview, EndRoom, commitVars
<1>11. ASSUME NEW g \in Guests, HostGreets(g) \/ GreetingSent(g) \/ GuestNext(g)
       PROVE  tail' = tail
  BY <1>11 DEF GuestNext, HostGreets, GreetingSent, GuestPosts, GuestStartsDrain, GuestDrains,
     GuestDrainFails, GuestJoins, LinkBreaks, GuestGoesOff, GuestCrashes, GuestAdopts,
     GuestClears, GuestAdoptsOther, GuestHears, GuestHearsCopy, commitVars
<1>12. UNCHANGED vars => tail' = tail
  BY DEF vars, commitVars
<1> QED
  BY <1>3, <1>4, <1>5, <1>6, <1>7, <1>8, <1>9, <1>10, <1>11, <1>12 DEF Next, HostNext, HostCommits

\* A guest only sends what it queued before.
LEMMA UpPostedStep ==
  ASSUME TypeOK, OnlyPosted, [Next]_vars
  PROVE  UpPosted'
<1>1. posted \subseteq posted'
  BY PostedGrows
<1>2. \A g \in Guests : up[g] \in Seq(Submits) /\ \A i \in DOMAIN up[g] : up[g][i].op \in posted
  BY DEF TypeOK, LinkTypes, OnlyPosted, UpPosted
<1>3. ASSUME up' = up PROVE UpPosted'
  BY <1>1, <1>2, <1>3 DEF UpPosted
<1>4. ASSUME NEW g \in Guests, NEW o \in posted', GuestSends(g, o) PROVE UpPosted'
  <2> DEFINE x == [op |-> o, sid |-> sid[g]]
  <2>1. up' = up \/ up' = [up EXCEPT ![g] = Append(up[g], x)]
    BY <1>4 DEF GuestSends
  <2>2. x.op \in posted' /\ \A i \in DOMAIN up[g] : up[g][i].op \in posted'
    BY <1>1, <1>2
  <2>3. \A i \in DOMAIN Append(up[g], x) : Append(up[g], x)[i].op \in posted'
    BY <1>2, <2>2, AppendPosted
  <2> HIDE DEF x
  <2>4. ASSUME up' = [up EXCEPT ![g] = Append(up[g], x)] PROVE UpPosted'
    BY <1>1, <1>2, <2>3, <2>4 DEF TypeOK, LinkTypes, UpPosted
  <2> QED
    BY <1>3, <2>1, <2>4
<1>5. ASSUME NEW g \in Guests, NEW o \in Ops, GuestPosts(g, o) PROVE UpPosted'
  BY <1>4, <1>5 DEF GuestPosts
<1>6. ASSUME NEW g \in Guests, GuestDrains(g) PROVE UpPosted'
  <2>1. drain[g] # <<>> /\ GuestSends(g, Head(drain[g]))
    BY <1>6 DEF GuestDrains
  <2>2. Head(drain[g]) \in posted'
    BY <1>1, <2>1, DrainHeads DEF OnlyPosted, Members
  <2> QED
    BY <1>4, <2>1, <2>2
<1>7. ASSUME NEW g \in Guests, GuestStartsDrain(g) \/ GuestAdopts(g) PROVE UpPosted'
  BY <1>7, GuestDrainPosted DEF GuestStartsDrain, GuestAdopts
<1>8. ASSUME NEW g \in Guests, HostReceives(g) PROVE UpPosted'
  <2>1. up[g] # <<>> /\ up' = [up EXCEPT ![g] = Tail(up[g])]
    BY <1>8 DEF HostReceives
  <2>2. \A i \in DOMAIN Tail(up[g]) : Tail(up[g])[i].op \in posted'
    BY <1>1, <1>2, <2>1, TailOfPosted
  <2> QED
    BY <1>1, <1>2, <2>1, <2>2 DEF TypeOK, LinkTypes, UpPosted
<1>9. CASE EndRoom \/ HostCrashes
  BY <1>9 DEF EndRoom, HostCrashes, NoLinks, UpPosted
<1>10. ASSUME NEW g \in Guests, LinkBreaks(g) \/ GuestCrashes(g) PROVE UpPosted'
  <2>1. up' = [up EXCEPT ![g] = <<>>]
    BY <1>10 DEF LinkBreaks, GuestCrashes, CutLink
  <2> QED
    BY <1>1, <1>2, <2>1 DEF TypeOK, LinkTypes, UpPosted
<1>11. ASSUME \/ \E o \in Ops : HostPosts(o)
              \/ HostStartsDrain \/ HostDrains \/ OpenReview \/ HostCommits
              \/ StartRoom \/ CloseReview \/ OpenOther
       PROVE  up' = up
  BY <1>11 DEF HostPosts, HostStartsDrain, HostDrains, OpenReview, HostCommits, RetryCommit,
     FreshCommit, RejectCommit, WriteLands, WriteFails, SaveIsStale, Publish, SendCommit,
     SendCopy, FlushCache, StartRoom, CloseReview, OpenOther, LeaveReview, linkVars
<1>12. ASSUME NEW g \in Guests,
              \/ HostGreets(g) \/ GreetingSent(g) \/ GuestDrainFails(g) \/ GuestJoins(g)
              \/ GuestGoesOff(g) \/ GuestClears(g) \/ GuestAdoptsOther(g)
              \/ GuestHears(g) \/ GuestHearsCopy(g)
       PROVE  up' = up
  BY <1>12 DEF HostGreets, GreetingSent, GuestDrainFails, GuestJoins, GuestGoesOff, GuestClears,
     GuestAdoptsOther, GuestHears, GuestHearsCopy, linkVars
<1>13. UNCHANGED vars => up' = up
  BY DEF vars, linkVars
<1> QED
  BY <1>3, <1>5, <1>6, <1>7, <1>8, <1>9, <1>10, <1>11, <1>12, <1>13 DEF Next, HostNext, GuestNext

\* Outboxes and running drains.
LEMMA MembersPostedStep ==
  ASSUME TypeOK, OnlyPosted, [Next]_vars
  PROVE  MembersPosted'
<1>0. Host \in Members /\ Guests \subseteq Members
  BY DEF Members
<1>1. posted \subseteq posted'
  BY PostedGrows
<1>2. \A m \in Members :
        /\ outbox[m] \in Seq(Ops) /\ drain[m] \in Seq(Ops)
        /\ ToSet(outbox[m]) \subseteq posted /\ ToSet(drain[m]) \subseteq posted
  BY DEF TypeOK, MemberTypes, OnlyPosted, MembersPosted
<1>3. ASSUME UNCHANGED <<outbox, drain>> PROVE MembersPosted'
  BY <1>1, <1>2, <1>3 DEF MembersPosted
<1>4. ASSUME NEW m \in Members, NEW o \in posted', drain' = drain,
             outbox' = [outbox EXCEPT ![m] = Append(outbox[m], o)]
      PROVE  MembersPosted'
  <2>1. ToSet(Append(outbox[m], o)) \subseteq posted'
    BY <1>1, <1>2, SetOfAppend
  <2> QED
    BY <1>1, <1>2, <1>4, <2>1 DEF TypeOK, MemberTypes, MembersPosted
<1>5. ASSUME NEW m \in Members, outbox' = outbox, drain' = [drain EXCEPT ![m] = <<>>]
      PROVE  MembersPosted'
  BY <1>1, <1>2, <1>5, SetOfEmpty DEF TypeOK, MemberTypes, MembersPosted
<1>6. ASSUME NEW m \in Members, outbox' = outbox, drain[m] # <<>>,
             drain' = [drain EXCEPT ![m] = Tail(drain[m])]
      PROVE  MembersPosted'
  BY <1>1, <1>2, <1>6, DrainHeads DEF TypeOK, MemberTypes, MembersPosted, OnlyPosted
<1>7. ASSUME NEW m \in Members, NEW o \in Ops, drain' = drain, outbox' = Forget(m, o)
      PROVE  MembersPosted'
  <2>1. \A k \in Members : ToSet(Forget(m, o)[k]) \subseteq ToSet(outbox[k])
    BY ForgetTakesOne DEF TypeOK, MemberTypes
  <2> QED
    BY <1>1, <1>2, <1>7, <2>1 DEF MembersPosted
<1>8. ASSUME NEW o \in Ops, HostPosts(o) PROVE MembersPosted'
  BY <1>0, <1>4, <1>8 DEF HostPosts
<1>9. ASSUME NEW g \in Guests, NEW o \in Ops, GuestPosts(g, o) PROVE MembersPosted'
  BY <1>0, <1>4, <1>9 DEF GuestPosts
<1>10. CASE HostStartsDrain \/ OpenReview
  BY <1>10, HostDrainPosted DEF HostStartsDrain, OpenReview
<1>11. ASSUME NEW g \in Guests, GuestStartsDrain(g) \/ GuestAdopts(g) PROVE MembersPosted'
  BY <1>11, GuestDrainPosted DEF GuestStartsDrain, GuestAdopts
<1>12. CASE HostDrains
  BY <1>0, <1>6, <1>12 DEF HostDrains
<1>13. ASSUME NEW g \in Guests, GuestDrains(g) PROVE MembersPosted'
  BY <1>0, <1>6, <1>13 DEF GuestDrains
<1>14. CASE RejectCommit \/ WriteFails \/ SaveIsStale \/ EndRoom \/ HostCrashes
  <2>1. outbox' = outbox /\ (drain' = drain \/ drain' = [drain EXCEPT ![Host] = <<>>])
    BY <1>14 DEF RejectCommit, WriteFails, SaveIsStale, EndRoom, HostCrashes, CommitFails
  <2> QED
    BY <1>0, <1>3, <1>5, <2>1
<1>15. ASSUME NEW g \in Guests, GuestDrainFails(g) \/ GuestGoesOff(g) \/ GuestCrashes(g)
       PROVE  MembersPosted'
  BY <1>0, <1>5, <1>15 DEF GuestDrainFails, GuestGoesOff, GuestCrashes, GuestResets
<1>16. CASE Publish
  <2>1. task.op \in Ops
    BY <1>16, TaskBody DEF Publish, TypeOK
  <2>2. drain' = drain /\ (outbox' = outbox \/ outbox' = Forget(Host, task.op))
    BY <1>16 DEF Publish
  <2> QED
    BY <1>0, <1>3, <1>7, <2>1, <2>2
<1>17. ASSUME NEW g \in Guests, GuestHears(g) PROVE MembersPosted'
  <2>1. Head(down[g]).op \in Ops
    BY <1>17, FirstDown, OpBody DEF GuestHears, TypeOK
  <2>2. drain' = drain /\ (outbox' = outbox \/ outbox' = Forget(g, Head(down[g]).op))
    BY <1>17 DEF GuestHears
  <2> QED
    BY <1>0, <1>3, <1>7, <2>1, <2>2
<1>18. ASSUME RetryCommit \/ FreshCommit \/ WriteLands \/ SendCommit \/ SendCopy \/ FlushCache
              \/ StartRoom \/ CloseReview \/ OpenOther
       PROVE  UNCHANGED <<outbox, drain>>
  BY <1>18 DEF RetryCommit, FreshCommit, WriteLands, SendCommit, SendCopy, FlushCache, StartRoom,
     CloseReview, OpenOther, LeaveReview, memberVars
<1>19. ASSUME NEW g \in Guests,
              \/ HostReceives(g) \/ HostGreets(g) \/ GreetingSent(g) \/ GuestJoins(g)
              \/ LinkBreaks(g) \/ GuestClears(g) \/ GuestAdoptsOther(g) \/ GuestHearsCopy(g)
       PROVE  UNCHANGED <<outbox, drain>>
  BY <1>19 DEF HostReceives, HostGreets, GreetingSent, GuestJoins, LinkBreaks, GuestClears,
     GuestAdoptsOther, GuestHearsCopy, memberVars
<1>20. UNCHANGED vars => UNCHANGED <<outbox, drain>>
  BY DEF vars, memberVars
<1> QED
  BY <1>3, <1>8, <1>9, <1>10, <1>11, <1>12, <1>13, <1>14, <1>15, <1>16, <1>17, <1>18, <1>19,
     <1>20 DEF Next, HostNext, HostCommits, GuestNext

-----------------------------------------------------------------------------
(* The promises *)

\* A message that is broadcast is the last one of every pipe it enters.
LEMMA AnnouncedIfBroadcast ==
  ASSUME TypeOK, AnnouncedIsDurable, NEW msg \in Downs, Broadcast(msg),
         Keeps(disk.ops, disk'.ops),
         msg.t \in {"commit", "ack"} => msg.rev # 0 /\ disk'.ops[msg.op] = msg.rev
  PROVE  AnnouncedIsDurable'
<1> SUFFICES ASSUME NEW g \in Guests, NEW i \in DOMAIN down'[g],
                    down'[g][i].t \in {"commit", "ack"}
             PROVE  down'[g][i].rev # 0 /\ disk'.ops[down'[g][i].op] = down'[g][i].rev
  BY DEF AnnouncedIsDurable
<1>1. down[g] \in Seq(Downs) /\ (down'[g] = down[g] \/ down'[g] = Append(down[g], msg))
  BY DEF TypeOK, LinkTypes, Broadcast
<1>2. down'[g][i] = msg \/ (i \in DOMAIN down[g] /\ down'[g][i] = down[g][i])
  BY <1>1
<1>3. CASE i \in DOMAIN down[g] /\ down'[g][i] = down[g][i]
  <2>1. down[g][i] \in Downs
    BY <1>1, <1>3
  <2>2. down[g][i].op \in Ops
    BY <1>3, <2>1, OpBody
  <2>3. down[g][i].rev # 0 /\ disk.ops[down[g][i].op] = down[g][i].rev
    BY <1>3 DEF AnnouncedIsDurable
  <2> QED
    BY <1>3, <2>2, <2>3 DEF Keeps
<1> QED
  BY <1>2, <1>3

\* A step that adds no announcement keeps them durable.
LEMMA AnnouncedIfQuiet ==
  ASSUME TypeOK, AnnouncedIsDurable, Keeps(disk.ops, disk'.ops),
         \A g \in Guests : \A i \in DOMAIN down'[g] : down'[g][i].t \in {"commit", "ack"} =>
           \E j \in DOMAIN down[g] : down[g][j] = down'[g][i]
  PROVE  AnnouncedIsDurable'
<1> SUFFICES ASSUME NEW g \in Guests, NEW i \in DOMAIN down'[g],
                    down'[g][i].t \in {"commit", "ack"}
             PROVE  down'[g][i].rev # 0 /\ disk'.ops[down'[g][i].op] = down'[g][i].rev
  BY DEF AnnouncedIsDurable
<1>1. PICK j \in DOMAIN down[g] : down[g][j] = down'[g][i]
  OBVIOUS
<1>2. down[g][j] \in Downs
  BY DEF TypeOK, LinkTypes
<1>3. down[g][j].op \in Ops
  BY <1>1, <1>2, OpBody
<1>4. down[g][j].rev # 0 /\ disk.ops[down[g][j].op] = down[g][j].rev
  BY <1>1 DEF AnnouncedIsDurable
<1> QED
  BY <1>1, <1>3, <1>4 DEF Keeps

LEMMA AnnouncedStep ==
  ASSUME TypeOK, StoreInv, AnnouncedIsDurable, [Next]_vars
  PROVE  AnnouncedIsDurable'
<1>1. Keeps(disk.ops, disk'.ops)
  BY DiskGrows DEF StoreInv
<1>2. down \in [Guests -> Seq(Downs)]
  BY DEF TypeOK, LinkTypes
<1>3. ASSUME down' = down PROVE AnnouncedIsDurable'
  BY <1>1, <1>3, AnnouncedIfQuiet
<1>4. ASSUME NEW g \in Guests, down[g] # <<>>, down' = [down EXCEPT ![g] = Tail(down[g])]
      PROVE  AnnouncedIsDurable'
  <2>1. \A i \in DOMAIN Tail(down[g]) : i + 1 \in DOMAIN down[g] /\ Tail(down[g])[i] = down[g][i + 1]
    BY <1>2, <1>4
  <2>2. \A k \in Guests : \A i \in DOMAIN down'[k] :
          \E j \in DOMAIN down[k] : down[k][j] = down'[k][i]
    BY <1>2, <1>4, <2>1
  <2> QED
    BY <1>1, <2>2, AnnouncedIfQuiet
<1>5. ASSUME NEW g \in Guests, down' = [down EXCEPT ![g] = <<>>]
      PROVE  AnnouncedIsDurable'
  <2>1. \A k \in Guests : \A i \in DOMAIN down'[k] :
          \E j \in DOMAIN down[k] : down[k][j] = down'[k][i]
    BY <1>2, <1>5
  <2> QED
    BY <1>1, <2>1, AnnouncedIfQuiet
<1>6. CASE SendCommit
  <2>1. task.stage = "sending" /\ Broadcast(Announcement)
    BY <1>6 DEF SendCommit
  <2>2. task.op \in Ops /\ task.next \in Docs /\ Announcement \in Downs
    BY <2>1, TaskBody, AnnouncementType DEF TypeOK
  <2>3. disk.ops[task.op] = task.next.ops[task.op] /\ task.next.ops[task.op] # 0
    BY <2>1 DEF StoreInv, SavedIsDurable, CacheKeepsAll
  <2>4. Announcement.op = task.op /\ Announcement.rev = task.next.ops[task.op]
    BY DEF Announcement
  <2>5. disk'.ops[task.op] = task.next.ops[task.op]
    BY <1>1, <2>2, <2>3 DEF Keeps
  <2> QED
    BY <1>1, <2>1, <2>2, <2>3, <2>4, <2>5, AnnouncedIfBroadcast
<1>7. ASSUME NEW msg \in Downs, msg.t \notin {"commit", "ack"}, Broadcast(msg)
      PROVE  AnnouncedIsDurable'
  BY <1>1, <1>7, AnnouncedIfBroadcast
<1>8. CASE SendCopy
  <2>1. task.stage # "idle" /\ Broadcast([t |-> "copy", op |-> task.op])
    BY <1>8 DEF SendCopy
  <2>2. [t |-> "copy", op |-> task.op] \in Downs
    BY <2>1, TaskBody DEF TypeOK, Downs, Copies
  <2> QED
    BY <1>7, <2>1, <2>2
<1>9. CASE OpenReview
  <2>1. Broadcast([t |-> "doc", doc |-> [cache EXCEPT !.sid = room]])
    BY <1>9 DEF OpenReview
  <2>2. [cache EXCEPT !.sid = room] \in Docs
    BY DEF TypeOK, StoreTypes, RoomTypes, Docs
  <2>3. [t |-> "doc", doc |-> [cache EXCEPT !.sid = room]] \in Downs
    BY <2>2, DocMessageType
  <2> QED
    BY <1>7, <2>1, <2>3
<1>10. CASE CloseReview \/ OpenOther
  <2>1. PICK switch \in {"cleared", "other"} : Broadcast([t |-> switch])
    BY <1>10 DEF CloseReview, OpenOther, LeaveReview
  <2>2. [t |-> switch] \in Downs
    BY DEF Downs, Switches
  <2> QED
    BY <1>7, <2>1, <2>2
<1>11. ASSUME NEW g \in Guests, GreetingSent(g) PROVE AnnouncedIsDurable'
  <2> DEFINE x == [t |-> "doc", doc |-> snap[g]]
  <2>1. down' = [down EXCEPT ![g] = Append(down[g], x)] /\ x.t = "doc"
    BY <1>11 DEF GreetingSent
  <2> HIDE DEF x
  <2>2. \A i \in DOMAIN Append(down[g], x) :
          Append(down[g], x)[i] = x \/ (i \in DOMAIN down[g] /\ Append(down[g], x)[i] = down[g][i])
    BY <1>2
  <2>3. \A k \in Guests : \A i \in DOMAIN down'[k] : down'[k][i].t \in {"commit", "ack"} =>
          \E j \in DOMAIN down[k] : down[k][j] = down'[k][i]
    BY <1>2, <2>1, <2>2
  <2> QED
    BY <1>1, <2>3, AnnouncedIfQuiet
<1>12. ASSUME NEW g \in Guests,
              GuestAdopts(g) \/ GuestClears(g) \/ GuestAdoptsOther(g) \/ GuestHears(g) \/ GuestHearsCopy(g)
       PROVE  AnnouncedIsDurable'
  BY <1>4, <1>12 DEF GuestAdopts, GuestClears, GuestAdoptsOther, GuestHears, GuestHearsCopy, Delivered
<1>13. ASSUME NEW g \in Guests, GuestJoins(g) \/ GuestGoesOff(g) \/ GuestCrashes(g)
       PROVE  AnnouncedIsDurable'
  BY <1>5, <1>13 DEF GuestJoins, GuestGoesOff, GuestCrashes, GuestResets
<1>14. ASSUME NEW g \in Guests,
              \/ HostReceives(g) \/ HostGreets(g) \/ \E o \in Ops : GuestPosts(g, o)
              \/ GuestStartsDrain(g) \/ GuestDrains(g) \/ GuestDrainFails(g) \/ LinkBreaks(g)
       PROVE  down' = down
  BY <1>14 DEF HostReceives, HostGreets, GuestPosts, GuestStartsDrain, GuestDrains,
     GuestDrainFails, LinkBreaks, linkVars
<1>15. ASSUME \/ \E o \in Ops : HostPosts(o)
              \/ HostStartsDrain \/ HostDrains \/ RetryCommit \/ FreshCommit \/ RejectCommit
              \/ WriteLands \/ WriteFails \/ SaveIsStale \/ Publish \/ FlushCache
              \/ StartRoom \/ EndRoom \/ HostCrashes
       PROVE  down' = down
  BY <1>15 DEF HostPosts, HostStartsDrain, HostDrains, RetryCommit, FreshCommit, RejectCommit,
     WriteLands, WriteFails, SaveIsStale, Publish, FlushCache, StartRoom, EndRoom, HostCrashes,
     linkVars
<1>16. UNCHANGED vars => down' = down
  BY DEF vars, linkVars
<1> QED
  BY <1>3, <1>6, <1>8, <1>9, <1>10, <1>11, <1>12, <1>13, <1>14, <1>15, <1>16
  DEF Next, HostNext, HostCommits, GuestNext

\* How the outboxes change: a post files one new operation, a receipt takes
\* one out whose revision is on disk.
OutboxPosts(o) ==
  /\ o \notin posted /\ posted' = posted \union {o}
  /\ outbox' = [outbox EXCEPT ![Author[o]] = Append(@, o)]
  /\ disk' = disk

OutboxForgets(m, o) ==
  /\ posted' = posted /\ outbox' = Forget(m, o)
  /\ disk.ops[o] # 0 /\ disk' = disk

LEMMA OutboxStep ==
  ASSUME TypeOK, StoreInv, AnnouncedIsDurable, [Next]_vars
  PROVE  \/ UNCHANGED <<posted, outbox>>
         \/ \E o \in Ops : OutboxPosts(o)
         \/ \E m \in Members, o \in Ops : OutboxForgets(m, o)
<1>0. Host \in Members /\ Guests \subseteq Members
  BY DEF Members
<1>1. ASSUME NEW o \in Ops, HostPosts(o) \/ \E g \in Guests : GuestPosts(g, o)
      PROVE  OutboxPosts(o)
  BY <1>1 DEF HostPosts, GuestPosts, OutboxPosts, storeVars
<1>2. CASE Publish
  <2>1. task.op \in Ops
    BY <1>2, TaskBody DEF Publish, TypeOK
  <2>2. disk.ops[task.op] = task.next.ops[task.op] /\ task.next.ops[task.op] # 0
    BY <1>2 DEF Publish, StoreInv, SavedIsDurable, CacheKeepsAll
  <2>3. /\ posted' = posted /\ disk' = disk
        /\ outbox' = outbox \/ outbox' = Forget(Host, task.op)
    BY <1>2 DEF Publish
  <2> QED
    BY <1>0, <2>1, <2>2, <2>3 DEF OutboxForgets
<1>3. ASSUME NEW g \in Guests, GuestHears(g)
      PROVE  UNCHANGED <<posted, outbox>> \/ \E m \in Members, o \in Ops : OutboxForgets(m, o)
  <2> DEFINE msg == Head(down[g])
  <2>1. msg \in Downs /\ msg.t \in {"commit", "ack"}
    BY <1>3, FirstDown DEF GuestHears, TypeOK
  <2>2. msg.op \in Ops
    BY <2>1, OpBody
  <2>3. down[g] \in Seq(Downs) /\ down[g] # <<>>
    BY <1>3 DEF GuestHears, Delivered, TypeOK, LinkTypes
  <2>4. 1 \in DOMAIN down[g] /\ msg = down[g][1]
    BY <2>3
  <2>5. disk.ops[msg.op] # 0
    BY <2>1, <2>4 DEF AnnouncedIsDurable
  <2>6. /\ posted' = posted /\ disk' = disk
        /\ outbox' = outbox \/ outbox' = Forget(g, msg.op)
    BY <1>3 DEF GuestHears, storeVars
  <2> QED
    BY <1>0, <2>2, <2>5, <2>6 DEF OutboxForgets
<1>4. ASSUME \/ HostStartsDrain \/ HostDrains \/ RetryCommit \/ FreshCommit \/ RejectCommit
             \/ WriteLands \/ WriteFails \/ SaveIsStale \/ SendCommit \/ SendCopy \/ FlushCache
             \/ StartRoom \/ OpenReview \/ CloseReview \/ OpenOther \/ EndRoom \/ HostCrashes
      PROVE  UNCHANGED <<posted, outbox>>
  BY <1>4 DEF HostStartsDrain, HostDrains, RetryCommit, FreshCommit, RejectCommit, WriteLands,
     WriteFails, SaveIsStale, SendCommit, SendCopy, FlushCache, StartRoom, OpenReview,
     CloseReview, OpenOther, LeaveReview, EndRoom, HostCrashes, memberVars
<1>5. ASSUME NEW g \in Guests,
             \/ HostReceives(g) \/ HostGreets(g) \/ GreetingSent(g)
             \/ GuestStartsDrain(g) \/ GuestDrains(g) \/ GuestDrainFails(g) \/ GuestJoins(g)
             \/ LinkBreaks(g) \/ GuestGoesOff(g) \/ GuestCrashes(g) \/ GuestAdopts(g)
             \/ GuestClears(g) \/ GuestAdoptsOther(g) \/ GuestHearsCopy(g)
      PROVE  UNCHANGED <<posted, outbox>>
  BY <1>5 DEF HostReceives, HostGreets, GreetingSent, GuestStartsDrain, GuestDrains,
     GuestDrainFails, GuestJoins, LinkBreaks, GuestGoesOff, GuestCrashes, GuestAdopts,
     GuestClears, GuestAdoptsOther, GuestHearsCopy, memberVars
<1>6. UNCHANGED vars => UNCHANGED <<posted, outbox>>
  BY DEF vars, memberVars
<1> QED
  BY <1>1, <1>2, <1>3, <1>4, <1>5, <1>6 DEF Next, HostNext, HostCommits, GuestNext

LEMMA NoNoteLostStep ==
  ASSUME TypeOK, StoreInv, AnnouncedIsDurable, NoNoteLost, [Next]_vars
  PROVE  NoNoteLost'
<1>1. \A o \in Ops : disk.ops[o] # 0 => disk'.ops[o] # 0
  BY DiskGrows DEF StoreInv, Keeps
<1>2. outbox \in [Members -> Seq(Ops)] /\ posted \subseteq Ops /\ Author \in [Ops -> Members]
  BY ConstantsAssumption DEF TypeOK, MemberTypes
<1>3. CASE UNCHANGED <<posted, outbox>>
  BY <1>1, <1>2, <1>3 DEF NoNoteLost
<1>4. ASSUME NEW p \in Ops, OutboxPosts(p) PROVE NoNoteLost'
  <2>1. ToSet(Append(outbox[Author[p]], p)) = ToSet(outbox[Author[p]]) \union {p}
    BY <1>2, SetOfAppend
  <2>2. \A m \in Members : ToSet(outbox[m]) \subseteq ToSet(outbox'[m])
    BY <1>2, <1>4, <2>1 DEF OutboxPosts
  <2>3. p \in ToSet(outbox'[Author[p]])
    BY <1>2, <1>4, <2>1 DEF OutboxPosts
  <2>4. posted' = posted \union {p}
    BY <1>4 DEF OutboxPosts
  <2> QED
    BY <1>1, <1>2, <2>2, <2>3, <2>4 DEF NoNoteLost
<1>5. ASSUME NEW m \in Members, NEW p \in Ops, OutboxForgets(m, p) PROVE NoNoteLost'
  <2>1. \A k \in Members : ToSet(outbox[k]) \ {p} \subseteq ToSet(outbox'[k])
    BY <1>2, <1>5, ForgetTakesOne DEF OutboxForgets
  <2>2. posted' = posted /\ disk'.ops[p] # 0
    BY <1>1, <1>5 DEF OutboxForgets
  <2> QED
    BY <1>1, <1>2, <2>1, <2>2 DEF NoNoteLost
<1> QED
  BY <1>3, <1>4, <1>5, OutboxStep

-----------------------------------------------------------------------------
(* The invariant *)

LEMMA InitDurable == Init => DurableInv
<1> SUFFICES ASSUME Init PROVE DurableInv
  OBVIOUS
<1>1. /\ cache = Stored /\ disk = Stored /\ doc = NoDoc /\ task = Idle /\ tail = <<>>
      /\ posted = {o \in Ops : Inherited[o] # 0}
      /\ drain = [m \in Members |-> <<>>]
      /\ up = [g \in Guests |-> <<>>] /\ down = [g \in Guests |-> <<>>]
  BY DEF Init
<1>2. Stored.ops = Inherited /\ Stored.rev = InheritedRev
  BY DEF Stored
<1>3. CacheKeepsAll
  BY <1>1, NoDocKeeps DEF CacheKeepsAll, Keeps, Idle
<1>4. CountersAhead
  BY <1>1, <1>2, ConstantsAssumption DEF CountersAhead
<1>5. OneRevisionEach
  BY <1>1, <1>2, ConstantsAssumption DEF OneRevisionEach
<1>6. SavedIsDurable
  BY <1>1 DEF SavedIsDurable, Idle
<1>7. OnlyPosted
  <2>1. \A m \in Members : outbox[m] \in {<<>>} \union {<<o>> : o \in posted}
    BY DEF Init
  <2>2. \A o \in posted : ToSet(<<o>>) = {o}
    BY DEF ToSet
  <2>3. MembersPosted
    BY <1>1, <2>1, <2>2, SetOfEmpty DEF MembersPosted
  <2>4. TailPosted /\ UpPosted
    BY <1>1 DEF TailPosted, UpPosted
  <2>5. CachePosted
    BY <1>1, <1>2 DEF CachePosted
  <2> QED
    BY <2>3, <2>4, <2>5 DEF OnlyPosted
<1>8. AnnouncedIsDurable /\ NoNoteLost
  BY <1>1, <1>2 DEF AnnouncedIsDurable, NoNoteLost
<1> QED
  BY <1>3, <1>4, <1>5, <1>6, <1>7, <1>8 DEF DurableInv

LEMMA NextDurable ==
  ASSUME TypeOK, TypeOK', DurableInv, [Next]_vars
  PROVE  DurableInv'
<1>1. StoreInv /\ OnlyPosted /\ AnnouncedIsDurable /\ NoNoteLost
  BY DEF DurableInv, StoreInv
<1>2. StoreInv'
  BY <1>1, StoreStep
<1>3. OnlyPosted'
  BY <1>1, MembersPostedStep, TailPostedStep, UpPostedStep, CachePostedStep DEF OnlyPosted
<1>4. AnnouncedIsDurable'
  BY <1>1, AnnouncedStep
<1>5. NoNoteLost'
  BY <1>1, NoNoteLostStep
<1> QED
  BY <1>2, <1>3, <1>4, <1>5 DEF DurableInv, StoreInv

\* The inductive invariant behind every promise below holds in every state.
THEOREM Durable == Spec => []DurableInv
<1>1. TypeOK /\ TypeOK' /\ DurableInv /\ [Next]_vars => DurableInv'
  BY NextDurable
<1> QED
  BY <1>1, InitDurable, TypeCorrect, PTL DEF Spec

\* A posted note is in its author's outbox until the host's review file has
\* it: crashes, refused writes, broken links and new rooms lose no note.
THEOREM NothingIsLost == Spec => []NoNoteLost
<1>1. DurableInv => NoNoteLost
  BY DEF DurableInv
<1> QED
  BY <1>1, Durable, PTL

\* No acknowledgement or commit is on its way to a guest before the review
\* file has that operation under that revision.
THEOREM NothingIsAnnouncedEarly == Spec => []AnnouncedIsDurable
<1>1. DurableInv => AnnouncedIsDurable
  BY DEF DurableInv
<1> QED
  BY <1>1, Durable, PTL

-----------------------------------------------------------------------------
(* The ledger *)

LEMMA LedgerInit ==
  ASSUME TypeOK, DurableInv
  PROVE  Ledger!Init
<1>1. posted \subseteq Ops /\ disk.ops \in [Ops -> Nat]
  BY DEF TypeOK, MemberTypes, StoreTypes, Docs, Revisions
<1>2. Ledger!OneEach(disk.ops)
  BY DEF DurableInv, CacheKeepsAll, Keeps, OneRevisionEach, Ledger!OneEach
<1>3. {o \in posted : o \notin ToSet(outbox[Author[o]])} \subseteq Ledger!Recorded
  BY <1>1 DEF DurableInv, NoNoteLost, Ledger!Recorded
<1> QED
  BY <1>1, <1>2, <1>3 DEF Ledger!Init

LEMMA LedgerStep ==
  ASSUME TypeOK, TypeOK', DurableInv, DurableInv', [Next]_vars
  PROVE  [Ledger!Next]_(Ledger!ledger)
<1> DEFINE settled == {o \in posted : o \notin ToSet(outbox[Author[o]])}
<1>0. /\ outbox \in [Members -> Seq(Ops)] /\ posted \subseteq Ops
      /\ Author \in [Ops -> Members] /\ disk.ops \in [Ops -> Nat] /\ disk'.ops \in [Ops -> Nat]
      /\ cache.ops \in [Ops -> Nat]
  BY ConstantsAssumption DEF TypeOK, MemberTypes, StoreTypes, Docs, Revisions
<1>1. StoreInv /\ AnnouncedIsDurable /\ CachePosted
  BY DEF DurableInv, StoreInv, OnlyPosted
<1>2. CASE UNCHANGED <<posted, outbox>>
  <2>1. CASE disk' = disk
    BY <1>2, <2>1 DEF Ledger!ledger
  <2>2. CASE disk' = cache
    <3>1. Ledger!OneEach(disk'.ops)
      BY <2>2, <1>1 DEF StoreInv, OneRevisionEach, Ledger!OneEach
    <3>2. \A o \in Ledger!Recorded : disk'.ops[o] = disk.ops[o]
      BY <2>2, <1>1 DEF StoreInv, CacheKeepsAll, Keeps, Ledger!Recorded
    <3>3. \A o \in Ops \ Ledger!Recorded : disk'.ops[o] # 0 =>
            o \in posted /\ \A p \in Ledger!Recorded : disk.ops[p] < disk'.ops[o]
      BY <2>2, <1>1 DEF StoreInv, OneRevisionEach, CachePosted, Ledger!Recorded
    <3>4. posted' = posted /\ settled' = settled
      BY <1>2
    <3> QED
      BY <1>0, <3>1, <3>2, <3>3, <3>4 DEF Ledger!Record, Ledger!Next
  <2> QED
    BY <2>1, <2>2, DiskStep
<1>3. ASSUME NEW p \in Ops, OutboxPosts(p) PROVE Ledger!Post(p)
  <2>1. ToSet(Append(outbox[Author[p]], p)) = ToSet(outbox[Author[p]]) \union {p}
    BY <1>0, SetOfAppend
  <2>2. \A o \in Ops : ToSet(outbox'[Author[o]]) =
          IF Author[o] = Author[p] THEN ToSet(outbox[Author[o]]) \union {p} ELSE ToSet(outbox[Author[o]])
    BY <1>0, <1>3, <2>1 DEF OutboxPosts
  <2>3. p \notin posted /\ posted' = posted \union {p} /\ disk' = disk
    BY <1>3 DEF OutboxPosts
  <2>4. settled' = settled
    BY <1>0, <2>2, <2>3
  <2> QED
    BY <2>3, <2>4 DEF Ledger!Post
<1>4. ASSUME NEW m \in Members, NEW p \in Ops, OutboxForgets(m, p)
      PROVE  [Ledger!Next]_(Ledger!ledger)
  <2>1. /\ \A k \in Members : ToSet(outbox'[k]) \subseteq ToSet(outbox[k])
        /\ \A k \in Members : ToSet(outbox[k]) \ {p} \subseteq ToSet(outbox'[k])
    BY <1>0, <1>4, ForgetTakesOne DEF OutboxForgets
  <2>2. posted' = posted /\ disk' = disk /\ disk.ops[p] # 0
    BY <1>4 DEF OutboxForgets
  <2>3. p \in posted
    BY <1>1, <2>2 DEF StoreInv, CacheKeepsAll, Keeps, CachePosted
  <2>4. settled' = settled \/ settled' = settled \union {p}
    BY <1>0, <2>1, <2>2, <2>3
  <2>5. CASE settled' = settled
    BY <2>2, <2>5 DEF Ledger!ledger
  <2>6. CASE settled' = settled \union {p}
    <3>1. Ledger!Settle(p)
      BY <2>2, <2>3, <2>6 DEF Ledger!Settle
    <3> QED
      BY <3>1 DEF Ledger!Next
  <2> QED
    BY <2>4, <2>5, <2>6
<1> QED
  BY <1>1, <1>2, <1>3, <1>4, OutboxStep DEF Ledger!Next

\* The delivery implements the ledger: each note gets one durable revision of
\* its own, later ones are higher, none changes, and only a note that has one
\* is forgotten by its author.
THEOREM DeliveryImplementsLedger == Spec => RefinesLedger
<1>1. Init => Ledger!Init
  BY InitType, InitDurable, LedgerInit
<1>2. TypeOK /\ TypeOK' /\ DurableInv /\ DurableInv' /\ [Next]_vars => [Ledger!Next]_(Ledger!ledger)
  BY LedgerStep
<1> QED
  BY <1>1, <1>2, TypeCorrect, Durable, PTL DEF Spec, RefinesLedger, Ledger!Spec
=============================================================================
