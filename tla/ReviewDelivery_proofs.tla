----------------------- MODULE ReviewDelivery_proofs -----------------------
EXTENDS ReviewDelivery, SequenceTheorems, TLAPS

-----------------------------------------------------------------------------
(* What the helpers return *)

LEMMA MergeType ==
  ASSUME NEW x \in Docs, NEW y \in Docs
  PROVE  Merge(x, y) \in Docs
BY DEF Merge, Docs, Revisions, Higher

LEMMA LoadedType == RoomTypes /\ StoreTypes => Loaded \in Docs
BY MergeType DEF Loaded, RoomTypes, StoreTypes

LEMMA NoDocType == NoDoc \in Docs
BY DEF NoDoc, NoOps, Docs, Revisions

LEMMA CommittedType ==
  ASSUME NEW d \in Docs, NEW i \in Intents
  PROVE  Committed(d, i) \in Docs
BY DEF Committed, Docs, Revisions, Intents

LEMMA RunningType ==
  ASSUME NEW i \in Intents, NEW d \in Docs
  PROVE  Running(i, d) \in Commits
BY DEF Running, Intents, Commits

LEMMA RemoveAtType ==
  ASSUME NEW S, NEW s \in Seq(S), NEW i \in 1..Len(s)
  PROVE  RemoveAt(s, i) \in Seq(S)
<1>1. SubSeq(s, 1, i - 1) \in Seq(S)
  BY SubSeqProperties
<1>2. SubSeq(s, i + 1, Len(s)) \in Seq(S)
  BY SubSeqProperties
<1> QED
  BY <1>1, <1>2, ConcatProperties DEF RemoveAt

LEMMA ForgetType ==
  ASSUME NEW m \in Members, NEW o \in Ops, outbox \in [Members -> Seq(Ops)]
  PROVE  Forget(m, o) \in [Members -> Seq(Ops)]
<1>1. CASE o \in ToSet(outbox[m])
  <2> DEFINE i == CHOOSE i \in DOMAIN outbox[m] : outbox[m][i] = o
  <2>1. i \in 1..Len(outbox[m])
    BY <1>1 DEF ToSet
  <2>2. RemoveAt(outbox[m], i) \in Seq(Ops)
    BY <2>1, RemoveAtType
  <2> QED BY <1>1, <2>2 DEF Forget
<1>2. CASE o \notin ToSet(outbox[m])
  BY <1>2 DEF Forget
<1> QED BY <1>1, <1>2

LEMMA HeadTailType ==
  ASSUME NEW S, NEW s \in Seq(S), s # <<>>
  PROVE  Head(s) \in S /\ Tail(s) \in Seq(S)
OBVIOUS

LEMMA AppendType ==
  ASSUME NEW S, NEW s \in Seq(S), NEW x \in S
  PROVE  Append(s, x) \in Seq(S)
OBVIOUS

LEMMA BroadcastType ==
  ASSUME LinkTypes, NEW msg \in Downs, Broadcast(msg)
  PROVE  down' \in [Guests -> Seq(Downs)]
BY AppendType DEF Broadcast, LinkTypes

LEMMA DocMessageType ==
  ASSUME NEW d \in Docs
  PROVE  [t |-> "doc", doc |-> d] \in Downs
BY DEF Downs, Snapshots

LEMMA FirstDown ==
  ASSUME LinkTypes, NEW g \in Guests, NEW K, Delivered(g, K)
  PROVE  /\ Head(down[g]) \in Downs
         /\ Head(down[g]).t \in K
         /\ down' \in [Guests -> Seq(Downs)]
BY HeadTailType DEF Delivered, LinkTypes

LEMMA DocBody ==
  ASSUME NEW m \in Downs, m.t = "doc"
  PROVE  m.doc \in Docs
BY DEF Downs, Snapshots, Receipts, Copies, Switches

LEMMA OpBody ==
  ASSUME NEW m \in Downs, m.t \in {"commit", "ack", "copy"}
  PROVE  m.op \in Ops
BY DEF Downs, Snapshots, Receipts, Copies, Switches

LEMMA ReceiptBody ==
  ASSUME NEW m \in Downs, m.t \in {"commit", "ack"}
  PROVE  m.op \in Ops /\ m.sid \in Nat /\ m.rev \in Nat
BY DEF Downs, Snapshots, Receipts, Copies, Switches

LEMMA TaskBody ==
  ASSUME CommitTypes, task.stage # "idle"
  PROVE  /\ task \in Commits
         /\ task.op \in Ops /\ task.sid \in Nat /\ task.next \in Docs
BY DEF CommitTypes, Commits, Idle

LEMMA AnnouncementType ==
  ASSUME CommitTypes, task.stage # "idle"
  PROVE  Announcement \in Downs
<1>1. task.next.ops[task.op] \in Nat
  BY TaskBody DEF Docs, Revisions
<1> QED
  BY <1>1, TaskBody DEF Announcement, Downs, Receipts

LEMMA GuestDrainBeginsType ==
  ASSUME MemberTypes, LinkTypes, NEW g \in Guests, sid' \in [Guests -> Nat],
         GuestDrainBegins(g)
  PROVE  up' \in [Guests -> Seq(Submits)] /\ drain' \in [Members -> Seq(Ops)]
<1>1. CASE drain[g] = <<>> /\ outbox[g] # <<>> /\ link[g] # "none" /\ Len(up[g]) < MaxPipe
  <2>1. Head(outbox[g]) \in Ops /\ Tail(outbox[g]) \in Seq(Ops)
    BY <1>1, HeadTailType DEF MemberTypes, Members
  <2>2. [op |-> Head(outbox[g]), sid |-> sid'[g]] \in Submits
    BY <2>1 DEF Submits
  <2>3. Append(up[g], [op |-> Head(outbox[g]), sid |-> sid'[g]]) \in Seq(Submits)
    BY <2>2, AppendType DEF LinkTypes
  <2>5. up' \in [Guests -> Seq(Submits)]
    BY <1>1, <2>3 DEF GuestDrainBegins, LinkTypes
  <2>4. drain' \in [Members -> Seq(Ops)]
    BY <1>1, <2>1 DEF GuestDrainBegins, MemberTypes
  <2> QED
    BY <2>5, <2>4
<1>2. CASE ~(drain[g] = <<>> /\ outbox[g] # <<>> /\ link[g] # "none" /\ Len(up[g]) < MaxPipe)
  BY <1>2 DEF GuestDrainBegins, MemberTypes, LinkTypes
<1> QED
  BY <1>1, <1>2

LEMMA HostDrainBeginsType ==
  ASSUME MemberTypes, CommitTypes, room \in Nat, HostDrainBegins
  PROVE  tail' \in Seq(Intents) /\ drain' \in [Members -> Seq(Ops)]
<1> DEFINE Begins == ~HostDrainBusy /\ drain[Host] = <<>> /\ outbox[Host] # <<>> /\ Len(tail) < MaxPipe
<1>1. CASE Begins
  <2>1. Head(outbox[Host]) \in Ops /\ Tail(outbox[Host]) \in Seq(Ops)
    BY <1>1, HeadTailType DEF MemberTypes, Members
  <2>2. Intent(Head(outbox[Host]), room, TRUE) \in Intents
    BY <2>1 DEF Intent, Intents
  <2>3. tail' \in Seq(Intents)
    BY <1>1, <2>2, AppendType DEF HostDrainBegins, CommitTypes
  <2>4. drain' \in [Members -> Seq(Ops)]
    BY <1>1, <2>1 DEF HostDrainBegins, MemberTypes
  <2> QED
    BY <2>3, <2>4
<1>2. CASE ~Begins
  BY <1>2 DEF HostDrainBegins, MemberTypes, CommitTypes
<1> QED
  BY <1>1, <1>2

-----------------------------------------------------------------------------
(* Each action keeps the types *)

LEMMA HostPostsType ==
  ASSUME TypeOK, NEW o \in Ops, HostPosts(o)
  PROVE  TypeOK'
<1>1. MemberTypes'
  BY ConstantsAssumption, AppendType DEF TypeOK, HostPosts, MemberTypes, Members
<1>2. StoreTypes'
  BY MergeType DEF TypeOK, HostPosts, StoreTypes, RoomTypes
<1>3. CommitTypes'
  BY AppendType DEF TypeOK, HostPosts, CommitTypes, Intents, Intent, RoomTypes
<1> QED
  BY <1>1, <1>2, <1>3 DEF TypeOK, HostPosts, RoomTypes, roomVars, LinkTypes, linkVars, GuestTypes, guestVars

LEMMA GuestPostsType ==
  ASSUME TypeOK, NEW g \in Guests, NEW o \in Ops, GuestPosts(g, o)
  PROVE  TypeOK'
<1>1. MemberTypes'
  BY AppendType DEF TypeOK, GuestPosts, MemberTypes, Members
<1>2. LinkTypes'
  BY AppendType DEF TypeOK, GuestPosts, LinkTypes, GuestSends, Submits, GuestTypes
<1>3. GuestTypes'
  BY DEF TypeOK, GuestPosts, GuestTypes
<1> QED
  BY <1>1, <1>2, <1>3 DEF TypeOK, GuestPosts, RoomTypes, roomVars, StoreTypes, storeVars, CommitTypes, commitVars

LEMMA GuestStartsDrainType ==
  ASSUME TypeOK, NEW g \in Guests, GuestStartsDrain(g)
  PROVE  TypeOK'
<1>1. MemberTypes'
  BY GuestDrainBeginsType DEF TypeOK, GuestStartsDrain, MemberTypes, GuestTypes, guestVars
<1>2. LinkTypes'
  BY GuestDrainBeginsType DEF TypeOK, GuestStartsDrain, LinkTypes, GuestTypes, guestVars
<1> QED
  BY <1>1, <1>2 DEF TypeOK, GuestStartsDrain, RoomTypes, roomVars, StoreTypes, storeVars, CommitTypes, commitVars, GuestTypes, guestVars

LEMMA GuestDrainsType ==
  ASSUME TypeOK, NEW g \in Guests, GuestDrains(g)
  PROVE  TypeOK'
<1>1. MemberTypes'
  BY HeadTailType DEF TypeOK, GuestDrains, MemberTypes, Members
<1>2. LinkTypes'
  BY AppendType, HeadTailType DEF TypeOK, GuestDrains, LinkTypes, GuestSends, Members, MemberTypes, Submits, GuestTypes
<1> QED
  BY <1>1, <1>2 DEF TypeOK, GuestDrains, RoomTypes, roomVars, StoreTypes, storeVars, CommitTypes, commitVars, GuestTypes, guestVars

LEMMA GuestDrainFailsType ==
  ASSUME TypeOK, NEW g \in Guests, GuestDrainFails(g)
  PROVE  TypeOK'
<1>1. MemberTypes'
  BY DEF TypeOK, GuestDrainFails, MemberTypes, Members
<1> QED
  BY <1>1 DEF TypeOK, GuestDrainFails, RoomTypes, roomVars, StoreTypes, storeVars, CommitTypes, commitVars, LinkTypes, linkVars, GuestTypes, guestVars

LEMMA HostStartsDrainType ==
  ASSUME TypeOK, HostStartsDrain
  PROVE  TypeOK'
<1>1. MemberTypes'
  BY HostDrainBeginsType DEF TypeOK, HostStartsDrain, MemberTypes, RoomTypes
<1>2. CommitTypes'
  BY HostDrainBeginsType DEF TypeOK, HostStartsDrain, CommitTypes, RoomTypes
<1> QED
  BY <1>1, <1>2 DEF TypeOK, HostStartsDrain, RoomTypes, roomVars, StoreTypes, storeVars, LinkTypes, linkVars, GuestTypes, guestVars

LEMMA HostDrainsType ==
  ASSUME TypeOK, HostDrains
  PROVE  TypeOK'
<1>1. MemberTypes'
  BY HeadTailType DEF TypeOK, HostDrains, MemberTypes, Members
<1>2. CommitTypes'
  BY AppendType, HeadTailType DEF TypeOK, HostDrains, CommitTypes, Members, MemberTypes, RoomTypes, Intent, Intents
<1> QED
  BY <1>1, <1>2 DEF TypeOK, HostDrains, RoomTypes, roomVars, StoreTypes, storeVars, LinkTypes, linkVars, GuestTypes, guestVars

LEMMA HostReceivesType ==
  ASSUME TypeOK, NEW g \in Guests, HostReceives(g)
  PROVE  TypeOK'
<1>1. Head(up[g]) \in Submits /\ Tail(up[g]) \in Seq(Submits)
  BY HeadTailType DEF TypeOK, HostReceives, LinkTypes
<1>2. Intent(Head(up[g]).op, Head(up[g]).sid, FALSE) \in Intents
  BY <1>1 DEF Submits, Intent, Intents
<1>3. CommitTypes'
  BY <1>2, AppendType DEF TypeOK, HostReceives, CommitTypes
<1>4. LinkTypes'
  BY <1>1 DEF TypeOK, HostReceives, LinkTypes
<1> QED
  BY <1>3, <1>4 DEF TypeOK, HostReceives, MemberTypes, memberVars, RoomTypes, roomVars, StoreTypes, storeVars, GuestTypes, guestVars

LEMMA RetryCommitType ==
  ASSUME TypeOK, RetryCommit
  PROVE  TypeOK'
<1>1. StoreTypes'
  BY LoadedType DEF TypeOK, RetryCommit, StoreTypes, RoomTypes
<1>2. CommitTypes'
  BY LoadedType, HeadTailType, RunningType DEF TypeOK, RetryCommit, CommitTypes, RoomTypes
<1> QED
  BY <1>1, <1>2 DEF TypeOK, RetryCommit, MemberTypes, memberVars, RoomTypes, roomVars, LinkTypes, linkVars, GuestTypes, guestVars

LEMMA FreshCommitType ==
  ASSUME TypeOK, FreshCommit
  PROVE  TypeOK'
<1>1. StoreTypes'
  BY LoadedType, HeadTailType, CommittedType DEF TypeOK, FreshCommit, StoreTypes, RoomTypes, CommitTypes
<1>2. CommitTypes'
  BY LoadedType, HeadTailType, RunningType, CommittedType DEF TypeOK, FreshCommit, CommitTypes, RoomTypes
<1> QED
  BY <1>1, <1>2 DEF TypeOK, FreshCommit, MemberTypes, memberVars, RoomTypes, roomVars, LinkTypes, linkVars, GuestTypes, guestVars

LEMMA RejectCommitType ==
  ASSUME TypeOK, RejectCommit
  PROVE  TypeOK'
<1>1. MemberTypes'
  BY DEF TypeOK, RejectCommit, MemberTypes, CommitFails, Members
<1>2. CommitTypes'
  BY HeadTailType DEF TypeOK, RejectCommit, CommitTypes
<1> QED
  BY <1>1, <1>2 DEF TypeOK, RejectCommit, RoomTypes, roomVars, StoreTypes, storeVars, LinkTypes, linkVars, GuestTypes, guestVars

LEMMA WriteLandsType ==
  ASSUME TypeOK, WriteLands
  PROVE  TypeOK'
<1>1. StoreTypes'
  BY DEF TypeOK, WriteLands, StoreTypes
<1>2. CommitTypes'
  BY DEF TypeOK, WriteLands, CommitTypes, Idle, Commits
<1> QED
  BY <1>1, <1>2 DEF TypeOK, WriteLands, MemberTypes, memberVars, RoomTypes, roomVars, LinkTypes, linkVars, GuestTypes, guestVars

LEMMA WriteFailsType ==
  ASSUME TypeOK, WriteFails
  PROVE  TypeOK'
<1>1. MemberTypes'
  BY DEF TypeOK, WriteFails, MemberTypes, CommitFails, Members
<1>2. StoreTypes'
  BY DEF TypeOK, WriteFails, StoreTypes
<1>3. CommitTypes'
  BY DEF TypeOK, WriteFails, CommitTypes
<1> QED
  BY <1>1, <1>2, <1>3 DEF TypeOK, WriteFails, RoomTypes, roomVars, LinkTypes, linkVars, GuestTypes, guestVars

LEMMA SaveIsStaleType ==
  ASSUME TypeOK, SaveIsStale
  PROVE  TypeOK'
<1>1. MemberTypes'
  BY DEF TypeOK, SaveIsStale, MemberTypes, CommitFails, Members
<1>2. CommitTypes'
  BY DEF TypeOK, SaveIsStale, CommitTypes
<1> QED
  BY <1>1, <1>2 DEF TypeOK, SaveIsStale, RoomTypes, roomVars, StoreTypes, storeVars, LinkTypes, linkVars, GuestTypes, guestVars

LEMMA PublishType ==
  ASSUME TypeOK, Publish
  PROVE  TypeOK'
<1>1. task \in Commits /\ task.op \in Ops /\ task.next \in Docs
  BY TaskBody DEF TypeOK, Publish
<1>2. MemberTypes'
  <2>1. Forget(Host, task.op) \in [Members -> Seq(Ops)]
    BY <1>1, ForgetType DEF TypeOK, MemberTypes, Members
  <2> QED
    BY <2>1 DEF TypeOK, Publish, MemberTypes
<1>3. RoomTypes'
  BY <1>1 DEF TypeOK, Publish, RoomTypes
<1>4. StoreTypes'
  <2>1. Merge(cache, task.next) \in Docs
    BY <1>1, MergeType DEF TypeOK, StoreTypes
  <2> QED
    BY <2>1 DEF TypeOK, Publish, StoreTypes
<1>5. CommitTypes'
  BY <1>1 DEF TypeOK, Publish, CommitTypes, Commits
<1> QED
  BY <1>2, <1>3, <1>4, <1>5 DEF TypeOK, Publish, LinkTypes, linkVars, GuestTypes, guestVars

LEMMA SendCommitType ==
  ASSUME TypeOK, SendCommit
  PROVE  TypeOK'
<1>1. task \in Commits /\ Announcement \in Downs
  BY TaskBody, AnnouncementType DEF TypeOK, SendCommit
<1>2. CommitTypes'
  BY <1>1 DEF TypeOK, SendCommit, CommitTypes, Commits
<1>3. LinkTypes'
  <2>1. down' \in [Guests -> Seq(Downs)]
    BY <1>1, BroadcastType DEF TypeOK, SendCommit
  <2> QED
    BY <2>1 DEF TypeOK, SendCommit, LinkTypes
<1> QED
  BY <1>2, <1>3 DEF TypeOK, SendCommit, MemberTypes, memberVars, RoomTypes, roomVars, StoreTypes, storeVars, GuestTypes, guestVars

LEMMA SendCopyType ==
  ASSUME TypeOK, SendCopy
  PROVE  TypeOK'
<1>1. CommitTypes'
  BY DEF TypeOK, SendCopy, CommitTypes
<1>2. LinkTypes'
  BY BroadcastType, TaskBody DEF TypeOK, SendCopy, LinkTypes, Downs, Copies
<1> QED
  BY <1>1, <1>2 DEF TypeOK, SendCopy, MemberTypes, memberVars, RoomTypes, roomVars, StoreTypes, storeVars, GuestTypes, guestVars

LEMMA FlushCacheType ==
  ASSUME TypeOK, FlushCache
  PROVE  TypeOK'
<1>1. StoreTypes'
  BY DEF TypeOK, FlushCache, StoreTypes
<1> QED
  BY <1>1 DEF TypeOK, FlushCache, MemberTypes, memberVars, RoomTypes, roomVars, CommitTypes, commitVars, LinkTypes, linkVars, GuestTypes, guestVars

LEMMA StartRoomType ==
  ASSUME TypeOK, StartRoom
  PROVE  TypeOK'
<1>1. RoomTypes'
  BY DEF TypeOK, StartRoom, RoomTypes
<1> QED
  BY <1>1 DEF TypeOK, StartRoom, MemberTypes, memberVars, StoreTypes, storeVars, CommitTypes, commitVars, LinkTypes, linkVars, GuestTypes, guestVars

LEMMA OpenReviewType ==
  ASSUME TypeOK, OpenReview
  PROVE  TypeOK'
<1>1. MemberTypes'
  BY HostDrainBeginsType DEF TypeOK, OpenReview, MemberTypes, RoomTypes
<1>2. RoomTypes'
  BY DEF TypeOK, OpenReview, RoomTypes, StoreTypes, Docs
<1>3. StoreTypes'
  BY DEF TypeOK, OpenReview, StoreTypes, RoomTypes, Docs
<1>4. CommitTypes'
  BY HostDrainBeginsType DEF TypeOK, OpenReview, CommitTypes, RoomTypes
<1>5. LinkTypes'
  BY BroadcastType, DocMessageType DEF TypeOK, OpenReview, LinkTypes, StoreTypes, RoomTypes, Docs
<1> QED
  BY <1>1, <1>2, <1>3, <1>4, <1>5 DEF TypeOK, OpenReview, GuestTypes, guestVars

LEMMA LeaveReviewType ==
  ASSUME TypeOK, NEW switch \in {"cleared", "other"}, LeaveReview(switch)
  PROVE  TypeOK'
<1>1. RoomTypes'
  BY NoDocType DEF TypeOK, LeaveReview, RoomTypes
<1>2. StoreTypes'
  BY LoadedType DEF TypeOK, LeaveReview, StoreTypes, RoomTypes
<1>3. LinkTypes'
  BY BroadcastType DEF TypeOK, LeaveReview, LinkTypes, Downs, Switches
<1> QED
  BY <1>1, <1>2, <1>3 DEF TypeOK, LeaveReview, MemberTypes, memberVars, CommitTypes, commitVars, GuestTypes, guestVars

LEMMA EndRoomType ==
  ASSUME TypeOK, EndRoom
  PROVE  TypeOK'
<1>1. MemberTypes'
  BY DEF TypeOK, EndRoom, MemberTypes, Members
<1>2. RoomTypes'
  BY NoDocType DEF TypeOK, EndRoom, RoomTypes
<1>3. StoreTypes'
  BY LoadedType DEF TypeOK, EndRoom, StoreTypes, RoomTypes
<1>4. LinkTypes'
  BY NoDocType DEF TypeOK, EndRoom, LinkTypes, NoLinks
<1> QED
  BY <1>1, <1>2, <1>3, <1>4 DEF TypeOK, EndRoom, CommitTypes, commitVars, GuestTypes, guestVars

LEMMA HostCrashesType ==
  ASSUME TypeOK, HostCrashes
  PROVE  TypeOK'
<1>1. MemberTypes'
  BY DEF TypeOK, HostCrashes, MemberTypes, Members
<1>2. RoomTypes'
  BY NoDocType DEF TypeOK, HostCrashes, RoomTypes
<1>3. StoreTypes'
  BY DEF TypeOK, HostCrashes, StoreTypes
<1>4. CommitTypes'
  BY DEF TypeOK, HostCrashes, CommitTypes
<1>5. LinkTypes'
  BY NoDocType DEF TypeOK, HostCrashes, LinkTypes, NoLinks
<1> QED
  BY <1>1, <1>2, <1>3, <1>4, <1>5 DEF TypeOK, HostCrashes, GuestTypes, guestVars

LEMMA GuestJoinsType ==
  ASSUME TypeOK, NEW g \in Guests, GuestJoins(g)
  PROVE  TypeOK'
<1>1. LinkTypes'
  BY DEF TypeOK, GuestJoins, LinkTypes
<1>2. GuestTypes'
  BY DEF TypeOK, GuestJoins, GuestTypes
<1> QED
  BY <1>1, <1>2 DEF TypeOK, GuestJoins, MemberTypes, memberVars, RoomTypes, roomVars, StoreTypes, storeVars, CommitTypes, commitVars

LEMMA HostGreetsType ==
  ASSUME TypeOK, NEW g \in Guests, HostGreets(g)
  PROVE  TypeOK'
<1>1. LinkTypes'
  BY DEF TypeOK, HostGreets, LinkTypes, RoomTypes
<1> QED
  BY <1>1 DEF TypeOK, HostGreets, MemberTypes, memberVars, RoomTypes, roomVars, StoreTypes, storeVars, CommitTypes, commitVars, GuestTypes, guestVars

LEMMA GreetingSentType ==
  ASSUME TypeOK, NEW g \in Guests, GreetingSent(g)
  PROVE  TypeOK'
<1>1. LinkTypes'
  BY NoDocType, AppendType, DocMessageType DEF TypeOK, GreetingSent, LinkTypes
<1> QED
  BY <1>1 DEF TypeOK, GreetingSent, MemberTypes, memberVars, RoomTypes, roomVars, StoreTypes, storeVars, CommitTypes, commitVars, GuestTypes, guestVars

LEMMA LinkBreaksType ==
  ASSUME TypeOK, NEW g \in Guests, LinkBreaks(g)
  PROVE  TypeOK'
<1>1. LinkTypes'
  BY NoDocType DEF TypeOK, LinkBreaks, LinkTypes, CutLink
<1> QED
  BY <1>1 DEF TypeOK, LinkBreaks, MemberTypes, memberVars, RoomTypes, roomVars, StoreTypes, storeVars, CommitTypes, commitVars, GuestTypes, guestVars

LEMMA GuestGoesOffType ==
  ASSUME TypeOK, NEW g \in Guests, GuestGoesOff(g)
  PROVE  TypeOK'
<1>1. MemberTypes'
  BY DEF TypeOK, GuestGoesOff, MemberTypes, GuestResets, Members
<1>2. LinkTypes'
  BY DEF TypeOK, GuestGoesOff, LinkTypes, GuestResets
<1>3. GuestTypes'
  BY DEF TypeOK, GuestGoesOff, GuestTypes, GuestResets
<1> QED
  BY <1>1, <1>2, <1>3 DEF TypeOK, GuestGoesOff, RoomTypes, roomVars, StoreTypes, storeVars, CommitTypes, commitVars

LEMMA GuestCrashesType ==
  ASSUME TypeOK, NEW g \in Guests, GuestCrashes(g)
  PROVE  TypeOK'
<1>1. MemberTypes'
  BY DEF TypeOK, GuestCrashes, MemberTypes, GuestResets, Members
<1>2. LinkTypes'
  BY NoDocType DEF TypeOK, GuestCrashes, LinkTypes, GuestResets, CutLink
<1>3. GuestTypes'
  BY DEF TypeOK, GuestCrashes, GuestTypes, GuestResets, Revisions, NoOps
<1> QED
  BY <1>1, <1>2, <1>3 DEF TypeOK, GuestCrashes, RoomTypes, roomVars, StoreTypes, storeVars, CommitTypes, commitVars

LEMMA GuestAdoptsType ==
  ASSUME TypeOK, NEW g \in Guests, GuestAdopts(g)
  PROVE  TypeOK'
<1> DEFINE incoming == Head(down[g]).doc
<1>1. incoming \in Docs /\ down' \in [Guests -> Seq(Downs)]
  <2>1. Head(down[g]) \in Downs /\ Head(down[g]).t \in {"doc"} /\ down' \in [Guests -> Seq(Downs)]
    BY FirstDown DEF TypeOK, GuestAdopts
  <2> QED
    BY <2>1, DocBody
<1>2. GuestTypes'
  <2>1. sid' \in [Guests -> Nat] /\ known' \in [Guests -> Revisions]
    BY <1>1 DEF TypeOK, GuestAdopts, GuestTypes, Docs, Revisions
  <2>2. ToSet(outbox[g]) \subseteq Ops /\ CommittedIn(incoming) \subseteq Ops
    BY DEF TypeOK, MemberTypes, Members, ToSet, CommittedIn
  <2>3. seen' \in [Guests -> SUBSET Ops]
    BY <2>2 DEF TypeOK, GuestAdopts, GuestTypes
  <2> QED
    BY <2>1, <2>3 DEF TypeOK, GuestAdopts, GuestTypes
<1>3. up' \in [Guests -> Seq(Submits)] /\ drain' \in [Members -> Seq(Ops)]
  BY <1>2, GuestDrainBeginsType DEF TypeOK, GuestAdopts, GuestTypes
<1>4. MemberTypes' /\ LinkTypes'
  BY <1>1, <1>3 DEF TypeOK, GuestAdopts, MemberTypes, LinkTypes
<1> QED
  BY <1>2, <1>4 DEF TypeOK, GuestAdopts, RoomTypes, roomVars, StoreTypes, storeVars, CommitTypes, commitVars

LEMMA GuestClearsType ==
  ASSUME TypeOK, NEW g \in Guests, GuestClears(g)
  PROVE  TypeOK'
<1>1. LinkTypes'
  BY FirstDown DEF TypeOK, GuestClears, LinkTypes
<1>2. GuestTypes'
  BY DEF TypeOK, GuestClears, GuestTypes
<1> QED
  BY <1>1, <1>2 DEF TypeOK, GuestClears, MemberTypes, memberVars, RoomTypes, roomVars, StoreTypes, storeVars, CommitTypes, commitVars

LEMMA GuestAdoptsOtherType ==
  ASSUME TypeOK, NEW g \in Guests, GuestAdoptsOther(g)
  PROVE  TypeOK'
<1>1. LinkTypes'
  BY FirstDown DEF TypeOK, GuestAdoptsOther, LinkTypes
<1>2. GuestTypes'
  BY DEF TypeOK, GuestAdoptsOther, GuestTypes
<1> QED
  BY <1>1, <1>2 DEF TypeOK, GuestAdoptsOther, MemberTypes, memberVars, RoomTypes, roomVars, StoreTypes, storeVars, CommitTypes, commitVars

LEMMA GuestHearsType ==
  ASSUME TypeOK, NEW g \in Guests, GuestHears(g)
  PROVE  TypeOK'
<1> DEFINE m == Head(down[g])
<1>1. m.op \in Ops /\ m.rev \in Nat /\ down' \in [Guests -> Seq(Downs)]
  <2>1. m \in Downs /\ m.t \in {"commit", "ack"} /\ down' \in [Guests -> Seq(Downs)]
    BY FirstDown DEF TypeOK, GuestHears
  <2> QED
    BY <2>1, ReceiptBody
<1>2. Forget(g, m.op) \in [Members -> Seq(Ops)]
  BY <1>1, ForgetType DEF TypeOK, MemberTypes, Members
<1>3. MemberTypes' /\ LinkTypes'
  BY <1>1, <1>2 DEF TypeOK, GuestHears, MemberTypes, LinkTypes
<1>4. GuestTypes'
  <2>1. known' \in [Guests -> Revisions]
    <3>1. \/ known' = known
          \/ known' = [known EXCEPT ![g] = [known[g] EXCEPT ![m.op] = m.rev]]
      BY DEF TypeOK, GuestHears, GuestTypes
    <3>2. [known[g] EXCEPT ![m.op] = m.rev] \in Revisions
      BY <1>1 DEF TypeOK, GuestTypes, Revisions
    <3> QED
      BY <3>1, <3>2 DEF TypeOK, GuestTypes
  <2>2. seen' \in [Guests -> SUBSET Ops]
    <3>1. seen' = seen \/ seen' = [seen EXCEPT ![g] = seen[g] \union {m.op}]
      BY DEF TypeOK, GuestHears, GuestTypes
    <3>2. seen[g] \union {m.op} \in SUBSET Ops
      BY <1>1 DEF TypeOK, GuestTypes
    <3> QED
      BY <3>1, <3>2 DEF TypeOK, GuestTypes
  <2> QED
    BY <2>1, <2>2 DEF TypeOK, GuestHears, GuestTypes
<1> QED
  BY <1>3, <1>4 DEF TypeOK, GuestHears, RoomTypes, roomVars, StoreTypes, storeVars, CommitTypes, commitVars

LEMMA GuestHearsCopyType ==
  ASSUME TypeOK, NEW g \in Guests, GuestHearsCopy(g)
  PROVE  TypeOK'
<1>1. Head(down[g]).op \in Ops /\ down' \in [Guests -> Seq(Downs)]
  <2>1. Head(down[g]) \in Downs /\ Head(down[g]).t \in {"copy"} /\ down' \in [Guests -> Seq(Downs)]
    BY FirstDown DEF TypeOK, GuestHearsCopy
  <2> QED
    BY <2>1, OpBody
<1>2. LinkTypes' /\ GuestTypes'
  BY <1>1 DEF TypeOK, GuestHearsCopy, LinkTypes, GuestTypes
<1> QED
  BY <1>2 DEF TypeOK, GuestHearsCopy, MemberTypes, memberVars, RoomTypes, roomVars, StoreTypes, storeVars, CommitTypes, commitVars

-----------------------------------------------------------------------------
(* Type correctness *)

LEMMA InitType == Init => TypeOK
<1> SUFFICES ASSUME Init PROVE TypeOK
  OBVIOUS
<1>1. MemberTypes
  <2>1. {<<>>} \union {<<o>> : o \in posted} \subseteq Seq(Ops)
    <3>1. posted \subseteq Ops /\ <<>> \in Seq(Ops)
      BY DEF Init
    <3>2. \A o \in Ops : <<o>> \in Seq(Ops)
      OBVIOUS
    <3> QED
      BY <3>1, <3>2
  <2> QED
    BY <2>1 DEF Init, MemberTypes
<1>2. Stored \in Docs
  BY ConstantsAssumption DEF Stored, Docs, Revisions
<1>3. RoomTypes /\ StoreTypes /\ CommitTypes
  <2>1. RoomTypes
    BY NoDocType DEF Init, RoomTypes
  <2>2. StoreTypes
    BY <1>2 DEF Init, StoreTypes
  <2>3. CommitTypes
    BY DEF Init, CommitTypes
  <2> QED
    BY <2>1, <2>2, <2>3
<1>5. LinkTypes
  BY NoDocType DEF Init, LinkTypes
<1>4. GuestTypes
  BY DEF Init, GuestTypes, Revisions, NoOps
<1> QED
  BY <1>1, <1>3, <1>4, <1>5 DEF TypeOK

LEMMA NextType == TypeOK /\ [Next]_vars => TypeOK'
<1> SUFFICES ASSUME TypeOK, [Next]_vars PROVE TypeOK'
  OBVIOUS
<1>1. CASE HostNext
  BY <1>1, HostPostsType, HostStartsDrainType, HostDrainsType, HostReceivesType,
     HostGreetsType, GreetingSentType, RetryCommitType, FreshCommitType, RejectCommitType,
     WriteLandsType, WriteFailsType, SaveIsStaleType, PublishType, SendCommitType,
     SendCopyType, FlushCacheType, StartRoomType, OpenReviewType, LeaveReviewType,
     EndRoomType, HostCrashesType
  DEF HostNext, HostCommits, CloseReview, OpenOther
<1>2. CASE \E g \in Guests : GuestNext(g)
  BY <1>2, GuestPostsType, GuestStartsDrainType, GuestDrainsType, GuestDrainFailsType,
     GuestJoinsType, LinkBreaksType, GuestGoesOffType, GuestCrashesType, GuestAdoptsType,
     GuestClearsType, GuestAdoptsOtherType, GuestHearsType, GuestHearsCopyType
  DEF GuestNext
<1>3. CASE UNCHANGED vars
  BY <1>3 DEF vars, memberVars, roomVars, storeVars, commitVars, linkVars, guestVars, TypeOK,
     MemberTypes, RoomTypes, StoreTypes, CommitTypes, LinkTypes, GuestTypes
<1> QED
  BY <1>1, <1>2, <1>3 DEF Next

\* The review-delivery state stays well-formed: a document is a document, a
\* queued commit names an operation and a room, a message is one the relay sends.
THEOREM TypeCorrect == Spec => []TypeOK
BY InitType, NextType, PTL DEF Spec
=============================================================================
