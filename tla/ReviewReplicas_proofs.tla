----------------------- MODULE ReviewReplicas_proofs ------------------------
(***************************************************************************)
(* What every machine's copy of the review keeps, for any number of        *)
(* machines, comments, posts and connections lost.                         *)
(*                                                                         *)
(* A document shows no comment that it knows to be deleted (SoundDoc).     *)
(* Every operation, merge and commit leaves a sound document sound, so it  *)
(* only has to be said of whatever carries one: the screens, the files and *)
(* the snapshots on their way (Copies, Deliveries).  A commit is applied   *)
(* to what is on screen, so a guest must have something there whenever one *)
(* reaches it: it shows a document, or a snapshot is ahead of everything   *)
(* else that is on its way to it (Seated).                                 *)
(*                                                                         *)
(* What the documents say is compared with a story: the documents that the *)
(* host's commits make, one after the other, of the first one, with        *)
(* nothing else done to them.  Whoever has heard k commits has the k-th    *)
(* document of the story but for its own operations that are still without *)
(* an answer (Near), and the commits it has not heard are on their way to  *)
(* it without a gap (Fed).  That is said of the host and of every guest    *)
(* that stayed and whose clock is not ahead (StoryInv).                    *)
(*                                                                         *)
(* A guest that comes back does its operations again on the host's         *)
(* snapshot, with its own time, so it may hide what the story shows.  But  *)
(* it shows no more than the story does, except what is pending or was     *)
(* added late: doing again what the host has committed brings nothing back *)
(* (ReturnInv).                                                            *)
(*                                                                         *)
(* A file with nothing open says what a document of the story says, the    *)
(* one of when the guest left, and what comes later replaces it: shows,    *)
(* changes or deletes what it shows (Since, FileInv).                      *)
(***************************************************************************)
EXTENDS ReviewReplicas, FiniteSetTheorems, WellFoundedInduction, TLAPS

SoundDoc(d) == \A i \in Shown(d) : ~Buried(d.gone, i, d.notes[i])
SoundDocs == {d \in Docs : SoundDoc(d)}
SoundDowns ==
  [t : {"commit"}, id : OpIds, commit : Commits] \union [t : {"doc"}, doc : SoundDocs]

USE ReplicasAssumption

(* Least elements, and what is built step by step. *)

LEMMA LeastOf ==
  ASSUME NEW T, T \subseteq Nat, T # {}
  PROVE  \E n \in T : \A k \in T : n <= k
<1> DEFINE R == {ss \in Nat \X Nat : ss[1] < ss[2]}
<1>1. PICK n \in T : \A k \in T : ~(<<k, n>> \in R)
  <2>1. IsWellFoundedOn(R, Nat)
    BY NatLessThanWellFounded, Zenon DEF OpToRel
  <2> HIDE DEF R
  <2> QED BY <2>1, WFMin, Zenon
<1>2. ASSUME NEW k \in T PROVE n <= k
  <2>1. k \in Nat /\ n \in Nat /\ <<k, n>> \notin R
    BY <1>1
  <2> QED BY <2>1
<1> QED BY <1>2

\* A row of values that starts in a set and does not leave it at a step.
LEMMA StaysIn ==
  ASSUME NEW S, NEW n \in Nat, NEW f, f[0] \in S,
         \A k \in 1 .. n : f[k - 1] \in S => f[k] \in S
  PROVE  \A k \in 0 .. n : f[k] \in S
<1> DEFINE T == {k \in 0 .. n : f[k] \notin S}
<1> SUFFICES ASSUME T # {} PROVE FALSE
  OBVIOUS
<1>1. PICK k \in T : \A j \in T : k <= j
  <2>1. T \subseteq Nat
    OBVIOUS
  <2> HIDE DEF T
  <2> QED BY <2>1, LeastOf
<1>2. k \in 1 .. n /\ k - 1 \in 0 .. n /\ ~(k <= k - 1)
  BY <1>1
<1>3. k - 1 \notin T
  <2> HIDE DEF T
  <2> QED BY <1>1, <1>2
<1>4. f[k - 1] \in S /\ f[k] \notin S
  BY <1>1, <1>2, <1>3
<1> QED BY <1>2, <1>4

LEMMA StaysFrom ==
  ASSUME NEW S, NEW n \in Nat, NEW j \in 1 .. n, NEW f, f[j] \in S,
         \A k \in 1 .. n : f[k - 1] \in S => f[k] \in S
  PROVE  f[n] \in S
<1> DEFINE g == [k \in 0 .. (n - j) |-> f[j + k]]
<1>1. n - j \in Nat /\ n - j \in 0 .. (n - j)
  OBVIOUS
<1>2. g[0] \in S
  BY <1>1
<1>3. ASSUME NEW k \in 1 .. (n - j), g[k - 1] \in S PROVE g[k] \in S
  <2>1. g[k] = f[j + k] /\ g[k - 1] = f[(j + k) - 1] /\ j + k \in 1 .. n
    BY <1>1
  <2> HIDE DEF g
  <2> QED BY <1>3, <2>1
<1>4. g[n - j] \in S
  <2> HIDE DEF g
  <2>1. \A k \in 0 .. (n - j) : g[k] \in S
    BY <1>1, <1>2, <1>3, StaysIn
  <2> QED BY <1>1, <2>1
<1>5. g[n - j] = f[n]
  BY <1>1
<1> QED BY <1>4, <1>5

\* f is what a recursion over 1 .. n with the step G defines.
Built(f, S, base, n, G) ==
  f \in [0 .. n -> S] /\ f[0] = base /\ \A k \in 1 .. n : f[k] = G[<<f[k - 1], k>>]

\* There is such an f.
LEMMA Builds ==
  ASSUME NEW S, NEW base \in S, NEW n \in Nat, NEW G \in [S \X (1 .. n) -> S]
  PROVE  \E f : Built(f, S, base, n, G)
<1> DEFINE Good(m) == \E f : Built(f, S, base, m, G)
           T == {m \in 0 .. n : ~Good(m)}
<1> SUFFICES T = {}
  <2>1. n \in 0 .. n
    OBVIOUS
  <2>2. T = {} => Good(n)
    <3> HIDE DEF Good
    <3> QED BY <2>1
  <2> QED BY <2>2
<1> HIDE DEF Good
<1> SUFFICES ASSUME T # {} PROVE FALSE
  OBVIOUS
<1>1. PICK m \in T : \A j \in T : m <= j
  <2>1. T \subseteq Nat
    OBVIOUS
  <2> HIDE DEF T
  <2> QED BY <2>1, LeastOf
<1>2. m \in 0 .. n /\ ~Good(m)
  BY <1>1
<1>3. m # 0
  <2> SUFFICES Good(0)
    BY <1>2
  <2>1. Built([k \in 0 .. 0 |-> base], S, base, 0, G)
    BY DEF Built
  <2> QED BY <2>1 DEF Good
<1>4. Good(m - 1)
  <2>1. m - 1 \in 0 .. n /\ ~(m <= m - 1)
    BY <1>2, <1>3
  <2>2. m - 1 \notin T
    <3> HIDE DEF T
    <3> QED BY <1>1, <2>1
  <2> QED BY <2>1, <2>2
<1>5. PICK f : f \in [0 .. m - 1 -> S] /\ f[0] = base /\ \A k \in 1 .. m - 1 : f[k] = G[<<f[k - 1], k>>]
  BY <1>4 DEF Good, Built
<1> DEFINE g == [k \in 0 .. m |-> IF k = m THEN G[<<f[m - 1], m>>] ELSE f[k]]
<1>6. m \in 1 .. n /\ m - 1 \in 0 .. m - 1 /\ f[m - 1] \in S /\ G[<<f[m - 1], m>>] \in S
  BY <1>2, <1>3, <1>5
<1>7. g \in [0 .. m -> S]
  <2>1. \A k \in 0 .. m : k # m => k \in 0 .. m - 1
    BY <1>6
  <2> QED BY <1>5, <1>6, <2>1
<1>8. g[0] = base
  BY <1>3, <1>5, <1>6
<1>9. ASSUME NEW k \in 1 .. m PROVE g[k] = G[<<g[k - 1], k>>]
  <2>1. g[k - 1] = f[k - 1]
    BY <1>6
  <2>2. CASE k = m
    <3>1. g[k] = G[<<f[m - 1], m>>]
      BY <1>6, <2>2
    <3> HIDE DEF g
    <3> QED BY <2>1, <2>2, <3>1
  <2>3. CASE k # m
    <3>1. k \in 1 .. m - 1 /\ g[k] = f[k]
      BY <1>6, <2>3
    <3> QED BY <1>5, <2>1, <3>1
  <2> QED BY <2>2, <2>3
<1>10. Good(m)
  <2> HIDE DEF g
  <2>1. Built(g, S, base, m, G)
    BY <1>7, <1>8, <1>9 DEF Built
  <2> QED BY <2>1 DEF Good
<1> QED BY <1>2, <1>10

(* The document's operations. *)

LEMMA Highers ==
  ASSUME NEW m \in Nat, NEW n \in Nat
  PROVE  Higher(m, n) \in Nat /\ Higher(m, n) >= m /\ Higher(m, n) >= n
BY DEF Higher

\* The tombstones of a document are times, and a later one hides no less.
LEMMA Gone ==
  ASSUME NEW gone \in [Ids -> Nat], NEW i \in Ids
  PROVE  GoneAt(gone, i) \in Nat
<1>1. Parent[i] # None => gone[Parent[i]] \in Nat
  OBVIOUS
<1> QED BY <1>1, Highers DEF GoneAt

LEMMA DocIs ==
  ASSUME NEW d \in Docs
  PROVE  /\ d.notes \in [Ids -> Notes \union {None}] /\ d.gone \in [Ids -> Nat]
         /\ d.clock \in Nat /\ d.rev \in Nat /\ d.ops \in SUBSET OpIds
         /\ \A i \in Shown(d) : i \in Ids /\ d.notes[i] \in Notes
BY DEF Docs, Shown

LEMMA NoteIs ==
  ASSUME NEW note \in Notes
  PROVE  /\ note.body \in Bodies /\ note.resolved \in BOOLEAN /\ note.at \in Nat
         /\ note.back \in Nat /\ note.rev \in Nat /\ note.fans \in SUBSET Replicas
         /\ note.heard \in [Replicas -> {None} \union [on : BOOLEAN, at : Nat]]
BY DEF Notes

\* A comment that is not hidden may be shown, in place of what was there.
LEMMA Shows ==
  ASSUME NEW d \in SoundDocs, NEW i \in Ids, NEW note \in Notes, ~Buried(d.gone, i, note)
  PROVE  [d EXCEPT !.notes[i] = note] \in SoundDocs
<1> DEFINE e == [d EXCEPT !.notes[i] = note]
<1>1. d \in Docs /\ SoundDoc(d)
  BY DEF SoundDocs
<1>2. e \in Docs /\ e.gone = d.gone
  BY <1>1 DEF Docs
<1>3. \A j \in Ids : e.notes[j] = IF j = i THEN note ELSE d.notes[j]
  BY <1>1 DEF Docs
<1> HIDE DEF e
<1>4. SoundDoc(e)
  BY <1>1, <1>2, <1>3 DEF SoundDoc, Shown
<1> QED BY <1>2, <1>4 DEF SoundDocs, e

\* A comment that keeps its restoration stays as visible as it was.
LEMMA Alters ==
  ASSUME NEW d \in SoundDocs, NEW i \in Shown(d), NEW note \in Notes,
         note.back = d.notes[i].back
  PROVE  [d EXCEPT !.notes[i] = note] \in SoundDocs
<1>1. i \in Ids /\ ~Buried(d.gone, i, d.notes[i])
  BY DEF SoundDocs, SoundDoc, Shown
<1>2. ~Buried(d.gone, i, note)
  BY <1>1 DEF Buried
<1> QED BY <1>1, <1>2, Shows

LEMMA Hides ==
  ASSUME NEW d \in SoundDocs, NEW i \in Ids
  PROVE  [d EXCEPT !.notes[i] = None] \in SoundDocs
<1> DEFINE e == [d EXCEPT !.notes[i] = None]
<1>1. d \in Docs /\ SoundDoc(d)
  BY DEF SoundDocs
<1>2. e \in Docs /\ e.gone = d.gone
  BY <1>1 DEF Docs
<1>3. \A j \in Ids : e.notes[j] = IF j = i THEN None ELSE d.notes[j]
  BY <1>1 DEF Docs
<1> HIDE DEF e
<1>4. SoundDoc(e)
  BY <1>1, <1>2, <1>3 DEF SoundDoc, Shown
<1> QED BY <1>2, <1>4 DEF SoundDocs, e

LEMMA InsertIsSound ==
  ASSUME NEW d \in SoundDocs, NEW i \in Ids, NEW note \in Notes
  PROVE  Insert(d, i, note) \in SoundDocs
BY Shows DEF Insert

LEMMA EditIsSound ==
  ASSUME NEW d \in SoundDocs, NEW i \in Ids, NEW body \in Bodies, NEW time \in Nat
  PROVE  Edit(d, i, body, time) \in SoundDocs
<1> DEFINE note == [d.notes[i] EXCEPT !.body = body, !.at = time]
<1>1. CASE Edit(d, i, body, time) = d
  BY <1>1
<1>2. CASE i \in Shown(d) /\ Edit(d, i, body, time) = [d EXCEPT !.notes[i] = note]
  <2>1. d.notes[i] \in Notes
    BY <1>2, DocIs DEF SoundDocs
  <2>2. note \in Notes /\ note.back = d.notes[i].back
    BY <2>1 DEF Notes
  <2> HIDE DEF note
  <2> QED BY <1>2, <2>2, Alters
<1> QED BY <1>1, <1>2 DEF Edit

LEMMA ResolveIsSound ==
  ASSUME NEW d \in SoundDocs, NEW i \in Ids, NEW on \in BOOLEAN, NEW time \in Nat
  PROVE  Resolve(d, i, on, time) \in SoundDocs
<1> DEFINE note == [d.notes[i] EXCEPT !.resolved = on, !.at = time]
<1>1. CASE Resolve(d, i, on, time) = d
  BY <1>1
<1>2. CASE i \in Shown(d) /\ Resolve(d, i, on, time) = [d EXCEPT !.notes[i] = note]
  <2>1. d.notes[i] \in Notes
    BY <1>2, DocIs DEF SoundDocs
  <2>2. note \in Notes /\ note.back = d.notes[i].back
    BY <2>1 DEF Notes
  <2> HIDE DEF note
  <2> QED BY <1>2, <2>2, Alters
<1> QED BY <1>1, <1>2 DEF Resolve

LEMMA LikeIsSound ==
  ASSUME NEW d \in SoundDocs, NEW i \in Ids, NEW who \in Replicas, NEW on \in BOOLEAN, NEW time \in Nat
  PROVE  Like(d, i, who, on, time) \in SoundDocs
<1> DEFINE note == LikeNote(d.notes[i], who, on, time)
<1>1. CASE i \notin Shown(d)
  BY <1>1 DEF Like
<1>2. CASE i \in Shown(d)
  <2>1. d.notes[i] \in Notes
    BY <1>2, DocIs DEF SoundDocs
  <2>2. note \in Notes /\ note.back = d.notes[i].back
    <3> DEFINE old == d.notes[i]
               fans == IF on THEN old.fans \union {who} ELSE old.fans \ {who}
               heard == [old.heard EXCEPT ![who] = IF @ = None \/ time >= @.at
                                                     THEN [on |-> on, at |-> time] ELSE @]
    <3>1. fans \in SUBSET Replicas
      BY <2>1, NoteIs
    <3>2. heard \in [Replicas -> {None} \union [on : BOOLEAN, at : Nat]]
      BY <2>1, NoteIs
    <3>3. note = old \/ note = [old EXCEPT !.fans = fans, !.heard = heard]
      BY <2>1, Zenon DEF LikeNote
    <3> HIDE DEF fans, heard, note
    <3>4. [old EXCEPT !.fans = fans, !.heard = heard] \in Notes
      BY <2>1, <3>1, <3>2 DEF Notes
    <3>5. [old EXCEPT !.fans = fans, !.heard = heard].back = old.back
      BY <2>1 DEF Notes
    <3> QED BY <2>1, <3>3, <3>4, <3>5
  <2>3. Like(d, i, who, on, time) = [d EXCEPT !.notes[i] = note]
    BY <1>2 DEF Like, SoundDocs, Docs
  <2> QED BY <1>2, <2>2, <2>3, Alters
<1> QED BY <1>1, <1>2

\* A deletion hides the whole thread, and nothing else.
LEMMA DeleteIsSound ==
  ASSUME NEW d \in SoundDocs, NEW i \in Ids, NEW time \in Nat
  PROVE  Delete(d, i, time) \in SoundDocs
<1> DEFINE gone == [j \in Ids |-> IF j \in Thread(d, i) THEN Higher(d.gone[j], time) ELSE d.gone[j]]
           notes == [j \in Ids |-> IF (j = i \/ Parent[j] = i) /\ j \in Shown(d)
                                        /\ Buried(gone, j, d.notes[j])
                                     THEN None ELSE d.notes[j]]
           e == Delete(d, i, time)
<1>1. d \in Docs /\ SoundDoc(d)
  BY DEF SoundDocs
<1>2. gone \in [Ids -> Nat]
  <2>1. \A j \in Ids : d.gone[j] \in Nat /\ Higher(d.gone[j], time) \in Nat
    BY <1>1, DocIs, Highers
  <2> QED BY <2>1
<1>3. notes \in [Ids -> Notes \union {None}]
  BY <1>1, DocIs
<1>4. e = [d EXCEPT !.gone = gone, !.notes = notes]
  BY DEF Delete
<1>5. \A j \in Ids : notes[j] # None =>
        /\ notes[j] = d.notes[j] /\ j \in Shown(d)
        /\ ~((j = i \/ Parent[j] = i) /\ Buried(gone, j, d.notes[j]))
  BY DEF Shown
<1>6. \A j \in Ids : j \notin Thread(d, i) => gone[j] = d.gone[j]
  OBVIOUS
<1> HIDE DEF gone, notes, e
<1>7. e \in Docs /\ e.gone = gone /\ e.notes = notes
  BY <1>1, <1>2, <1>3, <1>4 DEF Docs
<1>8. ASSUME NEW j \in Ids, notes[j] # None PROVE ~Buried(gone, j, notes[j])
  <2>1. notes[j] = d.notes[j] /\ j \in Shown(d) /\ ~Buried(d.gone, j, d.notes[j])
    BY <1>1, <1>5, <1>8 DEF SoundDoc
  <2>2. CASE j = i \/ Parent[j] = i
    BY <1>5, <1>8, <2>1, <2>2
  <2>3. CASE ~(j = i \/ Parent[j] = i)
    <3>1. gone[j] = d.gone[j]
      BY <1>6, <2>3 DEF Thread
    <3>2. Parent[j] # None => gone[Parent[j]] = d.gone[Parent[j]]
      <4> SUFFICES ASSUME Parent[j] # None PROVE gone[Parent[j]] = d.gone[Parent[j]]
        OBVIOUS
      <4>1. Parent[j] \in Ids /\ Parent[Parent[j]] = None /\ Parent[Parent[j]] # i
        OBVIOUS
      <4> QED BY <1>6, <2>3, <4>1 DEF Thread
    <3> QED BY <2>1, <3>1, <3>2 DEF Buried, GoneAt
  <2> QED BY <2>2, <2>3
<1>9. SoundDoc(e)
  BY <1>7, <1>8 DEF SoundDoc, Shown
<1> QED BY <1>7, <1>9 DEF SoundDocs, e

\* What an operation is, by its kind.
LEMMA OpIs ==
  ASSUME NEW op \in OpTypes
  PROVE  /\ op.t \in {"add", "edit", "resolve", "like", "del"} /\ op.id \in Ids /\ op.at \in Nat
         /\ op.t = "add" => op \in [t : {"add"}, id : Ids, note : Notes, at : Nat] /\ op.note \in Notes
         /\ op.t = "edit" => op \in [t : {"edit"}, id : Ids, body : Bodies, at : Nat] /\ op.body \in Bodies
         /\ op.t = "resolve" => op \in [t : {"resolve"}, id : Ids, on : BOOLEAN, at : Nat] /\ op.on \in BOOLEAN
         /\ op.t = "like" => /\ op \in [t : {"like"}, id : Ids, who : Replicas, on : BOOLEAN, at : Nat]
                             /\ op.who \in Replicas /\ op.on \in BOOLEAN
         /\ op.t = "del" => op \in [t : {"del"}, id : Ids, at : Nat]
BY DEF OpTypes

LEMMA ApplyIsSound ==
  ASSUME NEW d \in SoundDocs, NEW op \in OpTypes, NEW t \in Nat
  PROVE  Apply(d, op, t) \in SoundDocs
<1>1. Stamp(op, t) \in Nat
  BY OpIs DEF Stamp
<1>2. CASE op.t = "add"
  <2>1. Apply(d, op, t) = Insert(d, op.id, op.note)
    BY <1>2 DEF Apply
  <2> QED BY <1>2, <2>1, OpIs, InsertIsSound
<1>3. CASE op.t = "edit"
  <2>1. Apply(d, op, t) = Edit(d, op.id, op.body, op.at)
    BY <1>3 DEF Apply
  <2> QED BY <1>3, <2>1, OpIs, EditIsSound
<1>4. CASE op.t = "resolve"
  <2>1. Apply(d, op, t) = Resolve(d, op.id, op.on, op.at)
    BY <1>4 DEF Apply
  <2> QED BY <1>4, <2>1, OpIs, ResolveIsSound
<1>5. CASE op.t = "like"
  <2>1. Apply(d, op, t) = Like(d, op.id, op.who, op.on, Stamp(op, t))
    BY <1>5 DEF Apply
  <2> QED BY <1>1, <1>5, <2>1, OpIs, LikeIsSound
<1>6. CASE op.t = "del"
  <2>1. Apply(d, op, t) = Delete(d, op.id, Stamp(op, t))
    BY <1>6 DEF Apply
  <2> QED BY <1>1, <1>6, <2>1, OpIs, DeleteIsSound
<1> QED BY <1>2, <1>3, <1>4, <1>5, <1>6, OpIs

\* A recursion over a sequence does what it says, at every step.
LEMMA AppliesWithin ==
  ASSUME NEW D, NEW d \in D, NEW S, NEW ops \in Seq(S), NEW t,
         \A e \in D, k \in DOMAIN ops : Apply(e, ops[k], t) \in D
  PROVE  ApplyAll(d, ops, t) \in D
<1> DEFINE n == Len(ops)
           Body(f) == [k \in 0 .. n |-> IF k = 0 THEN d ELSE Apply(f[k - 1], ops[k], t)]
           after == CHOOSE f : f = Body(f)
           G == [p \in D \X (1 .. n) |-> Apply(p[1], ops[p[2]], t)]
<1>1. n \in Nat /\ DOMAIN ops = 1 .. n
  OBVIOUS
<1>2. G \in [D \X (1 .. n) -> D]
  BY <1>1
<1>3. PICK f : f \in [0 .. n -> D] /\ f[0] = d /\ \A k \in 1 .. n : f[k] = G[<<f[k - 1], k>>]
  <2>1. PICK f : Built(f, D, d, n, G)
    <3> HIDE DEF G, n
    <3> QED BY <1>1, <1>2, Builds, Zenon
  <2> HIDE DEF G
  <2> QED BY <2>1 DEF Built
<1>4. f = Body(f)
  <2>1. \A k \in 1 .. n : f[k] = Apply(f[k - 1], ops[k], t)
    <3> SUFFICES ASSUME NEW k \in 1 .. n PROVE f[k] = Apply(f[k - 1], ops[k], t)
      OBVIOUS
    <3>1. f[k - 1] \in D
      BY <1>1, <1>3
    <3>2. G[<<f[k - 1], k>>] = Apply(f[k - 1], ops[k], t)
      BY <3>1
    <3> QED BY <1>3, <3>2
  <2>2. \A k \in 0 .. n : f[k] = IF k = 0 THEN d ELSE Apply(f[k - 1], ops[k], t)
    BY <1>1, <1>3, <2>1
  <2> HIDE DEF n
  <2> QED BY <1>3, <2>2
<1>5. after = Body(after)
  <2> HIDE DEF Body
  <2> QED BY <1>4
<1>6. ApplyAll(d, ops, t) = after[n]
  BY DEF ApplyAll
<1> HIDE DEF after, G
<1>7. after[0] \in D
  BY <1>1, <1>5
<1>8. ASSUME NEW k \in 1 .. n, after[k - 1] \in D PROVE after[k] \in D
  <2>1. after[k] = Apply(after[k - 1], ops[k], t)
    <3>1. k \in 0 .. n /\ k # 0
      BY <1>1
    <3> HIDE DEF n
    <3> QED BY <1>5, <3>1
  <2>2. k \in DOMAIN ops
    BY <1>1
  <2>3. Apply(after[k - 1], ops[k], t) \in D
    BY <1>8, <2>2, Zenon
  <2> QED BY <2>1, <2>3, Zenon
<1>9. \A k \in 0 .. n : after[k] \in D
  <2> HIDE DEF n
  <2> QED BY <1>1, <1>7, <1>8, StaysIn
<1> QED BY <1>1, <1>6, <1>9

LEMMA AppliesInOrder ==
  ASSUME NEW d \in SoundDocs, NEW ops \in Seq(OpTypes), NEW t \in Nat
  PROVE  ApplyAll(d, ops, t) \in SoundDocs
<1>1. \A e \in SoundDocs, k \in DOMAIN ops : Apply(e, ops[k], t) \in SoundDocs
  BY ApplyIsSound
<1> QED BY <1>1, AppliesWithin

LEMMA WithoutSteps ==
  ASSUME NEW S, NEW row \in Seq(S), NEW id
  PROVE  \E rest \in [0 .. Len(row) -> Seq(S)] :
           /\ rest[0] = <<>> /\ Without(row, id) = rest[Len(row)]
           /\ \A k \in 1 .. Len(row) :
                rest[k] = IF row[k].id = id THEN rest[k - 1] ELSE Append(rest[k - 1], row[k])
<1> DEFINE n == Len(row)
           Part == Seq(S)
           Body(f) == [k \in 0 .. n |-> IF k = 0 THEN <<>> ELSE IF row[k].id = id THEN f[k - 1]
                                        ELSE Append(f[k - 1], row[k])]
           rest == CHOOSE f : f = Body(f)
           G == [p \in Part \X (1 .. n) |-> IF row[p[2]].id = id THEN p[1] ELSE Append(p[1], row[p[2]])]
<1>1. n \in Nat /\ (\A k \in 1 .. n : row[k] \in S) /\ <<>> \in Part
  OBVIOUS
<1>2. G \in [Part \X (1 .. n) -> Part]
  BY <1>1
<1>3. PICK f : f \in [0 .. n -> Part] /\ f[0] = <<>> /\ \A k \in 1 .. n : f[k] = G[<<f[k - 1], k>>]
  <2>1. PICK f : Built(f, Part, <<>>, n, G)
    <3> HIDE DEF G, n, Part
    <3> QED BY <1>1, <1>2, Builds, Zenon
  <2> HIDE DEF G, Part
  <2> QED BY <2>1 DEF Built
<1>4. f = Body(f)
  <2>1. \A k \in 1 .. n : f[k] = IF row[k].id = id THEN f[k - 1] ELSE Append(f[k - 1], row[k])
    <3> SUFFICES ASSUME NEW k \in 1 .. n
                 PROVE f[k] = IF row[k].id = id THEN f[k - 1] ELSE Append(f[k - 1], row[k])
      OBVIOUS
    <3>1. f[k - 1] \in Part
      <4> HIDE DEF Part
      <4> QED BY <1>1, <1>3
    <3>2. G[<<f[k - 1], k>>] = IF row[k].id = id THEN f[k - 1] ELSE Append(f[k - 1], row[k])
      BY <3>1
    <3> QED BY <1>3, <3>2
  <2>2. \A k \in 0 .. n : f[k] = IF k = 0 THEN <<>> ELSE IF row[k].id = id THEN f[k - 1]
                                 ELSE Append(f[k - 1], row[k])
    <3>1. \A k \in 0 .. n : k = 0 \/ k \in 1 .. n
      BY <1>1
    <3>2. f[0] = <<>> /\ \A k \in 1 .. n : k # 0
      BY <1>1, <1>3
    <3> HIDE DEF Part, n
    <3> QED BY <2>1, <3>1, <3>2, Zenon
  <2> HIDE DEF n
  <2> QED BY <1>3, <2>2
<1>5. rest = Body(rest)
  <2> HIDE DEF Body
  <2> QED BY <1>4
<1>6. Without(row, id) = rest[n]
  BY DEF Without
<1> HIDE DEF rest, G
<1>7. rest[0] = <<>> /\ \A k \in 1 .. n : rest[k] = IF row[k].id = id THEN rest[k - 1] ELSE Append(rest[k - 1], row[k])
  <2>1. \A k \in 1 .. n : k \in 0 .. n /\ k # 0
    BY <1>1
  <2>2. 0 \in 0 .. n
    BY <1>1
  <2> HIDE DEF Part, n
  <2> QED BY <1>5, <2>1, <2>2
<1>8. ASSUME NEW k \in 1 .. n, rest[k - 1] \in Part PROVE rest[k] \in Part
  <2>1. rest[k] = IF row[k].id = id THEN rest[k - 1] ELSE Append(rest[k - 1], row[k])
    BY <1>7
  <2> QED BY <1>1, <1>8, <2>1
<1>9. \A k \in 0 .. n : rest[k] \in Part
  <2>1. rest[0] \in Part
    BY <1>1, <1>7
  <2> HIDE DEF n, Part
  <2> QED BY <1>1, <1>8, <2>1, StaysIn
<1>10. rest \in [0 .. n -> Part]
  <2>1. rest = [k \in 0 .. n |-> rest[k]]
    <3>1. DOMAIN Body(rest) = 0 .. n /\ Body(rest) = [k \in 0 .. n |-> Body(rest)[k]]
      OBVIOUS
    <3> HIDE DEF Body
    <3> QED BY <1>5, <3>1
  <2> HIDE DEF Part, n
  <2> QED BY <1>9, <2>1
<1> QED BY <1>6, <1>7, <1>10

LEMMA WithoutIsPart ==
  ASSUME NEW S, NEW row \in Seq(S), NEW id
  PROVE  Without(row, id) \in Seq(S)
BY WithoutSteps

Containing(S, y) == {row \in Seq(S) : \E m \in DOMAIN row : row[m] = y}

LEMMA ContainingMore ==
  ASSUME NEW S, NEW row \in Seq(S), NEW x \in S, NEW y
  PROVE  /\ Append(row, x) \in Containing(S, x)
         /\ row \in Containing(S, y) => Append(row, x) \in Containing(S, y)
<1>1. Append(row, x) \in Seq(S) /\ Len(row) + 1 \in DOMAIN Append(row, x) /\ Append(row, x)[Len(row) + 1] = x
      /\ \A m \in DOMAIN row : m \in DOMAIN Append(row, x) /\ Append(row, x)[m] = row[m]
  OBVIOUS
<1> QED BY <1>1 DEF Containing

\* Whatever is left was there before, and only what has the id is gone.
LEMMA WithoutIs ==
  ASSUME NEW S, NEW row \in Seq(S), NEW id, NEW w, w = Without(row, id)
  PROVE  /\ \A m \in DOMAIN w : \E k \in DOMAIN row : w[m] = row[k]
         /\ \A k \in DOMAIN row : row[k].id # id => \E m \in DOMAIN w : w[m] = row[k]
<1>1. ASSUME NEW m \in DOMAIN w PROVE \E k \in DOMAIN row : w[m] = row[k]
  <2> DEFINE R == {row[k] : k \in DOMAIN row}
  <2>1. row \in Seq(R)
    OBVIOUS
  <2> HIDE DEF R
  <2>2. w \in Seq(R)
    BY <2>1, WithoutIsPart
  <2>3. w[m] \in R
    BY <2>2
  <2> QED BY <2>3 DEF R
<1>2. ASSUME NEW j \in DOMAIN row, row[j].id # id PROVE \E m \in DOMAIN w : w[m] = row[j]
  <2>1. PICK n \in Nat : n = Len(row)
    OBVIOUS
  <2>2. j \in 1 .. n /\ \A k \in 1 .. n : row[k] \in S /\ k - 1 \in 0 .. n
    BY <2>1
  <2>3. PICK rest \in [0 .. n -> Seq(S)] :
          /\ w = rest[n]
          /\ \A k \in 1 .. n : rest[k] = IF row[k].id = id THEN rest[k - 1] ELSE Append(rest[k - 1], row[k])
    <3>1. \E rest \in [0 .. Len(row) -> Seq(S)] :
            /\ rest[0] = <<>> /\ Without(row, id) = rest[Len(row)]
            /\ \A k \in 1 .. Len(row) :
                 rest[k] = IF row[k].id = id THEN rest[k - 1] ELSE Append(rest[k - 1], row[k])
      BY WithoutSteps
    <3> QED BY <2>1, <3>1
  <2>4. ASSUME NEW k \in 1 .. n
        PROVE  /\ row[k].id # id => rest[k] \in Containing(S, row[k])
               /\ rest[k - 1] \in Containing(S, row[j]) => rest[k] \in Containing(S, row[j])
    <3>1. rest[k - 1] \in Seq(S) /\ row[k] \in S
      BY <2>2
    <3>2. rest[k] = IF row[k].id = id THEN rest[k - 1] ELSE Append(rest[k - 1], row[k])
      BY <2>3
    <3> QED BY <3>1, <3>2, ContainingMore
  <2>5. rest[j] \in Containing(S, row[j])
    BY <1>2, <2>2, <2>4
  <2>6. rest[n] \in Containing(S, row[j])
    BY <2>2, <2>4, <2>5, StaysFrom
  <2> QED BY <2>3, <2>6 DEF Containing
<1> QED BY <1>1, <1>2

(* The greatest of a finite set of times, and a set as a sequence. *)

LEMMA GreatestOf ==
  ASSUME NEW T, IsFiniteSet(T), T \subseteq Nat, T # {}
  PROVE  Max(T) \in T /\ \A k \in T : Max(T) >= k
<1> DEFINE Top(S) == \E m \in S : \A k \in S : m >= k
           Bad == {c \in Nat : \E S \in SUBSET T : S # {} /\ Cardinality(S) = c /\ ~Top(S)}
<1>1. ASSUME Bad # {} PROVE FALSE
  <2>1. PICK c \in Bad : \A b \in Bad : c <= b
    <3>1. Bad \subseteq Nat
      OBVIOUS
    <3> HIDE DEF Bad
    <3> QED BY <1>1, <3>1, LeastOf
  <2>2. c \in Nat
    BY <2>1
  <2>3. PICK S \in SUBSET T : S # {} /\ Cardinality(S) = c /\ ~Top(S)
    <3> HIDE DEF Top
    <3> QED BY <2>1
  <2>4. PICK x \in S : TRUE
    BY <2>3
  <2>5. x \in Nat /\ S \subseteq Nat
    OBVIOUS
  <2>6. Cardinality(S \ {x}) = c - 1 /\ Cardinality(S \ {x}) \in Nat
    <3>1. IsFiniteSet(S) /\ IsFiniteSet(S \ {x})
      BY FS_Subset, FS_RemoveElement
    <3> QED BY <2>3, <2>4, <3>1, FS_RemoveElement, FS_CardinalityType
  <2>7. S \ {x} # {}
    <3> SUFFICES ASSUME S = {x} PROVE FALSE
      BY <2>4
    <3> QED BY <2>3, <2>5
  <2>8. Top(S \ {x})
    <3>1. c - 1 \notin Bad
      <4>1. ~(c <= c - 1)
        BY <2>2
      <4> HIDE DEF Bad
      <4> QED BY <2>1, <4>1
    <3>2. c - 1 \in Nat /\ S \ {x} \in SUBSET T
      BY <2>6
    <3> HIDE DEF Top
    <3> QED BY <2>6, <2>7, <3>1, <3>2
  <2>9. PICK m \in S \ {x} : \A k \in S \ {x} : m >= k
    BY <2>8
  <2>10. Top(S)
    <3>1. CASE m >= x
      BY <2>9, <3>1
    <3>2. CASE ~(m >= x)
      <4>1. ASSUME NEW k \in S PROVE x >= k
        <5>1. k = x \/ m >= k
          BY <2>9
        <5>2. k \in Nat /\ m \in Nat
          BY <2>5
        <5> QED BY <2>5, <3>2, <5>1, <5>2
      <4> QED BY <4>1
    <3> QED BY <3>1, <3>2
  <2> QED BY <2>3, <2>10
<1>2. Top(T)
  <2>1. Cardinality(T) \in Nat /\ T \in SUBSET T
    BY FS_CardinalityType
  <2> HIDE DEF Top
  <2> QED BY <1>1, <2>1
<1> QED BY <1>2 DEF Max

LEMMA Listed ==
  ASSUME NEW T, IsFiniteSet(T)
  PROVE  SetToSeq(T) \in Seq(T)
<1>1. Cardinality(T) \in Nat /\ ExistsBijection(1 .. Cardinality(T), T)
  BY FS_CardinalityType
<1>2. \E f \in [1 .. Cardinality(T) -> T] : IsInjective(f)
  BY <1>1 DEF ExistsBijection, Bijection, Injection, IsInjective
<1>3. SetToSeq(T) \in [1 .. Cardinality(T) -> T]
  BY <1>2 DEF SetToSeq
<1> QED BY <1>1, <1>3

LEMMA FirstBody == Min(Bodies) \in Bodies
<1>1. PICK n \in Bodies : \A k \in Bodies : n <= k
  BY LeastOf
<1> QED BY <1>1 DEF Min

(* Merges. *)

LEMMA MergedNote ==
  ASSUME NEW incoming \in Notes, NEW local \in Notes
  PROVE  MergeNote(incoming, local) \in Notes
<1> DEFINE newer == \/ local.rev > incoming.rev
                    \/ local.rev = incoming.rev /\ local.back > incoming.back
                    \/ local.rev = incoming.rev /\ local.back = incoming.back
                         /\ local.at > incoming.at
           heard == [r \in Replicas |-> Newer(incoming.heard[r], local.heard[r])]
           fans == {r \in Replicas : IF heard[r] = None THEN r \in incoming.fans \union local.fans
                                                        ELSE heard[r].on}
           winner == IF newer THEN local ELSE incoming
<1>1. heard \in [Replicas -> {None} \union [on : BOOLEAN, at : Nat]]
  <2>1. \A r \in Replicas : /\ incoming.heard[r] \in {None} \union [on : BOOLEAN, at : Nat]
                            /\ local.heard[r] \in {None} \union [on : BOOLEAN, at : Nat]
    BY NoteIs
  <2> QED BY <2>1 DEF Newer
<1>2. fans \in SUBSET Replicas
  OBVIOUS
<1>3. winner \in Notes
  OBVIOUS
<1>4. MergeNote(incoming, local) = [winner EXCEPT !.fans = fans, !.heard = heard]
  BY Zenon DEF MergeNote
<1> HIDE DEF winner, fans, heard
<1> QED BY <1>1, <1>2, <1>3, <1>4 DEF Notes

LEMMA MergeIsSound ==
  ASSUME NEW local \in Docs, NEW incoming \in Docs
  PROVE  Merge(local, incoming) \in SoundDocs
<1> DEFINE gone == [i \in Ids |-> Higher(local.gone[i], incoming.gone[i])]
           both(i) == IF i \notin Shown(incoming) THEN local.notes[i]
                      ELSE IF i \notin Shown(local) THEN incoming.notes[i]
                      ELSE MergeNote(incoming.notes[i], local.notes[i])
           notes == [i \in Ids |-> IF both(i) # None /\ Buried(gone, i, both(i)) THEN None ELSE both(i)]
           e == Merge(local, incoming)
<1>1. gone \in [Ids -> Nat]
  <2>1. \A j \in Ids : Higher(local.gone[j], incoming.gone[j]) \in Nat
    BY DocIs, Highers
  <2> QED BY <2>1
<1>2. \A i \in Ids : both(i) \in Notes \union {None}
  <2> SUFFICES ASSUME NEW i \in Ids PROVE both(i) \in Notes \union {None}
    OBVIOUS
  <2>1. local.notes[i] \in Notes \union {None} /\ incoming.notes[i] \in Notes \union {None}
    BY DocIs
  <2>2. i \in Shown(local) /\ i \in Shown(incoming) => MergeNote(incoming.notes[i], local.notes[i]) \in Notes
    BY DocIs, MergedNote
  <2> QED BY <2>1, <2>2
<1> HIDE DEF gone, both
<1>3. notes \in [Ids -> Notes \union {None}]
  BY <1>2
<1>4. \A i \in Ids : notes[i] # None => ~Buried(gone, i, notes[i])
  OBVIOUS
<1>5. e = [notes |-> notes, gone |-> gone, clock |-> Higher(local.clock, incoming.clock),
           rev |-> Higher(local.rev, incoming.rev), ops |-> local.ops \union incoming.ops]
  BY DEF Merge, gone, both
<1> HIDE DEF notes, e
<1>6. Higher(local.clock, incoming.clock) \in Nat /\ Higher(local.rev, incoming.rev) \in Nat
  BY DocIs, Highers
<1>7. local.ops \union incoming.ops \in SUBSET OpIds
  BY DocIs
<1>8. e \in Docs /\ e.notes = notes /\ e.gone = gone
  BY <1>1, <1>3, <1>5, <1>6, <1>7 DEF Docs
<1>9. SoundDoc(e)
  BY <1>4, <1>8 DEF SoundDoc, Shown
<1> QED BY <1>8, <1>9 DEF SoundDocs, e

(* Commits. *)

LEMMA ClockIsTime ==
  ASSUME NEW d \in Docs, NEW t \in Nat
  PROVE  NextClock(d, t) \in Nat /\ NextClock(d, t) >= t /\ NextClock(d, t) > d.clock
<1> DEFINE edits == {d.notes[i].at + 1 : i \in Shown(d)}
           T == {t, d.clock + 1} \union edits
<1>1. d.clock + 1 \in Nat /\ \A i \in Shown(d) : d.notes[i].at + 1 \in Nat
  BY DocIs, NoteIs
<1>2. T \subseteq Nat /\ T # {}
  BY <1>1
<1>3. IsFiniteSet(Shown(d))
  BY FS_Subset DEF Shown
<1>4. IsFiniteSet(edits)
  <2> DEFINE f == [i \in Shown(d) |-> d.notes[i].at + 1]
  <2>1. f \in Surjection(Shown(d), edits)
    BY DEF Surjection
  <2> QED BY <1>3, <2>1, FS_Surjection DEF ExistsSurjection
<1>5. IsFiniteSet(T)
  <2> HIDE DEF edits
  <2>1. T = (edits \union {t}) \union {d.clock + 1}
    OBVIOUS
  <2>2. IsFiniteSet(edits \union {t})
    BY <1>4, FS_AddElement
  <2>3. IsFiniteSet((edits \union {t}) \union {d.clock + 1})
    BY <2>2, FS_AddElement
  <2> QED BY <2>1, <2>3
<1>6. Max(T) \in T /\ \A k \in T : Max(T) >= k
  <2> HIDE DEF T
  <2> QED BY <1>2, <1>5, GreatestOf
<1>7. NextClock(d, t) = Max(T) /\ t \in T /\ d.clock + 1 \in T /\ d.clock \in Nat
  BY DocIs DEF NextClock
<1> HIDE DEF T
<1>8. Max(T) \in Nat /\ Max(T) >= t /\ Max(T) >= d.clock + 1
  BY <1>2, <1>6, <1>7
<1> QED BY <1>7, <1>8

LEMMA PreparedOp ==
  ASSUME NEW d \in Docs, NEW op \in OpTypes, NEW t \in Nat
  PROVE  Prepare(d, op, t) \in Commits
<1> DEFINE clock == NextClock(d, t)
           note == [op.note EXCEPT !.rev = d.rev + 1, !.at = clock, !.back = IF @ # 0 THEN clock ELSE 0]
           stamped == IF op.t = "add" THEN [op EXCEPT !.note = note] ELSE [op EXCEPT !.at = clock]
<1>1. clock \in Nat /\ d.rev + 1 \in Nat
  BY ClockIsTime, DocIs
<1>2. Prepare(d, op, t) = [t |-> "commit", clock |-> clock, rev |-> d.rev + 1, op |-> stamped]
  BY Zenon DEF Prepare
<1> HIDE DEF clock
<1>3. CASE op.t = "add"
  <2>1. op.note \in Notes /\ op \in [t : {"add"}, id : Ids, note : Notes, at : Nat]
    BY <1>3, OpIs
  <2>2. note \in Notes
    BY <1>1, <2>1 DEF Notes
  <2> HIDE DEF note
  <2>3. [op EXCEPT !.note = note] \in [t : {"add"}, id : Ids, note : Notes, at : Nat]
    BY <2>1, <2>2
  <2> QED BY <1>1, <1>2, <1>3, <2>3 DEF Commits, OpTypes
<1>4. CASE op.t # "add"
  <2> HIDE DEF note
  <2>1. [op EXCEPT !.at = clock] \in OpTypes
    BY <1>1, <1>4, OpIs DEF OpTypes
  <2> QED BY <1>1, <1>2, <1>4, <2>1 DEF Commits
<1> QED BY <1>3, <1>4

LEMMA CommitIsSound ==
  ASSUME NEW d \in SoundDocs, NEW c \in Commits, NEW opid \in OpIds
  PROVE  ApplyCommit(d, c, opid) \in SoundDocs
<1> DEFINE i == c.op.id
           known == i \in Shown(d)
           outranks == known /\ d.notes[i].rev < c.rev
           base == IF ~outranks THEN d
                   ELSE IF c.op.t = "add" THEN [d EXCEPT !.notes[i] = None]
                   ELSE [d EXCEPT !.notes[i].at = 0]
           next == IF known /\ ~outranks THEN d ELSE Apply(base, c.op, c.clock)
           ranked == IF i \in Shown(next) /\ next.notes[i].rev < c.rev
                       THEN [next EXCEPT !.notes[i].rev = c.rev] ELSE next
           e == [ranked EXCEPT !.rev = Higher(@, c.rev), !.clock = Higher(@, c.clock),
                               !.ops = @ \union {opid}]
<1>1. c.op \in OpTypes /\ c.clock \in Nat /\ c.rev \in Nat
  BY DEF Commits
<1>2. i \in Ids
  BY <1>1, OpIs
<1>3. base \in SoundDocs
  <2>1. [d EXCEPT !.notes[i] = None] \in SoundDocs
    BY <1>2, Hides
  <2>2. ASSUME known PROVE [d EXCEPT !.notes[i].at = 0] \in SoundDocs
    <3> DEFINE note == [d.notes[i] EXCEPT !.at = 0]
    <3>1. d.notes[i] \in Notes
      BY <2>2, DocIs DEF SoundDocs
    <3>2. note \in Notes /\ note.back = d.notes[i].back
      BY <3>1 DEF Notes
    <3>3. [d EXCEPT !.notes[i].at = 0] = [d EXCEPT !.notes[i] = note]
      BY DEF SoundDocs, Docs
    <3> HIDE DEF note, i
    <3> QED BY <2>2, <3>2, <3>3, Alters
  <2> HIDE DEF i
  <2> QED BY <2>1, <2>2
<1> HIDE DEF base
<1>4. next \in SoundDocs
  BY <1>1, <1>3, ApplyIsSound
<1> HIDE DEF next
<1>5. ranked \in SoundDocs
  <2>1. ASSUME i \in Shown(next) PROVE [next EXCEPT !.notes[i].rev = c.rev] \in SoundDocs
    <3> DEFINE note == [next.notes[i] EXCEPT !.rev = c.rev]
    <3>1. next.notes[i] \in Notes
      BY <1>4, <2>1, DocIs DEF SoundDocs
    <3>2. note \in Notes /\ note.back = next.notes[i].back
      BY <1>1, <3>1 DEF Notes
    <3>3. [next EXCEPT !.notes[i].rev = c.rev] = [next EXCEPT !.notes[i] = note]
      BY <1>4 DEF SoundDocs, Docs
    <3> HIDE DEF note, i
    <3> QED BY <1>4, <2>1, <3>2, <3>3, Alters
  <2> HIDE DEF i
  <2> QED BY <1>4, <2>1
<1> HIDE DEF ranked
<1>6. e \in SoundDocs
  <2>1. ranked \in Docs /\ SoundDoc(ranked)
    BY <1>5 DEF SoundDocs
  <2>2. Higher(ranked.rev, c.rev) \in Nat /\ Higher(ranked.clock, c.clock) \in Nat
    BY <1>1, <2>1, DocIs, Highers
  <2>3. e \in Docs /\ e.notes = ranked.notes /\ e.gone = ranked.gone
    BY <2>1, <2>2 DEF Docs
  <2> HIDE DEF e
  <2>4. SoundDoc(e)
    BY <2>1, <2>3 DEF SoundDoc, Shown
  <2> QED BY <2>3, <2>4 DEF SoundDocs
<1>7. ApplyCommit(d, c, opid) = IF opid \in d.ops THEN d ELSE e
  BY DEF ApplyCommit, e, ranked, next, base
<1> QED BY <1>6, <1>7

(* What is posted. *)

\* A sequence mapped one by one, as a function on its places.
LEMMA OneByOne ==
  ASSUME NEW S, NEW n \in Nat, NEW row \in [1 .. n -> S]
  PROVE  row \in Seq(S) /\ Len(row) = n
OBVIOUS

LEMMA InverseIsOps ==
  ASSUME NEW d \in SoundDocs, NEW op \in OpTypes, op.t # "like",
         op.t \in {"edit", "resolve"} => op.id \in Shown(d)
  PROVE  InverseOps(d, op) \in Seq(OpTypes)
<1>1. op.id \in Ids /\ op.t \in {"add", "edit", "resolve", "del"}
  BY OpIs
<1>2. ASSUME NEW i \in Ids PROVE DelOp(i) \in OpTypes
  BY DEF DelOp, OpTypes
<1>3. CASE op.t = "add"
  <2>1. InverseOps(d, op) = <<DelOp(op.id)>>
    BY <1>3 DEF InverseOps
  <2> QED BY <1>1, <1>2, <2>1
<1>4. CASE op.t = "edit"
  <2>1. InverseOps(d, op) = <<[op EXCEPT !.body = d.notes[op.id].body]>>
    BY <1>4 DEF InverseOps
  <2>2. d.notes[op.id].body \in Bodies
    BY <1>4, DocIs, NoteIs DEF SoundDocs
  <2>3. op \in [t : {"edit"}, id : Ids, body : Bodies, at : Nat]
    BY <1>4, OpIs
  <2>4. [op EXCEPT !.body = d.notes[op.id].body] \in OpTypes
    BY <2>2, <2>3 DEF OpTypes
  <2> QED BY <2>1, <2>4
<1>5. CASE op.t = "resolve"
  <2>1. InverseOps(d, op) = <<[op EXCEPT !.on = d.notes[op.id].resolved]>>
    BY <1>5 DEF InverseOps
  <2>2. d.notes[op.id].resolved \in BOOLEAN
    BY <1>5, DocIs, NoteIs DEF SoundDocs
  <2>3. op \in [t : {"resolve"}, id : Ids, on : BOOLEAN, at : Nat]
    BY <1>5, OpIs
  <2>4. [op EXCEPT !.on = d.notes[op.id].resolved] \in OpTypes
    BY <2>2, <2>3 DEF OpTypes
  <2> QED BY <2>1, <2>4
<1>6. CASE op.t = "del"
  <2> DEFINE T == Thread(d, op.id) \intersect Shown(d)
             thread == SetToSeq(T)
             back == [k \in DOMAIN thread |-> AddOp(thread[k], d.notes[thread[k]])]
  <2>1. InverseOps(d, op) = back
    BY <1>6 DEF InverseOps
  <2>2. T \subseteq Shown(d) /\ IsFiniteSet(T)
    BY FS_Subset DEF Shown
  <2>3. thread \in Seq(T)
    BY <2>2, Listed
  <2> HIDE DEF thread
  <2>4. \A i \in T : AddOp(i, d.notes[i]) \in OpTypes
    <3> SUFFICES ASSUME NEW i \in T PROVE AddOp(i, d.notes[i]) \in OpTypes
      OBVIOUS
    <3>1. i \in Ids /\ d.notes[i] \in Notes
      BY <2>2, DocIs DEF SoundDocs
    <3> QED BY <3>1 DEF AddOp, OpTypes
  <2> HIDE DEF T
  <2>5. Len(thread) \in Nat /\ DOMAIN thread = 1 .. Len(thread) /\ \A k \in 1 .. Len(thread) : thread[k] \in T
    BY <2>3
  <2>6. back \in [1 .. Len(thread) -> OpTypes]
    BY <2>4, <2>5
  <2> HIDE DEF back
  <2> QED BY <2>1, <2>5, <2>6, OneByOne
<1> QED BY <1>1, <1>3, <1>4, <1>5, <1>6

LEMMA RestampIsOps ==
  ASSUME NEW ops \in Seq(OpTypes), NEW t \in Nat
  PROVE  RestampAll(ops, t) \in Seq(OpTypes)
<1>1. ASSUME NEW op \in OpTypes PROVE Restamp(op, t) \in OpTypes
  <2>1. CASE op.t = "add"
    <3> DEFINE note == [op.note EXCEPT !.back = t + 1]
    <3>1. op.note \in Notes /\ op \in [t : {"add"}, id : Ids, note : Notes, at : Nat]
      BY <2>1, OpIs
    <3>2. note \in Notes
      <4>1. t + 1 \in Nat
        OBVIOUS
      <4> QED BY <3>1, <4>1 DEF Notes
    <3>3. Restamp(op, t) = [op EXCEPT !.note = note]
      BY <2>1, <3>1 DEF Restamp
    <3> HIDE DEF note
    <3>4. [op EXCEPT !.note = note] \in [t : {"add"}, id : Ids, note : Notes, at : Nat]
      BY <3>1, <3>2
    <3> QED BY <3>3, <3>4 DEF OpTypes
  <2>2. CASE op.t # "add"
    <3>1. [op EXCEPT !.at = t] \in OpTypes
      BY <2>2, OpIs DEF OpTypes
    <3> QED BY <2>2, <3>1 DEF Restamp
  <2> QED BY <2>1, <2>2
<1>2. Len(ops) \in Nat /\ DOMAIN ops = 1 .. Len(ops) /\ \A k \in 1 .. Len(ops) : ops[k] \in OpTypes
  OBVIOUS
<1>3. RestampAll(ops, t) \in [1 .. Len(ops) -> OpTypes]
  BY <1>1, <1>2 DEF RestampAll
<1> QED BY <1>2, <1>3, OneByOne

LEMMA OpsOfIsOps ==
  ASSUME NEW envelopes \in Seq(Envelopes)
  PROVE  OpsOf(envelopes) \in Seq(OpTypes)
<1>1. Len(envelopes) \in Nat /\ DOMAIN envelopes = 1 .. Len(envelopes)
      /\ \A k \in 1 .. Len(envelopes) : envelopes[k] \in Envelopes
  OBVIOUS
<1>2. OpsOf(envelopes) \in [1 .. Len(envelopes) -> OpTypes]
  BY <1>1 DEF OpsOf, Envelopes
<1> QED BY <1>1, <1>2, OneByOne

LEMMA NewNoteIs ==
  ASSUME NEW body \in Bodies, NEW time \in Nat
  PROVE  NewNote(body, time) \in Notes
<1>1. Silent \in [Replicas -> {None} \union [on : BOOLEAN, at : Nat]]
  BY DEF Silent
<1> QED BY <1>1 DEF NewNote, Notes

-----------------------------------------------------------------------------
(* The invariant: documents are sound wherever they are, and a guest has one
   whenever a commit can reach it. *)

Counts ==
  /\ now \in Nat /\ used \in 0 .. MaxPosts /\ made \in SUBSET Ids
  /\ link \in SUBSET Guests /\ breaks \in [Guests -> 0 .. MaxBreaks]
Copies ==
  /\ doc \in [Replicas -> SoundDocs \union {None}] /\ kept \in [Replicas -> SoundDocs]
  /\ doc[Host] \in SoundDocs
Posted == outbox \in [Replicas -> Seq(Envelopes)] /\ up \in [Replicas -> Seq(Envelopes)]
Recordings == log \in Seq([id : OpIds, commit : Commits])
Deliveries == down \in [Guests -> Seq(SoundDowns)]
Stacks == past \in [Replicas -> Seq(Entries)] /\ future \in [Replicas -> Seq(Entries)]

\* In the room a guest shows a document, or has the snapshot before all else.
Seated ==
  \A g \in Guests :
    IF g \in link THEN doc[g] \in SoundDocs \/ (down[g] # <<>> /\ Head(down[g]).t = "doc")
                  ELSE down[g] = <<>>

ReplicasInv == Counts /\ Copies /\ Posted /\ Recordings /\ Deliveries /\ Stacks /\ Seated

LEMMA ReplicasBegin == Init => ReplicasInv
<1> SUFFICES ASSUME Init PROVE ReplicasInv
  OBVIOUS
<1>1. FirstDoc \in SoundDocs
  <2>1. NewNote(Min(Bodies), 1) \in Notes
    BY FirstBody, NewNoteIs
  <2>2. FirstDoc \in Docs
    BY <2>1 DEF FirstDoc, Docs
  <2>3. \A i \in Ids : GoneAt(FirstDoc.gone, i) = 0
    <3>1. \A i \in Ids : FirstDoc.gone[i] = 0
      BY DEF FirstDoc
    <3> QED BY <3>1 DEF GoneAt, Higher
  <2>4. SoundDoc(FirstDoc)
    BY <2>3 DEF SoundDoc, Buried, Shown
  <2> QED BY <2>2, <2>4 DEF SoundDocs
<1>2. Counts
  BY DEF Init, Counts
<1>3. Copies
  BY <1>1 DEF Init, Copies, Replicas
<1>4. Posted /\ Recordings /\ Deliveries /\ Stacks
  BY DEF Init, Posted, Recordings, Deliveries, Stacks
<1>5. Seated
  BY <1>1 DEF Init, Seated, Replicas
<1> QED BY <1>2, <1>3, <1>4, <1>5 DEF ReplicasInv

LEMMA Clocks ==
  ASSUME ReplicasInv, NEW r \in Replicas
  PROVE  Clock(r) \in Nat /\ ActClock(r) \in Nat /\ Later(now) \in Nat
<1>1. doc[Host].clock \in Nat /\ now \in Nat /\ Ahead[r] \in Nat
  BY DocIs DEF ReplicasInv, Copies, Counts, SoundDocs
<1>2. Higher(now, doc[Host].clock) \in Nat
  BY <1>1, Highers
<1>3. Later(now) \in Nat
  BY <1>2 DEF Later
<1> QED BY <1>1, <1>3 DEF Clock, ActClock

\* What somebody posts is shown to the one, kept, and sent.
LEMMA PostIsSound ==
  ASSUME ReplicasInv, NEW r \in Replicas, InRoom(r), NEW ops \in Seq(OpTypes), PostAll(r, ops)
  PROVE  /\ now' \in Nat /\ used' \in 0 .. MaxPosts
         /\ link' \in SUBSET Guests /\ breaks' \in [Guests -> 0 .. MaxBreaks]
         /\ Copies' /\ Posted' /\ Recordings' /\ Deliveries' /\ Seated'
<1> DEFINE envelopes == [k \in DOMAIN ops |-> [id |-> used + k, op |-> ops[k]]]
<1>1. /\ used + Len(ops) <= MaxPosts /\ now' = Later(now)
      /\ used' = used + Len(ops)
      /\ doc' = [doc EXCEPT ![r] = ApplyAll(@, ops, ActClock(r))]
      /\ kept' = [kept EXCEPT ![r] = Merge(@, doc'[r])]
      /\ outbox' = [outbox EXCEPT ![r] = @ \o envelopes]
      /\ up' = [up EXCEPT ![r] = @ \o envelopes]
      /\ UNCHANGED <<link, down, log, breaks>>
  BY DEF PostAll
<1>2. Len(ops) \in Nat /\ DOMAIN ops = 1 .. Len(ops) /\ \A k \in 1 .. Len(ops) : ops[k] \in OpTypes
  OBVIOUS
<1>3. envelopes \in Seq(Envelopes)
  <2>1. \A k \in 1 .. Len(ops) : used + k \in OpIds
    BY <1>1, <1>2 DEF ReplicasInv, Counts, OpIds
  <2>2. envelopes \in [1 .. Len(ops) -> Envelopes]
    BY <1>2, <2>1 DEF Envelopes
  <2> HIDE DEF envelopes
  <2> QED BY <1>2, <2>2, OneByOne
<1> HIDE DEF envelopes
<1>4. Posted'
  BY <1>1, <1>3 DEF ReplicasInv, Posted
<1>5. doc[r] \in SoundDocs /\ kept[r] \in SoundDocs
  BY DEF ReplicasInv, Copies, InRoom
<1>6. ApplyAll(doc[r], ops, ActClock(r)) \in SoundDocs
  BY <1>5, Clocks, AppliesInOrder
<1>7. doc'[r] = ApplyAll(doc[r], ops, ActClock(r))
  BY <1>1 DEF ReplicasInv, Copies
<1>8. Merge(kept[r], doc'[r]) \in SoundDocs
  BY <1>5, <1>6, <1>7, MergeIsSound DEF SoundDocs
<1>9. \A m \in Replicas : doc'[m] = doc[m] \/ doc'[m] \in SoundDocs
  BY <1>1, <1>6 DEF ReplicasInv, Copies
<1>10. Copies'
  <2>1. doc' \in [Replicas -> SoundDocs \union {None}]
    BY <1>1, <1>6 DEF ReplicasInv, Copies
  <2>2. kept' \in [Replicas -> SoundDocs]
    BY <1>1, <1>8 DEF ReplicasInv, Copies
  <2>3. doc'[Host] \in SoundDocs
    BY <1>9 DEF ReplicasInv, Copies, Replicas
  <2> QED BY <2>1, <2>2, <2>3 DEF Copies
<1>11. Seated'
  BY <1>1, <1>9 DEF ReplicasInv, Seated, Replicas
<1>12. Recordings' /\ Deliveries'
  BY <1>1 DEF ReplicasInv, Recordings, Deliveries
<1>13. used' \in 0 .. MaxPosts
  BY <1>1, <1>2 DEF ReplicasInv, Counts
<1> QED BY <1>1, <1>4, <1>10, <1>11, <1>12, <1>13, Clocks DEF ReplicasInv, Counts

LEMMA OneOp ==
  ASSUME NEW op \in OpTypes
  PROVE  <<op>> \in Seq(OpTypes)
OBVIOUS

LEMMA DoIsSound ==
  ASSUME ReplicasInv, NEW r \in Replicas, InRoom(r), NEW op \in OpTypes, op.t # "like",
         op.t \in {"edit", "resolve"} => op.id \in Shown(doc[r]),
         Do(r, op), made' \in SUBSET Ids
  PROVE  ReplicasInv'
<1>1. doc[r] \in SoundDocs
  BY DEF ReplicasInv, Copies, InRoom
<1>2. InverseOps(doc[r], op) \in Seq(OpTypes)
  BY <1>1, InverseIsOps
<1>3. [op |-> op, inverse |-> InverseOps(doc[r], op), redo |-> <<op>>] \in Entries
  BY <1>2, OneOp DEF Entries
<1>4. /\ past' = [past EXCEPT ![r] = Append(@, [op |-> op, inverse |-> InverseOps(doc[r], op),
                                               redo |-> <<op>>])]
      /\ future' = [future EXCEPT ![r] = <<>>]
  BY DEF Do
<1>5. Stacks'
  <2>1. past' \in [Replicas -> Seq(Entries)]
    BY <1>3, <1>4 DEF ReplicasInv, Stacks
  <2>2. future' \in [Replicas -> Seq(Entries)]
    BY <1>4 DEF ReplicasInv, Stacks
  <2> QED BY <2>1, <2>2 DEF Stacks
<1>6. PostAll(r, <<op>>)
  BY DEF Do
<1> QED BY <1>5, <1>6, OneOp, PostIsSound DEF ReplicasInv, Counts

LEMMA PostStep ==
  ASSUME ReplicasInv, NEW r \in Replicas, Posts(r)
  PROVE  ReplicasInv'
<1>1. ActClock(r) \in Nat
  BY Clocks
<1>2. made \in SUBSET Ids
  BY DEF ReplicasInv, Counts
<1>3. ASSUME NEW i \in Ids, AddNote(r, i, Min(Bodies)) PROVE ReplicasInv'
  <2> DEFINE op == AddOp(i, NewNote(Min(Bodies), ActClock(r)))
  <2>1. op \in OpTypes /\ op.t = "add"
    BY <1>1, FirstBody, NewNoteIs DEF AddOp, OpTypes
  <2>2. InRoom(r) /\ Do(r, op) /\ made' = made \union {i}
    BY <1>3 DEF AddNote
  <2> HIDE DEF op
  <2> QED BY <1>2, <2>1, <2>2, DoIsSound
<1>4. ASSUME NEW i \in Ids, NEW body \in Bodies, EditNote(r, i, body) PROVE ReplicasInv'
  <2> DEFINE op == [t |-> "edit", id |-> i, body |-> body, at |-> ActClock(r)]
  <2>1. op \in OpTypes /\ op.t = "edit" /\ op.id = i
    BY <1>1 DEF OpTypes
  <2>2. InRoom(r) /\ Do(r, op) /\ made' = made /\ i \in Shown(doc[r])
    BY <1>4 DEF EditNote
  <2> HIDE DEF op
  <2> QED BY <1>2, <2>1, <2>2, DoIsSound
<1>5. ASSUME NEW i \in Ids, ResolveNote(r, i) PROVE ReplicasInv'
  <2>1. PICK on \in BOOLEAN : on = ~doc[r].notes[i].resolved
    BY Zenon
  <2> DEFINE op == [t |-> "resolve", id |-> i, on |-> on, at |-> ActClock(r)]
  <2>2. op \in OpTypes /\ op.t = "resolve" /\ op.id = i
    BY <1>1 DEF OpTypes
  <2>3. InRoom(r) /\ Do(r, op) /\ made' = made /\ i \in Shown(doc[r])
    BY <1>5, <2>1 DEF ResolveNote
  <2> HIDE DEF op
  <2> QED BY <1>2, <2>2, <2>3, DoIsSound
<1>6. ASSUME NEW i \in Ids, DeleteNote(r, i) PROVE ReplicasInv'
  <2>1. DelOp(i) \in OpTypes /\ DelOp(i).t = "del"
    BY DEF DelOp, OpTypes
  <2>2. InRoom(r) /\ Do(r, DelOp(i)) /\ made' = made
    BY <1>6 DEF DeleteNote
  <2> QED BY <1>2, <2>1, <2>2, DoIsSound
<1>7. ASSUME NEW i \in Ids, ToggleLike(r, i) PROVE ReplicasInv'
  <2>1. PICK on \in BOOLEAN : on = (r \notin doc[r].notes[i].fans)
    BY Zenon
  <2> DEFINE op == [t |-> "like", id |-> i, who |-> r, on |-> on, at |-> 0]
  <2>2. op \in OpTypes
    BY DEF OpTypes
  <2>3. InRoom(r) /\ PostAll(r, <<op>>) /\ UNCHANGED <<made, past, future>>
    BY <1>7, <2>1 DEF ToggleLike
  <2> HIDE DEF op
  <2>4. <<op>> \in Seq(OpTypes)
    BY <2>2, OneOp
  <2>5. Stacks'
    BY <2>3 DEF ReplicasInv, Stacks
  <2> QED BY <1>2, <2>3, <2>4, <2>5, PostIsSound DEF ReplicasInv, Counts
<1>8. \A stack \in Seq(Entries) : stack # <<>> =>
        /\ Last(stack) \in Entries /\ Front(stack) \in Seq(Entries)
        /\ Last(stack).op \in OpTypes /\ Last(stack).inverse \in Seq(OpTypes)
        /\ Last(stack).redo \in Seq(OpTypes)
  <2> SUFFICES ASSUME NEW stack \in Seq(Entries), stack # <<>>
               PROVE  /\ Last(stack) \in Entries /\ Front(stack) \in Seq(Entries)
                      /\ Last(stack).op \in OpTypes /\ Last(stack).inverse \in Seq(OpTypes)
                      /\ Last(stack).redo \in Seq(OpTypes)
    OBVIOUS
  <2>1. Last(stack) \in Entries /\ Front(stack) \in Seq(Entries)
    BY DEF Last, Front
  <2> QED BY <2>1 DEF Entries
<1>9. past[r] \in Seq(Entries) /\ future[r] \in Seq(Entries)
  BY DEF ReplicasInv, Stacks
<1>10. ASSUME Undo(r) PROVE ReplicasInv'
  <2> DEFINE entry == Last(past[r])
             undone == [entry EXCEPT !.redo = RedoAfter(r, entry)]
             ops == RestampAll(entry.inverse, ActClock(r))
  <2>1. /\ InRoom(r) /\ past[r] # <<>> /\ PostAll(r, ops)
        /\ past' = [past EXCEPT ![r] = Front(@)]
        /\ future' = [future EXCEPT ![r] = Append(@, undone)]
        /\ made' = made
    BY <1>10 DEF Undo
  <2>2. /\ entry \in Entries /\ Front(past[r]) \in Seq(Entries)
        /\ entry.op \in OpTypes /\ entry.inverse \in Seq(OpTypes) /\ entry.redo \in Seq(OpTypes)
    BY <1>8, <1>9, <2>1
  <2> HIDE DEF entry
  <2>3. ops \in Seq(OpTypes)
    BY <1>1, <2>2, RestampIsOps
  <2>4. RedoAfter(r, entry) \in Seq(OpTypes)
    <3>1. doc[r] \in SoundDocs
      BY <2>1 DEF ReplicasInv, Copies, InRoom
    <3>2. DelOp(entry.op.id) \in OpTypes /\ DelOp(entry.op.id).t = "del"
      BY <2>2, OpIs DEF DelOp, OpTypes
    <3>3. InverseOps(doc[r], DelOp(entry.op.id)) \in Seq(OpTypes)
      BY <3>1, <3>2, InverseIsOps
    <3> QED BY <2>2, <3>3, OneOp DEF RedoAfter
  <2>5. undone \in Entries
    BY <2>2, <2>4 DEF Entries
  <2> HIDE DEF undone, ops
  <2>6. Stacks'
    <3>1. past' \in [Replicas -> Seq(Entries)]
      BY <2>1, <2>2 DEF ReplicasInv, Stacks
    <3>2. future' \in [Replicas -> Seq(Entries)]
      BY <2>1, <2>5 DEF ReplicasInv, Stacks
    <3> QED BY <3>1, <3>2 DEF Stacks
  <2> QED BY <1>2, <2>1, <2>3, <2>6, PostIsSound DEF ReplicasInv, Counts
<1>11. ASSUME Redo(r) PROVE ReplicasInv'
  <2> DEFINE entry == Last(future[r])
             ops == RestampAll(entry.redo, ActClock(r))
  <2>1. /\ InRoom(r) /\ future[r] # <<>> /\ PostAll(r, ops)
        /\ future' = [future EXCEPT ![r] = Front(@)]
        /\ past' = [past EXCEPT ![r] = Append(@, entry)]
        /\ made' = made
    BY <1>11 DEF Redo
  <2>2. /\ entry \in Entries /\ Front(future[r]) \in Seq(Entries) /\ entry.redo \in Seq(OpTypes)
    BY <1>8, <1>9, <2>1
  <2> HIDE DEF entry
  <2>3. ops \in Seq(OpTypes)
    BY <1>1, <2>2, RestampIsOps
  <2> HIDE DEF ops
  <2>4. Stacks'
    <3>1. future' \in [Replicas -> Seq(Entries)]
      BY <2>1, <2>2 DEF ReplicasInv, Stacks
    <3>2. past' \in [Replicas -> Seq(Entries)]
      BY <2>1, <2>2 DEF ReplicasInv, Stacks
    <3> QED BY <3>1, <3>2 DEF Stacks
  <2> QED BY <1>2, <2>1, <2>3, <2>4, PostIsSound DEF ReplicasInv, Counts
<1> QED BY <1>3, <1>4, <1>5, <1>6, <1>7, <1>10, <1>11 DEF Posts

\* What the host broadcasts goes behind whatever is on its way.
LEMMA BroadcastIsSound ==
  ASSUME ReplicasInv, NEW message \in [t : {"commit"}, id : OpIds, commit : Commits],
         Broadcast(message), link' = link,
         \A g \in Guests : doc'[g] = doc[g]
  PROVE  Deliveries' /\ Seated'
<1>1. message \in SoundDowns
  BY DEF SoundDowns
<1>2. down' = [g \in Guests |-> IF g \in link THEN Append(down[g], message) ELSE down[g]]
  BY DEF Broadcast
<1>3. \A g \in Guests : down[g] \in Seq(SoundDowns)
  BY DEF ReplicasInv, Deliveries
<1>4. \A g \in Guests : Append(down[g], message) \in Seq(SoundDowns)
  BY <1>1, <1>3
<1>5. Deliveries'
  BY <1>2, <1>3, <1>4 DEF Deliveries
<1>6. ASSUME NEW g \in Guests, g \in link, doc[g] \notin SoundDocs
      PROVE  down'[g] # <<>> /\ Head(down'[g]).t = "doc"
  <2>1. down[g] # <<>> /\ Head(down[g]).t = "doc"
    BY <1>6 DEF ReplicasInv, Seated
  <2>2. Append(down[g], message) # <<>> /\ Head(Append(down[g], message)) = Head(down[g])
    BY <1>1, <1>3, <2>1
  <2> QED BY <1>2, <1>6, <2>1, <2>2
<1>7. ASSUME NEW g \in Guests, g \notin link PROVE down'[g] = <<>>
  BY <1>2, <1>7 DEF ReplicasInv, Seated
<1>8. Seated'
  BY <1>6, <1>7 DEF Seated
<1> QED BY <1>5, <1>8

LEMMA InRow ==
  ASSUME NEW S, NEW row \in Seq(S), NEW k \in DOMAIN row
  PROVE  row[k] \in S
OBVIOUS

LEMMA OneMore ==
  ASSUME NEW S, NEW row \in Seq(S), NEW x \in S
  PROVE  Append(row, x) \in Seq(S)
OBVIOUS

LEMMA HostStep ==
  ASSUME ReplicasInv, NEW r \in Replicas, HostCommits(r)
  PROVE  ReplicasInv'
<1> DEFINE loaded == Merge(kept[Host], doc[Host])
           e == Head(up[r])
           new == [id |-> e.id, commit |-> Prepare(loaded, e.op, Clock(Host))]
           c == IF Committed(e.id) THEN Recorded(e.id) ELSE new
           next == IF Committed(e.id) THEN loaded ELSE ApplyCommit(loaded, c.commit, e.id)
           message == [t |-> "commit", id |-> c.id, commit |-> c.commit]
<1>1. /\ up[r] # <<>>
      /\ doc' = [doc EXCEPT ![Host] = next]
      /\ kept' = [kept EXCEPT ![Host] = next]
      /\ log' = IF Committed(e.id) THEN log ELSE Append(log, c)
      /\ outbox' = [outbox EXCEPT ![Host] = Without(@, e.id)]
      /\ up' = [up EXCEPT ![r] = Tail(@)]
      /\ Broadcast(message)
      /\ UNCHANGED <<now, used, made, past, future, link, breaks>>
  BY DEF HostCommits, Serve
<1>2. e \in Envelopes /\ e.id \in OpIds /\ e.op \in OpTypes /\ Tail(up[r]) \in Seq(Envelopes)
  <2>1. up[r] \in Seq(Envelopes)
    BY DEF ReplicasInv, Posted
  <2>2. e \in Envelopes /\ Tail(up[r]) \in Seq(Envelopes)
    BY <1>1, <2>1
  <2> HIDE DEF e
  <2> QED BY <2>2 DEF Envelopes
<1>3. loaded \in SoundDocs /\ loaded \in Docs
  <2>1. Host \in Replicas /\ kept[Host] \in SoundDocs /\ doc[Host] \in SoundDocs
    BY DEF ReplicasInv, Copies, Replicas
  <2> QED BY <2>1, MergeIsSound DEF SoundDocs
<1>4. Clock(Host) \in Nat
  BY Clocks DEF Replicas
<1> HIDE DEF loaded, e
<1>5. Prepare(loaded, e.op, Clock(Host)) \in Commits
  BY <1>2, <1>3, <1>4, PreparedOp
<1>a. log \in Seq([id : OpIds, commit : Commits])
  BY DEF ReplicasInv, Recordings
<1>6. c \in [id : OpIds, commit : Commits]
  <2>1. CASE Committed(e.id)
    <3>1. \E k \in DOMAIN log : log[k].id = e.id
      BY <2>1 DEF Committed
    <3>2. PICK k \in DOMAIN log : Recorded(e.id) = log[k]
      BY <3>1 DEF Recorded
    <3>3. log[k] \in [id : OpIds, commit : Commits]
      BY <1>a, <3>2, InRow
    <3> QED BY <2>1, <3>2, <3>3
  <2>2. CASE ~Committed(e.id)
    <3>1. new \in [id : OpIds, commit : Commits]
      BY <1>2, <1>5
    <3> HIDE DEF new
    <3> QED BY <2>2, <3>1
  <2> QED BY <2>1, <2>2
<1> HIDE DEF c
<1>7. next \in SoundDocs
  <2>1. CASE Committed(e.id)
    BY <1>3, <2>1
  <2>2. CASE ~Committed(e.id)
    <3>1. c.commit \in Commits
      BY <1>6
    <3>2. ApplyCommit(loaded, c.commit, e.id) \in SoundDocs
      BY <1>2, <1>3, <3>1, CommitIsSound
    <3> QED BY <2>2, <3>2
  <2> QED BY <2>1, <2>2
<1> HIDE DEF next
<1>8. Recordings'
  BY <1>1, <1>6, <1>a, OneMore DEF Recordings
<1>9. Copies'
  <2>1. doc' \in [Replicas -> SoundDocs \union {None}]
    BY <1>1, <1>7 DEF ReplicasInv, Copies
  <2>2. kept' \in [Replicas -> SoundDocs]
    BY <1>1, <1>7 DEF ReplicasInv, Copies
  <2>3. doc'[Host] \in SoundDocs
    BY <1>1, <1>7 DEF ReplicasInv, Copies, Replicas
  <2> QED BY <2>1, <2>2, <2>3 DEF Copies
<1>10. Posted'
  <2>1. outbox[Host] \in Seq(Envelopes) /\ outbox \in [Replicas -> Seq(Envelopes)]
    BY DEF ReplicasInv, Posted, Replicas
  <2>2. Without(outbox[Host], e.id) \in Seq(Envelopes)
    BY <2>1, WithoutIsPart
  <2>3. outbox' \in [Replicas -> Seq(Envelopes)]
    BY <1>1, <2>1, <2>2
  <2>4. up' \in [Replicas -> Seq(Envelopes)]
    BY <1>1, <1>2 DEF ReplicasInv, Posted
  <2> QED BY <2>3, <2>4 DEF Posted
<1>11. message \in [t : {"commit"}, id : OpIds, commit : Commits]
  BY <1>6
<1>12. \A g \in Guests : doc'[g] = doc[g]
  BY <1>1 DEF ReplicasInv, Copies, Replicas
<1> HIDE DEF message
<1>13. Deliveries' /\ Seated'
  BY <1>1, <1>11, <1>12, BroadcastIsSound
<1>14. Counts' /\ Stacks'
  BY <1>1 DEF ReplicasInv, Counts, Stacks
<1> QED BY <1>8, <1>9, <1>10, <1>13, <1>14 DEF ReplicasInv

\* Whoever hears a commit has a document to apply it to.
LEMMA HearStep ==
  ASSUME ReplicasInv, NEW g \in Guests, GuestHears(g)
  PROVE  ReplicasInv'
<1> DEFINE c == Head(down[g])
           next == ApplyCommit(doc[g], c.commit, c.id)
<1>1. /\ down[g] # <<>> /\ c.t = "commit"
      /\ doc' = [doc EXCEPT ![g] = ApplyCommit(@, c.commit, c.id)]
      /\ outbox' = [outbox EXCEPT ![g] = Without(@, c.id)]
      /\ kept' = [kept EXCEPT ![g] = doc'[g]]
      /\ down' = [down EXCEPT ![g] = Tail(@)]
      /\ UNCHANGED <<now, used, made, past, future, link, up, log, breaks>>
  BY DEF GuestHears
<1>2. g \in Replicas /\ g # Host
  BY DEF Replicas
<1>3. g \in link /\ doc[g] \in SoundDocs
  BY <1>1 DEF ReplicasInv, Seated
<1>4. c \in SoundDowns /\ Tail(down[g]) \in Seq(SoundDowns)
  <2>1. down[g] \in Seq(SoundDowns)
    BY DEF ReplicasInv, Deliveries
  <2> QED BY <1>1, <2>1
<1> HIDE DEF c
<1>5. c.id \in OpIds /\ c.commit \in Commits
  BY <1>1, <1>4 DEF SoundDowns
<1>6. next \in SoundDocs
  BY <1>3, <1>5, CommitIsSound
<1>7. doc' = [doc EXCEPT ![g] = next]
  BY <1>1
<1> HIDE DEF next
<1>8. doc'[g] = next /\ \A m \in Replicas : m # g => doc'[m] = doc[m]
  BY <1>2, <1>7 DEF ReplicasInv, Copies
<1>9. Copies'
  <2>1. doc' \in [Replicas -> SoundDocs \union {None}]
    BY <1>6, <1>7 DEF ReplicasInv, Copies
  <2>2. kept' \in [Replicas -> SoundDocs]
    BY <1>1, <1>6, <1>8 DEF ReplicasInv, Copies
  <2>3. doc'[Host] \in SoundDocs
    BY <1>2, <1>8 DEF ReplicasInv, Copies, Replicas
  <2> QED BY <2>1, <2>2, <2>3 DEF Copies
<1>10. Posted'
  <2>1. outbox[g] \in Seq(Envelopes) /\ outbox \in [Replicas -> Seq(Envelopes)]
    BY <1>2 DEF ReplicasInv, Posted
  <2>2. Without(outbox[g], c.id) \in Seq(Envelopes)
    BY <2>1, WithoutIsPart
  <2>3. outbox' \in [Replicas -> Seq(Envelopes)]
    BY <1>1, <2>1, <2>2
  <2> QED BY <1>1, <2>3 DEF ReplicasInv, Posted
<1>11. Deliveries'
  BY <1>1, <1>4 DEF ReplicasInv, Deliveries
<1>12. Seated'
  <2> SUFFICES ASSUME NEW h \in Guests
               PROVE  IF h \in link THEN doc'[h] \in SoundDocs \/ (down'[h] # <<>> /\ Head(down'[h]).t = "doc")
                                    ELSE down'[h] = <<>>
    BY <1>1 DEF Seated
  <2>1. CASE h = g
    BY <1>3, <1>6, <1>8, <2>1
  <2>2. CASE h # g
    <3>1. doc'[h] = doc[h]
      BY <1>8, <2>2 DEF Replicas
    <3>2. down'[h] = down[h]
      BY <1>1, <2>2 DEF ReplicasInv, Deliveries
    <3> QED BY <3>1, <3>2 DEF ReplicasInv, Seated
  <2> QED BY <2>1, <2>2
<1>13. Counts' /\ Stacks' /\ Recordings'
  BY <1>1 DEF ReplicasInv, Counts, Stacks, Recordings
<1> QED BY <1>9, <1>10, <1>11, <1>12, <1>13 DEF ReplicasInv

LEMMA AdoptStep ==
  ASSUME ReplicasInv, NEW g \in Guests, GuestAdopts(g)
  PROVE  ReplicasInv'
<1> DEFINE c == Head(down[g])
           next == ApplyAll(c.doc, OpsOf(outbox[g]), Clock(g))
<1>1. /\ down[g] # <<>> /\ c.t = "doc"
      /\ doc' = [doc EXCEPT ![g] = next]
      /\ kept' = [kept EXCEPT ![g] = Merge(@, doc'[g])]
      /\ up' = [up EXCEPT ![g] = @ \o outbox[g]]
      /\ down' = [down EXCEPT ![g] = Tail(@)]
      /\ now' = Later(now)
      /\ UNCHANGED <<used, made, past, future, outbox, link, log, breaks>>
  BY DEF GuestAdopts
<1>2. g \in Replicas /\ g # Host
  BY DEF Replicas
<1>3. g \in link
  BY <1>1 DEF ReplicasInv, Seated
<1>4. c \in SoundDowns /\ Tail(down[g]) \in Seq(SoundDowns)
  <2>1. down[g] \in Seq(SoundDowns)
    BY DEF ReplicasInv, Deliveries
  <2> QED BY <1>1, <2>1
<1> HIDE DEF c
<1>5. c.doc \in SoundDocs
  BY <1>1, <1>4 DEF SoundDowns
<1>6. outbox \in [Replicas -> Seq(Envelopes)] /\ outbox[g] \in Seq(Envelopes)
  BY <1>2 DEF ReplicasInv, Posted
<1>7. next \in SoundDocs
  <2>1. OpsOf(outbox[g]) \in Seq(OpTypes)
    BY <1>6, OpsOfIsOps
  <2> QED BY <1>2, <1>5, <2>1, Clocks, AppliesInOrder
<1> HIDE DEF next
<1>8. doc'[g] = next /\ \A m \in Replicas : m # g => doc'[m] = doc[m]
  BY <1>1, <1>2 DEF ReplicasInv, Copies
<1>9. Copies'
  <2>1. doc' \in [Replicas -> SoundDocs \union {None}]
    BY <1>1, <1>7 DEF ReplicasInv, Copies
  <2>2. kept[g] \in Docs /\ next \in Docs
    BY <1>2, <1>7 DEF ReplicasInv, Copies, SoundDocs
  <2>3. Merge(kept[g], doc'[g]) \in SoundDocs
    BY <1>8, <2>2, MergeIsSound
  <2>4. kept' \in [Replicas -> SoundDocs]
    BY <1>1, <2>3 DEF ReplicasInv, Copies
  <2>5. doc'[Host] \in SoundDocs
    BY <1>2, <1>8 DEF ReplicasInv, Copies, Replicas
  <2> QED BY <2>1, <2>4, <2>5 DEF Copies
<1>10. Posted'
  <2>1. up \in [Replicas -> Seq(Envelopes)] /\ up[g] \in Seq(Envelopes)
    BY <1>2 DEF ReplicasInv, Posted
  <2>2. up[g] \o outbox[g] \in Seq(Envelopes)
    BY <1>6, <2>1
  <2> QED BY <1>1, <1>6, <2>1, <2>2 DEF Posted
<1>11. Deliveries'
  BY <1>1, <1>4 DEF ReplicasInv, Deliveries
<1>12. Seated'
  <2> SUFFICES ASSUME NEW h \in Guests
               PROVE  IF h \in link THEN doc'[h] \in SoundDocs \/ (down'[h] # <<>> /\ Head(down'[h]).t = "doc")
                                    ELSE down'[h] = <<>>
    BY <1>1 DEF Seated
  <2>1. CASE h = g
    BY <1>3, <1>7, <1>8, <2>1
  <2>2. CASE h # g
    <3>1. doc'[h] = doc[h]
      BY <1>8, <2>2 DEF Replicas
    <3>2. down'[h] = down[h]
      BY <1>1, <2>2 DEF ReplicasInv, Deliveries
    <3> QED BY <3>1, <3>2 DEF ReplicasInv, Seated
  <2> QED BY <2>1, <2>2
<1>13. Counts'
  BY <1>1, <1>2, Clocks DEF ReplicasInv, Counts
<1>14. Stacks' /\ Recordings'
  BY <1>1 DEF ReplicasInv, Stacks, Recordings
<1> QED BY <1>9, <1>10, <1>11, <1>12, <1>13, <1>14 DEF ReplicasInv

LEMMA Replaced ==
  ASSUME NEW R, NEW S, NEW f \in [R -> S], NEW r, NEW x \in S
  PROVE  [f EXCEPT ![r] = x] \in [R -> S]
OBVIOUS

LEMMA NoneOf == ASSUME NEW S PROVE <<>> \in Seq(S)
OBVIOUS

LEMMA BreakStep ==
  ASSUME ReplicasInv, NEW g \in Guests, LinkBreaks(g)
  PROVE  ReplicasInv'
<1>1. /\ g \in link /\ breaks[g] < MaxBreaks
      /\ link' = link \ {g} /\ breaks' = [breaks EXCEPT ![g] = @ + 1]
      /\ doc' = [doc EXCEPT ![g] = None]
      /\ up' = [up EXCEPT ![g] = <<>>] /\ down' = [down EXCEPT ![g] = <<>>]
      /\ past' = [past EXCEPT ![g] = <<>>] /\ future' = [future EXCEPT ![g] = <<>>]
      /\ UNCHANGED <<now, used, made, kept, outbox, log>>
  BY DEF LinkBreaks
<1>2. g \in Replicas /\ g # Host
  BY DEF Replicas
<1>3. Counts'
  BY <1>1 DEF ReplicasInv, Counts
<1>4. Copies'
  BY <1>1, <1>2 DEF ReplicasInv, Copies, Replicas
<1>5. Posted' /\ Recordings'
  <2>1. up' \in [Replicas -> Seq(Envelopes)]
    BY <1>1, Replaced, NoneOf DEF ReplicasInv, Posted
  <2> QED BY <1>1, <2>1 DEF ReplicasInv, Posted, Recordings
<1>6. Deliveries'
  BY <1>1 DEF ReplicasInv, Deliveries
<1>7. Stacks'
  BY <1>1, Replaced, NoneOf DEF ReplicasInv, Stacks
<1>8. Seated'
  <2> SUFFICES ASSUME NEW h \in Guests
               PROVE  IF h \in link' THEN doc'[h] \in SoundDocs \/ (down'[h] # <<>> /\ Head(down'[h]).t = "doc")
                                     ELSE down'[h] = <<>>
    BY DEF Seated
  <2>1. CASE h = g
    BY <1>1, <2>1 DEF ReplicasInv, Deliveries
  <2>2. CASE h # g
    <3>1. doc'[h] = doc[h] /\ down'[h] = down[h] /\ (h \in link' <=> h \in link)
      BY <1>1, <2>2 DEF ReplicasInv, Deliveries, Copies, Replicas
    <3> QED BY <3>1 DEF ReplicasInv, Seated
  <2> QED BY <2>1, <2>2
<1> QED BY <1>3, <1>4, <1>5, <1>6, <1>7, <1>8 DEF ReplicasInv

LEMMA JoinStep ==
  ASSUME ReplicasInv, NEW g \in Guests, GuestJoins(g)
  PROVE  ReplicasInv'
<1> DEFINE snapshot == [t |-> "doc", doc |-> doc[Host]]
<1>1. /\ link' = link \union {g} /\ now' = Later(now)
      /\ down' = [down EXCEPT ![g] = <<snapshot>>]
      /\ UNCHANGED <<used, made, doc, kept, past, future, outbox, up, log, breaks>>
  BY DEF GuestJoins
<1>2. snapshot \in SoundDowns /\ snapshot.t = "doc"
  BY DEF SoundDowns, ReplicasInv, Copies
<1> HIDE DEF snapshot
<1>3. Counts'
  <2>1. Later(now) \in Nat
    BY Clocks DEF Replicas
  <2> QED BY <1>1, <2>1 DEF ReplicasInv, Counts
<1>4. Copies' /\ Posted' /\ Recordings' /\ Stacks'
  BY <1>1 DEF ReplicasInv, Copies, Posted, Recordings, Stacks
<1>5. <<snapshot>> \in Seq(SoundDowns) /\ <<snapshot>> # <<>> /\ Head(<<snapshot>>) = snapshot
  BY <1>2
<1>6. Deliveries'
  BY <1>1, <1>5 DEF ReplicasInv, Deliveries
<1>7. Seated'
  <2> SUFFICES ASSUME NEW h \in Guests
               PROVE  IF h \in link' THEN doc'[h] \in SoundDocs \/ (down'[h] # <<>> /\ Head(down'[h]).t = "doc")
                                     ELSE down'[h] = <<>>
    BY DEF Seated
  <2>1. CASE h = g
    BY <1>1, <1>2, <1>5, <2>1 DEF ReplicasInv, Deliveries
  <2>2. CASE h # g
    <3>1. doc'[h] = doc[h] /\ down'[h] = down[h] /\ (h \in link' <=> h \in link)
      BY <1>1, <2>2 DEF ReplicasInv, Deliveries
    <3> QED BY <3>1 DEF ReplicasInv, Seated
  <2> QED BY <2>1, <2>2
<1> QED BY <1>3, <1>4, <1>6, <1>7 DEF ReplicasInv

LEMMA ReplicasStep == ReplicasInv /\ [Next]_vars => ReplicasInv'
<1> SUFFICES ASSUME ReplicasInv, [Next]_vars PROVE ReplicasInv'
  OBVIOUS
<1>1. ASSUME NEW r \in Replicas, Posts(r) PROVE ReplicasInv'
  BY <1>1, PostStep
<1>2. ASSUME NEW r \in Replicas, HostCommits(r) PROVE ReplicasInv'
  BY <1>2, HostStep
<1>3. ASSUME NEW g \in Guests, GuestHears(g) PROVE ReplicasInv'
  BY <1>3, HearStep
<1>4. ASSUME NEW g \in Guests, GuestAdopts(g) PROVE ReplicasInv'
  BY <1>4, AdoptStep
<1>5. ASSUME NEW g \in Guests, LinkBreaks(g) PROVE ReplicasInv'
  BY <1>5, BreakStep
<1>6. ASSUME NEW g \in Guests, GuestJoins(g) PROVE ReplicasInv'
  BY <1>6, JoinStep
<1>7. CASE UNCHANGED vars
  BY <1>7 DEF vars, ReplicasInv, Counts, Copies, Posted, Recordings, Deliveries, Stacks, Seated
<1> QED BY <1>1, <1>2, <1>3, <1>4, <1>5, <1>6, <1>7 DEF Next

LEMMA ReplicasAlways == Spec => []ReplicasInv
<1> QED BY ReplicasBegin, ReplicasStep, PTL DEF Spec

-----------------------------------------------------------------------------
(* Types and tombstones *)

\* Whatever is posted, undone, merged, committed and lost in which order, every
\* document, operation and commit is well formed: no commit, for one, ever reaches
\* a guest that has nothing on screen to apply it to.
THEOREM ReplicasTypes == Spec => []TypeOK
<1>1. ReplicasInv => TypeOK
  <2> SUFFICES ASSUME ReplicasInv PROVE TypeOK
    OBVIOUS
  <2>1. SoundDocs \subseteq Docs
    BY DEF SoundDocs
  <2>2. \A x \in SoundDowns : x \in Downs
    BY <2>1 DEF SoundDowns, Downs
  <2>3. down \in [Guests -> Seq(Downs)]
    <3>1. ASSUME NEW g \in Guests PROVE down[g] \in Seq(Downs)
      <4>1. down[g] \in Seq(SoundDowns)
        BY DEF ReplicasInv, Deliveries
      <4> QED BY <2>2, <4>1
    <3>2. down = [g \in Guests |-> down[g]]
      BY DEF ReplicasInv, Deliveries
    <3> QED BY <3>1, <3>2
  <2>4. doc \in [Replicas -> Docs \union {None}] /\ kept \in [Replicas -> Docs]
    BY <2>1 DEF ReplicasInv, Copies
  <2> QED BY <2>3, <2>4 DEF TypeOK, ReplicasInv, Counts, Posted, Recordings, Stacks
<1> QED BY <1>1, ReplicasAlways, PTL

\* No document, on screen or in a file, shows a comment that it knows to be deleted,
\* nor a reply of one (applyReviewOp and mergeReview of lib/review.ts, applyCommit of
\* lib/review-delivery.ts): for any number of machines, comments, posts and
\* connections lost, with undo, redo and replays.
THEOREM TheDeletedStayHidden == Spec => []TombstonesHold
<1>1. ReplicasInv => TombstonesHold
  BY DEF ReplicasInv, Copies, TombstonesHold, SoundDocs, SoundDoc
<1> QED BY <1>1, ReplicasAlways, PTL

USE NoneAssumption

-----------------------------------------------------------------------------
(* What an operation and a commit do to one comment. *)

Hid(gone, back) == gone # 0 /\ back <= gone

\* The comment stays what it was, but for what op says of it.
Stays(e, d, op, i) ==
  /\ i \in Shown(e) <=> i \in Shown(d)
  /\ i \in Shown(d) =>
       /\ e.notes[i].back = d.notes[i].back
       /\ ~(op.t = "edit" /\ op.id = i) => e.notes[i].body = d.notes[i].body
       /\ ~(op.t = "resolve" /\ op.id = i) => e.notes[i].resolved = d.notes[i].resolved

Frame(e, d) == e.clock = d.clock /\ e.rev = d.rev /\ e.ops = d.ops

\* What a document with another note in the place of i is.
Noted(d, i, note) == [d EXCEPT !.notes[i] = note]

\* What the operations of review.ts do to each comment: only the one they name changes,
\* and only in what they say of it.
LEMMA NotedAt ==
  ASSUME NEW d \in Docs, NEW i \in Ids, NEW note, NEW e, e = Noted(d, i, note), NEW j \in Ids
  PROVE  /\ Frame(e, d) /\ e.gone = d.gone
         /\ e.notes[i] = note /\ (j # i => e.notes[j] = d.notes[j])
<1> DEFINE notes == [d.notes EXCEPT ![i] = note]
<1>1. e = [d EXCEPT !.notes = notes]
  BY DEF Noted
<1>2. notes[i] = note /\ (j # i => notes[j] = d.notes[j])
  BY DEF Docs
<1> HIDE DEF notes
<1>3. e.notes = notes /\ e.gone = d.gone /\ e.clock = d.clock /\ e.rev = d.rev /\ e.ops = d.ops
  BY <1>1 DEF Docs
<1> QED BY <1>2, <1>3 DEF Frame

LEMMA InsertedAt ==
  ASSUME NEW d \in Docs, NEW i \in Ids, NEW note \in Notes, NEW j \in Ids,
         NEW e, e = Insert(d, i, note)
  PROVE  /\ Frame(e, d) /\ e.gone = d.gone
         /\ j # i => e.notes[j] = d.notes[j]
         /\ i \in Shown(d) \/ Hid(GoneAt(d.gone, i), note.back) => e.notes[i] = d.notes[i]
         /\ ~(i \in Shown(d) \/ Hid(GoneAt(d.gone, i), note.back)) => e.notes[i] = note
<1> DEFINE closed == i \in Shown(d) \/ Hid(GoneAt(d.gone, i), note.back)
<1>1. ASSUME closed PROVE e = d
  BY <1>1 DEF Insert, Buried, Hid
<1>2. ASSUME ~closed PROVE e = Noted(d, i, note)
  BY <1>2 DEF Insert, Buried, Hid, Noted
<1>3. Frame(d, d)
  BY DEF Frame
<1> SUFFICES /\ Frame(e, d) /\ e.gone = d.gone /\ (j # i => e.notes[j] = d.notes[j])
             /\ closed => e.notes[i] = d.notes[i]
             /\ ~closed => e.notes[i] = note
  OBVIOUS
<1> HIDE DEF closed
<1> QED BY <1>1, <1>2, <1>3, NotedAt

\* The fields of a note that decide what is read of it.
Reads(a, b) == a.back = b.back /\ a.body = b.body /\ a.resolved = b.resolved /\ a.rev = b.rev

LEMMA EditAt ==
  ASSUME NEW d \in Docs, NEW i \in Ids, NEW body \in Bodies, NEW time \in Nat, NEW j \in Ids,
         NEW e, e = Edit(d, i, body, time)
  PROVE  /\ Frame(e, d) /\ e.gone = d.gone
         /\ j # i => e.notes[j] = d.notes[j]
         /\ i \in Shown(e) <=> i \in Shown(d)
         /\ i \in Shown(d) =>
              /\ e.notes[i].back = d.notes[i].back /\ e.notes[i].rev = d.notes[i].rev
              /\ e.notes[i].resolved = d.notes[i].resolved
              /\ d.notes[i].at = 0 /\ time > 0 => e.notes[i].body = body
<1>1. CASE i \notin Shown(d)
  <2>1. e = d
    BY <1>1 DEF Edit
  <2> QED BY <1>1, <2>1 DEF Frame
<1>2. CASE i \in Shown(d)
  <2>1. d.notes[i] \in Notes /\ d.notes[i].at \in Nat
    BY <1>2, DocIs, NoteIs
  <2> DEFINE note == [d.notes[i] EXCEPT !.body = body, !.at = time]
  <2>2. note \in Notes /\ note.back = d.notes[i].back /\ note.rev = d.notes[i].rev
        /\ note.resolved = d.notes[i].resolved /\ note.body = body
    BY <2>1 DEF Notes
  <2>3. \/ e = d /\ ~(d.notes[i].at = 0 /\ time > 0)
        \/ e = Noted(d, i, note)
    BY <1>2, <2>1 DEF Edit, Noted
  <2> HIDE DEF note
  <2>4. CASE e = d /\ ~(d.notes[i].at = 0 /\ time > 0)
    BY <2>4 DEF Frame
  <2>5. CASE e = Noted(d, i, note)
    <3>1. /\ Frame(e, d) /\ e.gone = d.gone /\ e.notes[i] = note /\ (j # i => e.notes[j] = d.notes[j])
      BY <2>5, NotedAt
    <3>2. i \in Shown(e)
      BY <2>2, <3>1 DEF Shown
    <3> QED BY <1>2, <2>2, <3>1, <3>2
  <2> QED BY <2>3, <2>4, <2>5
<1> QED BY <1>1, <1>2

LEMMA ResolveAt ==
  ASSUME NEW d \in Docs, NEW i \in Ids, NEW on \in BOOLEAN, NEW time \in Nat, NEW j \in Ids,
         NEW e, e = Resolve(d, i, on, time)
  PROVE  /\ Frame(e, d) /\ e.gone = d.gone
         /\ j # i => e.notes[j] = d.notes[j]
         /\ i \in Shown(e) <=> i \in Shown(d)
         /\ i \in Shown(d) =>
              /\ e.notes[i].back = d.notes[i].back /\ e.notes[i].rev = d.notes[i].rev
              /\ e.notes[i].body = d.notes[i].body
              /\ d.notes[i].at = 0 /\ time > 0 => e.notes[i].resolved = on
<1>1. CASE i \notin Shown(d)
  <2>1. e = d
    BY <1>1 DEF Resolve
  <2> QED BY <1>1, <2>1 DEF Frame
<1>2. CASE i \in Shown(d)
  <2>1. d.notes[i] \in Notes /\ d.notes[i].at \in Nat
    BY <1>2, DocIs, NoteIs
  <2> DEFINE note == [d.notes[i] EXCEPT !.resolved = on, !.at = time]
  <2>2. note \in Notes /\ note.back = d.notes[i].back /\ note.rev = d.notes[i].rev
        /\ note.body = d.notes[i].body /\ note.resolved = on
    BY <2>1 DEF Notes
  <2>3. \/ e = d /\ ~(d.notes[i].at = 0 /\ time > 0)
        \/ e = Noted(d, i, note)
    BY <1>2, <2>1 DEF Resolve, Noted
  <2> HIDE DEF note
  <2>4. CASE e = d /\ ~(d.notes[i].at = 0 /\ time > 0)
    BY <2>4 DEF Frame
  <2>5. CASE e = Noted(d, i, note)
    <3>1. /\ Frame(e, d) /\ e.gone = d.gone /\ e.notes[i] = note /\ (j # i => e.notes[j] = d.notes[j])
      BY <2>5, NotedAt
    <3>2. i \in Shown(e)
      BY <2>2, <3>1 DEF Shown
    <3> QED BY <1>2, <2>2, <3>1, <3>2
  <2> QED BY <2>3, <2>4, <2>5
<1> QED BY <1>1, <1>2

LEMMA LikedNote ==
  ASSUME NEW old \in Notes, NEW who \in Replicas, NEW on \in BOOLEAN, NEW time \in Nat,
         NEW note, note = LikeNote(old, who, on, time)
  PROVE  note \in Notes /\ Reads(note, old)
<1> DEFINE fans == IF on THEN old.fans \union {who} ELSE old.fans \ {who}
           heard == [old.heard EXCEPT ![who] = IF @ = None \/ time >= @.at
                                                 THEN [on |-> on, at |-> time] ELSE @]
<1>1. fans \in SUBSET Replicas
  BY NoteIs
<1>2. heard \in [Replicas -> {None} \union [on : BOOLEAN, at : Nat]]
  BY NoteIs
<1>3. note = old \/ note = [old EXCEPT !.fans = fans, !.heard = heard]
  BY Zenon DEF LikeNote
<1> HIDE DEF fans, heard
<1>4. [old EXCEPT !.fans = fans, !.heard = heard] \in Notes
  BY <1>1, <1>2 DEF Notes
<1>5. Reads([old EXCEPT !.fans = fans, !.heard = heard], old) /\ Reads(old, old)
  BY DEF Notes, Reads
<1> QED BY <1>3, <1>4, <1>5

LEMMA LikeAt ==
  ASSUME NEW d \in Docs, NEW i \in Ids, NEW who \in Replicas, NEW on \in BOOLEAN, NEW time \in Nat,
         NEW j \in Ids, NEW e, e = Like(d, i, who, on, time)
  PROVE  /\ Frame(e, d) /\ e.gone = d.gone
         /\ j # i => e.notes[j] = d.notes[j]
         /\ i \in Shown(e) <=> i \in Shown(d)
         /\ i \in Shown(d) => Reads(e.notes[i], d.notes[i])
<1>1. CASE i \notin Shown(d)
  <2>1. e = d
    BY <1>1 DEF Like
  <2> QED BY <1>1, <2>1 DEF Frame
<1>2. CASE i \in Shown(d)
  <2>1. d.notes[i] \in Notes
    BY <1>2, DocIs
  <2> DEFINE note == LikeNote(d.notes[i], who, on, time)
  <2>2. note \in Notes /\ Reads(note, d.notes[i])
    BY <2>1, LikedNote
  <2>3. e = Noted(d, i, note)
    BY <1>2 DEF Like, Docs, Noted
  <2> HIDE DEF note
  <2>4. /\ Frame(e, d) /\ e.gone = d.gone /\ e.notes[i] = note /\ (j # i => e.notes[j] = d.notes[j])
    BY <2>3, NotedAt
  <2>5. i \in Shown(e)
    BY <2>2, <2>4 DEF Shown
  <2> QED BY <1>2, <2>2, <2>4, <2>5
<1> QED BY <1>1, <1>2

\* A deletion is a tombstone for the comment and for its replies.
LEMMA DeleteAt ==
  ASSUME NEW d \in Docs, NEW i \in Ids, NEW time \in Nat, NEW j \in Ids, NEW e, e = Delete(d, i, time)
  PROVE  /\ Frame(e, d)
         /\ GoneAt(e.gone, j) = IF j = i \/ Parent[j] = i THEN Higher(GoneAt(d.gone, j), time)
                                                         ELSE GoneAt(d.gone, j)
         /\ e.notes[j] = IF /\ j = i \/ Parent[j] = i
                            /\ j \in Shown(d) /\ Hid(GoneAt(e.gone, j), d.notes[j].back)
                           THEN None ELSE d.notes[j]
<1> DEFINE gone == [k \in Ids |-> IF k \in Thread(d, i) THEN Higher(d.gone[k], time) ELSE d.gone[k]]
           notes == [k \in Ids |-> IF (k = i \/ Parent[k] = i) /\ k \in Shown(d)
                                        /\ Buried(gone, k, d.notes[k])
                                     THEN None ELSE d.notes[k]]
<1>1. e = [d EXCEPT !.gone = gone, !.notes = notes]
  BY DEF Delete
<1>2. \A k \in Ids : gone[k] = IF k \in Thread(d, i) THEN Higher(d.gone[k], time) ELSE d.gone[k]
  OBVIOUS
<1>3. notes[j] = IF (j = i \/ Parent[j] = i) /\ j \in Shown(d) /\ Buried(gone, j, d.notes[j])
                   THEN None ELSE d.notes[j]
  OBVIOUS
<1> HIDE DEF gone, notes
<1>4. e.notes = notes /\ e.gone = gone /\ Frame(e, d)
  BY <1>1 DEF Docs, Frame
<1>5. GoneAt(gone, j) = IF j = i \/ Parent[j] = i THEN Higher(GoneAt(d.gone, j), time) ELSE GoneAt(d.gone, j)
  <2>1. \A k \in Ids : d.gone[k] \in Nat
    BY DocIs
  <2>2. i \in Thread(d, i) /\ \A k \in Thread(d, i) : k = i \/ Parent[k] = i
    BY DEF Thread
  <2>3. CASE j = i
    <3>1. Parent[i] # None => Parent[i] \in Ids /\ Parent[i] \notin Thread(d, i)
      BY <2>2
    <3> QED BY <1>2, <2>1, <2>2, <2>3, <3>1 DEF GoneAt, Higher
  <2>4. CASE j # i /\ Parent[j] = i
    <3>1. gone[i] = Higher(d.gone[i], time) /\ (gone[j] = d.gone[j] \/ gone[j] = Higher(d.gone[j], time))
      BY <1>2, <2>2
    <3>2. Parent[j] # None
      BY <2>4
    <3> QED BY <2>1, <2>4, <3>1, <3>2 DEF GoneAt, Higher
  <2>5. CASE j # i /\ Parent[j] # i
    <3>1. gone[j] = d.gone[j]
      BY <1>2, <2>2, <2>5
    <3>2. Parent[j] # None => Parent[j] \in Ids /\ Parent[Parent[j]] = None
      OBVIOUS
    <3>3. Parent[j] # None => gone[Parent[j]] = d.gone[Parent[j]]
      BY <1>2, <2>2, <2>5, <3>2
    <3> QED BY <2>5, <3>1, <3>3 DEF GoneAt
  <2> QED BY <2>3, <2>4, <2>5
<1>6. Buried(gone, j, d.notes[j]) <=> Hid(GoneAt(e.gone, j), d.notes[j].back)
  BY <1>4 DEF Buried, Hid
<1> QED BY <1>3, <1>4, <1>5, <1>6

\* All operations in one statement: what is gone, and what is shown of one comment.
LEMMA ApplyAt ==
  ASSUME NEW d \in Docs, NEW op \in OpTypes, NEW t \in Nat, NEW i \in Ids, NEW e, e = Apply(d, op, t)
  PROVE  /\ Frame(e, d)
         /\ GoneAt(e.gone, i) = IF Deletes(op, i) THEN Higher(GoneAt(d.gone, i), Stamp(op, t))
                                                  ELSE GoneAt(d.gone, i)
         /\ Deletes(op, i) =>
              e.notes[i] = IF i \in Shown(d) /\ Hid(GoneAt(e.gone, i), d.notes[i].back) THEN None
                                                                                     ELSE d.notes[i]
         /\ op.t = "add" /\ op.id = i =>
              e.notes[i] = IF i \in Shown(d) \/ Hid(GoneAt(d.gone, i), op.note.back) THEN d.notes[i]
                                                                                     ELSE op.note
         /\ ~Concerns(op, i) =>
              /\ Stays(e, d, op, i)
              /\ i \in Shown(d) => e.notes[i].rev = d.notes[i].rev
              /\ i \in Shown(d) /\ d.notes[i].at = 0 /\ op.at > 0 /\ op.id = i =>
                   /\ op.t = "edit" => e.notes[i].body = op.body
                   /\ op.t = "resolve" => e.notes[i].resolved = op.on
         /\ op.id # i /\ ~Deletes(op, i) => e.notes[i] = d.notes[i]
<1>1. op.id \in Ids /\ op.at \in Nat /\ Stamp(op, t) \in Nat
  BY OpIs DEF Stamp
<1>2. e.notes[i] = d.notes[i] => Stays(e, d, op, i)
  BY DEF Stays, Shown
<1>3. CASE op.t = "add"
  <2>1. e = Insert(d, op.id, op.note) /\ op.note \in Notes
    BY <1>3, OpIs DEF Apply
  <2>2. /\ Frame(e, d) /\ e.gone = d.gone
        /\ i # op.id => e.notes[i] = d.notes[i]
        /\ op.id \in Shown(d) \/ Hid(GoneAt(d.gone, op.id), op.note.back) => e.notes[op.id] = d.notes[op.id]
        /\ ~(op.id \in Shown(d) \/ Hid(GoneAt(d.gone, op.id), op.note.back)) => e.notes[op.id] = op.note
    BY <1>1, <2>1, InsertedAt
  <2> QED BY <1>2, <1>3, <2>2 DEF Deletes, Concerns
<1>4. CASE op.t = "edit"
  <2>1. e = Edit(d, op.id, op.body, op.at) /\ op.body \in Bodies
    BY <1>4, OpIs DEF Apply
  <2>2. /\ Frame(e, d) /\ e.gone = d.gone
        /\ i # op.id => e.notes[i] = d.notes[i]
        /\ op.id \in Shown(e) <=> op.id \in Shown(d)
        /\ op.id \in Shown(d) =>
             /\ e.notes[op.id].back = d.notes[op.id].back /\ e.notes[op.id].rev = d.notes[op.id].rev
             /\ e.notes[op.id].resolved = d.notes[op.id].resolved
             /\ d.notes[op.id].at = 0 /\ op.at > 0 => e.notes[op.id].body = op.body
    <3> DEFINE k == op.id
               body == op.body
               time == op.at
    <3>1. k \in Ids /\ body \in Bodies /\ time \in Nat /\ e = Edit(d, k, body, time)
      BY <1>1, <2>1
    <3> HIDE DEF k, body, time
    <3>2. /\ Frame(e, d) /\ e.gone = d.gone
          /\ i # k => e.notes[i] = d.notes[i]
          /\ k \in Shown(e) <=> k \in Shown(d)
          /\ k \in Shown(d) =>
               /\ e.notes[k].back = d.notes[k].back /\ e.notes[k].rev = d.notes[k].rev
               /\ e.notes[k].resolved = d.notes[k].resolved
               /\ d.notes[k].at = 0 /\ time > 0 => e.notes[k].body = body
      BY <3>1, EditAt
    <3> QED BY <3>2 DEF k, body, time
  <2>3. Stays(e, d, op, i)
    BY <1>2, <1>4, <2>2 DEF Stays
  <2> QED BY <1>4, <2>2, <2>3 DEF Deletes
<1>5. CASE op.t = "resolve"
  <2>1. e = Resolve(d, op.id, op.on, op.at) /\ op.on \in BOOLEAN
    BY <1>5, OpIs DEF Apply
  <2>2. /\ Frame(e, d) /\ e.gone = d.gone
        /\ i # op.id => e.notes[i] = d.notes[i]
        /\ op.id \in Shown(e) <=> op.id \in Shown(d)
        /\ op.id \in Shown(d) =>
             /\ e.notes[op.id].back = d.notes[op.id].back /\ e.notes[op.id].rev = d.notes[op.id].rev
             /\ e.notes[op.id].body = d.notes[op.id].body
             /\ d.notes[op.id].at = 0 /\ op.at > 0 => e.notes[op.id].resolved = op.on
    BY <1>1, <2>1, ResolveAt
  <2>3. Stays(e, d, op, i)
    BY <1>2, <1>5, <2>2 DEF Stays
  <2> QED BY <1>5, <2>2, <2>3 DEF Deletes
<1>6. CASE op.t = "like"
  <2>1. e = Like(d, op.id, op.who, op.on, Stamp(op, t)) /\ op.who \in Replicas /\ op.on \in BOOLEAN
    BY <1>6, OpIs DEF Apply
  <2>2. /\ Frame(e, d) /\ e.gone = d.gone
        /\ i # op.id => e.notes[i] = d.notes[i]
        /\ op.id \in Shown(e) <=> op.id \in Shown(d)
        /\ op.id \in Shown(d) => Reads(e.notes[op.id], d.notes[op.id])
    BY <1>1, <2>1, LikeAt
  <2>3. Stays(e, d, op, i) /\ (i \in Shown(d) => e.notes[i].rev = d.notes[i].rev)
    BY <1>2, <2>2 DEF Stays, Reads
  <2> QED BY <1>6, <2>2, <2>3 DEF Deletes
<1>7. CASE op.t = "del"
  <2>1. e = Delete(d, op.id, Stamp(op, t))
    BY <1>7 DEF Apply
  <2>2. Deletes(op, i) <=> i = op.id \/ Parent[i] = op.id
    BY <1>7 DEF Deletes
  <2>3. /\ Frame(e, d)
        /\ GoneAt(e.gone, i) = IF Deletes(op, i) THEN Higher(GoneAt(d.gone, i), Stamp(op, t))
                                                 ELSE GoneAt(d.gone, i)
        /\ e.notes[i] = IF Deletes(op, i) /\ i \in Shown(d) /\ Hid(GoneAt(e.gone, i), d.notes[i].back)
                          THEN None ELSE d.notes[i]
    BY <1>1, <2>1, <2>2, DeleteAt
  <2> QED BY <1>2, <1>7, <2>3 DEF Concerns
<1> QED BY <1>3, <1>4, <1>5, <1>6, <1>7, OpIs

\* A commit has a time, and its operation carries the host's stamps.
Stamped(c) ==
  /\ c.clock > 0
  /\ c.op.t = "add" => c.op.note.rev = c.rev /\ c.op.note.back \in {0, c.clock}
  /\ c.op.t # "add" => c.op.at = c.clock

\* The same, but for the revision, as the document d in which op outranks i.
Forgets(d, c) ==
  IF c.op.id \notin Shown(d) THEN d
  ELSE IF c.op.t = "add" THEN [d EXCEPT !.notes[c.op.id] = None]
  ELSE [d EXCEPT !.notes[c.op.id].at = 0]

\* The first and the last thing a commit does, and the commit made of them.
LEMMA ForgetsAt ==
  ASSUME NEW d \in SoundDocs, NEW c \in Commits, NEW i \in Ids, NEW b, b = Forgets(d, c)
  PROVE  /\ b \in SoundDocs /\ Frame(b, d) /\ b.gone = d.gone
         /\ i # c.op.id => b.notes[i] = d.notes[i]
         /\ c.op.t = "add" => c.op.id \notin Shown(b)
         /\ c.op.t # "add" =>
              /\ c.op.id \in Shown(b) <=> c.op.id \in Shown(d)
              /\ c.op.id \in Shown(d) => /\ Reads(b.notes[c.op.id], d.notes[c.op.id])
                                         /\ b.notes[c.op.id].at = 0
<1> DEFINE k == c.op.id
<1>1. k \in Ids /\ d \in Docs
  BY OpIs DEF Commits, SoundDocs
<1>2. CASE k \notin Shown(d)
  <2>1. b = d
    BY <1>2 DEF Forgets
  <2> QED BY <1>1, <1>2, <2>1 DEF Frame
<1>3. CASE k \in Shown(d) /\ c.op.t = "add"
  <2>1. b = Noted(d, k, None)
    BY <1>3 DEF Forgets, Noted
  <2>2. b \in SoundDocs
    <3>1. b = [d EXCEPT !.notes[k] = None]
      BY <2>1 DEF Noted
    <3> HIDE DEF k
    <3> QED BY <1>1, <3>1, Hides
  <2>3. Frame(b, d) /\ b.gone = d.gone /\ b.notes[k] = None /\ (i # k => b.notes[i] = d.notes[i])
    <3> HIDE DEF k
    <3> QED BY <1>1, <2>1, NotedAt
  <2> QED BY <1>3, <2>2, <2>3 DEF Shown
<1>4. CASE k \in Shown(d) /\ c.op.t # "add"
  <2> DEFINE note == [d.notes[k] EXCEPT !.at = 0]
  <2>1. d.notes[k] \in Notes
    BY <1>1, <1>4, DocIs
  <2>2. note \in Notes /\ Reads(note, d.notes[k]) /\ note.at = 0 /\ note.back = d.notes[k].back
    BY <2>1 DEF Notes, Reads
  <2>3. b = Noted(d, k, note)
    BY <1>1, <1>4 DEF Forgets, Noted, Docs
  <2> HIDE DEF k, note
  <2>4. b \in SoundDocs
    <3>1. b = [d EXCEPT !.notes[k] = note]
      BY <2>3 DEF Noted
    <3> QED BY <1>4, <2>2, <3>1, Alters
  <2>5. Frame(b, d) /\ b.gone = d.gone /\ b.notes[k] = note /\ (i # k => b.notes[i] = d.notes[i])
    BY <1>1, <2>3, NotedAt
  <2>6. k \in Shown(b)
    BY <1>4, <2>2, <2>5 DEF Shown
  <2> QED BY <1>4, <2>2, <2>4, <2>5, <2>6 DEF k
<1> QED BY <1>2, <1>3, <1>4

\* The revision of what is shown of i is raised to that of the commit.
Ranks(n, c) ==
  IF c.op.id \in Shown(n) /\ n.notes[c.op.id].rev < c.rev THEN [n EXCEPT !.notes[c.op.id].rev = c.rev] ELSE n

LEMMA RanksAt ==
  ASSUME NEW n \in SoundDocs, NEW c \in Commits, NEW i \in Ids, NEW m, m = Ranks(n, c)
  PROVE  /\ m \in Docs /\ Frame(m, n) /\ m.gone = n.gone
         /\ i # c.op.id => m.notes[i] = n.notes[i]
         /\ i \in Shown(m) <=> i \in Shown(n)
         /\ i \in Shown(n) => /\ m.notes[i].back = n.notes[i].back /\ m.notes[i].body = n.notes[i].body
                              /\ m.notes[i].resolved = n.notes[i].resolved
                              /\ m.notes[i].rev \in {n.notes[i].rev, c.rev}
         /\ i \in Shown(n) /\ n.notes[i].rev = c.rev => m.notes[i] = n.notes[i]
         /\ i \in Shown(n) /\ i = c.op.id /\ n.notes[i].rev < c.rev => m.notes[i].rev = c.rev
<1> DEFINE k == c.op.id
<1>1. k \in Ids /\ c.rev \in Nat /\ n \in Docs
  BY OpIs DEF Commits, SoundDocs
<1>2. CASE ~(k \in Shown(n) /\ n.notes[k].rev < c.rev)
  <2>1. m = n
    BY <1>2 DEF Ranks
  <2>2. ~(i \in Shown(n) /\ i = c.op.id /\ n.notes[i].rev < c.rev)
    BY <1>2
  <2> QED BY <1>1, <2>1, <2>2 DEF Frame
<1>3. CASE k \in Shown(n) /\ n.notes[k].rev < c.rev
  <2> DEFINE note == [n.notes[k] EXCEPT !.rev = c.rev]
  <2>1. n.notes[k] \in Notes
    BY <1>1, <1>3, DocIs
  <2>2. /\ note \in Notes /\ note.back = n.notes[k].back /\ note.body = n.notes[k].body
        /\ note.resolved = n.notes[k].resolved /\ note.rev = c.rev
    BY <1>1, <2>1 DEF Notes
  <2>3. m = Noted(n, k, note)
    BY <1>1, <1>3 DEF Ranks, Noted, Docs
  <2>a. n.notes[k].rev # c.rev
    BY <1>1, <1>3, <2>1, NoteIs
  <2> HIDE DEF k, note
  <2>4. m \in SoundDocs /\ m \in Docs
    <3>1. m = [n EXCEPT !.notes[k] = note]
      BY <2>3 DEF Noted
    <3> QED BY <1>3, <2>2, <3>1, Alters DEF SoundDocs
  <2>5. Frame(m, n) /\ m.gone = n.gone /\ m.notes[k] = note /\ (i # k => m.notes[i] = n.notes[i])
    BY <1>1, <2>3, NotedAt
  <2>6. k \in Shown(m)
    BY <1>3, <2>2, <2>5 DEF Shown
  <2>7. i # k => (i \in Shown(m) <=> i \in Shown(n))
    BY <2>5 DEF Shown
  <2> QED BY <1>3, <2>2, <2>4, <2>5, <2>6, <2>7, <2>a DEF k
<1> QED BY <1>2, <1>3

LEMMA CommitIs ==
  ASSUME NEW d \in SoundDocs, NEW c \in Commits, NEW opid \in OpIds, opid \notin d.ops,
         c.op.id \in Shown(d) => d.notes[c.op.id].rev < c.rev
  PROVE  ApplyCommit(d, c, opid) =
           LET m == Ranks(Apply(Forgets(d, c), c.op, c.clock), c)
           IN [m EXCEPT !.rev = Higher(@, c.rev), !.clock = Higher(@, c.clock), !.ops = @ \union {opid}]
<1> DEFINE i == c.op.id
           known == i \in Shown(d)
           outranks == known /\ d.notes[i].rev < c.rev
           base == IF ~outranks THEN d
                   ELSE IF c.op.t = "add" THEN [d EXCEPT !.notes[i] = None]
                   ELSE [d EXCEPT !.notes[i].at = 0]
           next == IF known /\ ~outranks THEN d ELSE Apply(base, c.op, c.clock)
           ranked == IF i \in Shown(next) /\ next.notes[i].rev < c.rev
                       THEN [next EXCEPT !.notes[i].rev = c.rev] ELSE next
           e == [ranked EXCEPT !.rev = Higher(@, c.rev), !.clock = Higher(@, c.clock),
                               !.ops = @ \union {opid}]
<1>1. ApplyCommit(d, c, opid) = e
  BY DEF ApplyCommit, e, ranked, next, base
<1>2. known <=> outranks
  OBVIOUS
<1>3. base = Forgets(d, c)
  BY <1>2, Zenon DEF Forgets
<1> HIDE DEF base
<1>4. next = Apply(base, c.op, c.clock)
  BY <1>2
<1> HIDE DEF next
<1>5. ranked = Ranks(next, c)
  BY Zenon DEF Ranks
<1> HIDE DEF ranked
<1> QED BY <1>1, <1>3, <1>4, <1>5

\* The comment that a commit is about gets its revision, the others keep theirs.
Ranked(e, d, c, i) == e.notes[i].rev = IF i = c.op.id THEN c.rev ELSE d.notes[i].rev

\* What a commit makes of comment i when it outranks what is shown of its own.
LEMMA CommitAt ==
  ASSUME NEW d \in SoundDocs, NEW c \in Commits, NEW opid \in OpIds, opid \notin d.ops, Stamped(c),
         c.op.id \in Shown(d) => d.notes[c.op.id].rev < c.rev,
         NEW i \in Ids, NEW e, e = ApplyCommit(d, c, opid)
  PROVE  /\ e.clock = Higher(d.clock, c.clock) /\ e.rev = Higher(d.rev, c.rev) /\ e.ops = d.ops \union {opid}
         /\ GoneAt(e.gone, i) = IF Deletes(c.op, i) THEN Higher(GoneAt(d.gone, i), c.clock)
                                                    ELSE GoneAt(d.gone, i)
         /\ Deletes(c.op, i) =>
              /\ i \in Shown(e) <=> i \in Shown(d) /\ ~Hid(GoneAt(e.gone, i), d.notes[i].back)
              /\ i \in Shown(e) => /\ e.notes[i].back = d.notes[i].back /\ e.notes[i].body = d.notes[i].body
                                   /\ e.notes[i].resolved = d.notes[i].resolved
                                   /\ e.notes[i].rev \in {d.notes[i].rev, c.rev}
         /\ c.op.t = "add" /\ c.op.id = i =>
              /\ i \in Shown(e) <=> ~Hid(GoneAt(d.gone, i), c.op.note.back)
              /\ i \in Shown(e) => e.notes[i] = c.op.note
         /\ ~Concerns(c.op, i) =>
              /\ Stays(e, d, c.op, i)
              /\ i \in Shown(d) => e.notes[i].rev \in {d.notes[i].rev, c.rev} /\ Ranked(e, d, c, i)
              /\ i \in Shown(d) /\ c.op.id = i =>
                   /\ c.op.t = "edit" => e.notes[i].body = c.op.body
                   /\ c.op.t = "resolve" => e.notes[i].resolved = c.op.on
<1> DEFINE b == Forgets(d, c)
           n == Apply(b, c.op, c.clock)
           m == Ranks(n, c)
<1>0. c.op \in OpTypes /\ c.clock \in Nat /\ c.rev \in Nat /\ c.op.id \in Ids /\ c.op.at \in Nat
  BY OpIs DEF Commits
<1>1. /\ b \in SoundDocs /\ Frame(b, d) /\ b.gone = d.gone
      /\ i # c.op.id => b.notes[i] = d.notes[i]
      /\ c.op.t = "add" => c.op.id \notin Shown(b)
      /\ c.op.t # "add" =>
           /\ c.op.id \in Shown(b) <=> c.op.id \in Shown(d)
           /\ c.op.id \in Shown(d) => /\ Reads(b.notes[c.op.id], d.notes[c.op.id])
                                      /\ b.notes[c.op.id].at = 0
  BY ForgetsAt
<1>2. e = [m EXCEPT !.rev = Higher(@, c.rev), !.clock = Higher(@, c.clock), !.ops = @ \union {opid}]
  BY CommitIs
<1> HIDE DEF b
<1>3. n \in SoundDocs
  BY <1>0, <1>1, ApplyIsSound
<1>4. Deletes(c.op, i) => Stamp(c.op, c.clock) = c.clock
  BY DEF Stamped, Deletes, Stamp
<1>5. /\ Frame(n, b)
      /\ GoneAt(n.gone, i) = IF Deletes(c.op, i) THEN Higher(GoneAt(b.gone, i), c.clock)
                                                 ELSE GoneAt(b.gone, i)
      /\ Deletes(c.op, i) =>
           n.notes[i] = IF i \in Shown(b) /\ Hid(GoneAt(n.gone, i), b.notes[i].back) THEN None
                                                                                  ELSE b.notes[i]
      /\ c.op.t = "add" /\ c.op.id = i =>
           n.notes[i] = IF i \in Shown(b) \/ Hid(GoneAt(b.gone, i), c.op.note.back) THEN b.notes[i]
                                                                                  ELSE c.op.note
      /\ ~Concerns(c.op, i) =>
           /\ Stays(n, b, c.op, i)
           /\ i \in Shown(b) => n.notes[i].rev = b.notes[i].rev
           /\ i \in Shown(b) /\ b.notes[i].at = 0 /\ c.op.at > 0 /\ c.op.id = i =>
                /\ c.op.t = "edit" => n.notes[i].body = c.op.body
                /\ c.op.t = "resolve" => n.notes[i].resolved = c.op.on
      /\ c.op.id # i /\ ~Deletes(c.op, i) => n.notes[i] = b.notes[i]
  <2>1. b \in Docs
    BY <1>1 DEF SoundDocs
  <2> HIDE DEF n
  <2>2. n = Apply(b, c.op, c.clock)
    BY DEF n
  <2> QED BY <1>0, <1>4, <2>1, <2>2, ApplyAt
<1> HIDE DEF n
<1>6. /\ m \in Docs /\ Frame(m, n) /\ m.gone = n.gone
      /\ i # c.op.id => m.notes[i] = n.notes[i]
      /\ i \in Shown(m) <=> i \in Shown(n)
      /\ i \in Shown(n) => /\ m.notes[i].back = n.notes[i].back /\ m.notes[i].body = n.notes[i].body
                           /\ m.notes[i].resolved = n.notes[i].resolved
                           /\ m.notes[i].rev \in {n.notes[i].rev, c.rev}
      /\ i \in Shown(n) /\ n.notes[i].rev = c.rev => m.notes[i] = n.notes[i]
      /\ i \in Shown(n) /\ i = c.op.id /\ n.notes[i].rev < c.rev => m.notes[i].rev = c.rev
  BY <1>3, RanksAt
<1> HIDE DEF m
<1>7. /\ e.notes = m.notes /\ e.gone = m.gone /\ e.clock = Higher(m.clock, c.clock)
      /\ e.rev = Higher(m.rev, c.rev) /\ e.ops = m.ops \union {opid}
  BY <1>2, <1>6 DEF Docs
<1>8. Shown(e) = Shown(m)
  BY <1>7 DEF Shown
<1>9. m.clock = d.clock /\ m.rev = d.rev /\ m.ops = d.ops
  BY <1>1, <1>5, <1>6 DEF Frame
<1>10. GoneAt(e.gone, i) = GoneAt(n.gone, i) /\ GoneAt(b.gone, i) = GoneAt(d.gone, i)
  BY <1>1, <1>6, <1>7
<1>11. c.op.t # "add" \/ c.op.id # i =>
         /\ i \in Shown(b) <=> i \in Shown(d)
         /\ i \in Shown(d) => Reads(b.notes[i], d.notes[i])
         /\ i \in Shown(d) /\ c.op.id = i => b.notes[i].at = 0
  BY <1>1 DEF Reads, Shown
<1>12. ASSUME Deletes(c.op, i)
       PROVE  /\ i \in Shown(e) <=> i \in Shown(d) /\ ~Hid(GoneAt(e.gone, i), d.notes[i].back)
              /\ i \in Shown(e) => /\ e.notes[i].back = d.notes[i].back /\ e.notes[i].body = d.notes[i].body
                                   /\ e.notes[i].resolved = d.notes[i].resolved
                                   /\ e.notes[i].rev \in {d.notes[i].rev, c.rev}
  <2>1. c.op.t # "add"
    BY <1>12 DEF Deletes
  <2>2. i \in Shown(d) => b.notes[i].back = d.notes[i].back
    BY <1>11, <2>1 DEF Reads
  <2>3. i \in Shown(n) <=> i \in Shown(d) /\ ~Hid(GoneAt(e.gone, i), d.notes[i].back)
    BY <1>5, <1>10, <1>11, <1>12, <2>1, <2>2 DEF Shown
  <2>4. i \in Shown(n) => n.notes[i] = b.notes[i]
    BY <1>5, <1>12 DEF Shown
  <2> QED BY <1>6, <1>7, <1>8, <1>11, <2>1, <2>3, <2>4 DEF Reads
<1>13. ASSUME c.op.t = "add", c.op.id = i
       PROVE  /\ i \in Shown(e) <=> ~Hid(GoneAt(d.gone, i), c.op.note.back)
              /\ i \in Shown(e) => e.notes[i] = c.op.note
  <2>1. c.op.note \in Notes /\ c.op.note.rev = c.rev
    BY <1>0, <1>13, OpIs DEF Stamped
  <2>2. i \in Shown(n) <=> ~Hid(GoneAt(d.gone, i), c.op.note.back)
    BY <1>1, <1>5, <1>10, <1>13, <2>1 DEF Shown
  <2>3. i \in Shown(n) => n.notes[i] = c.op.note
    BY <1>1, <1>5, <1>10, <1>13, <2>1, <2>2
  <2> QED BY <1>6, <1>7, <1>8, <2>1, <2>2, <2>3
<1>14. ASSUME ~Concerns(c.op, i)
       PROVE  /\ Stays(e, d, c.op, i)
              /\ i \in Shown(d) => e.notes[i].rev \in {d.notes[i].rev, c.rev} /\ Ranked(e, d, c, i)
              /\ i \in Shown(d) /\ c.op.id = i =>
                   /\ c.op.t = "edit" => e.notes[i].body = c.op.body
                   /\ c.op.t = "resolve" => e.notes[i].resolved = c.op.on
  <2>1. c.op.t # "add" \/ c.op.id # i
    BY <1>14 DEF Concerns
  <2>2. /\ Stays(n, b, c.op, i)
        /\ i \in Shown(b) => n.notes[i].rev = b.notes[i].rev
        /\ i \in Shown(b) /\ b.notes[i].at = 0 /\ c.op.at > 0 /\ c.op.id = i =>
             /\ c.op.t = "edit" => n.notes[i].body = c.op.body
             /\ c.op.t = "resolve" => n.notes[i].resolved = c.op.on
    BY <1>5, <1>14
  <2>3. i \in Shown(n) <=> i \in Shown(d)
    BY <1>11, <2>1, <2>2 DEF Stays
  <2>4. c.op.id = i => c.op.at > 0
    BY <2>1 DEF Stamped
  <2>5. Stays(e, d, c.op, i)
    BY <1>6, <1>7, <1>8, <1>11, <2>1, <2>2, <2>3 DEF Stays, Reads
  <2>6. i \in Shown(d) => e.notes[i].rev \in {d.notes[i].rev, c.rev}
    BY <1>6, <1>7, <1>11, <2>1, <2>2, <2>3 DEF Reads
  <2>7. i \in Shown(d) /\ c.op.id = i =>
          /\ c.op.t = "edit" => e.notes[i].body = c.op.body
          /\ c.op.t = "resolve" => e.notes[i].resolved = c.op.on
    BY <1>6, <1>7, <1>11, <2>1, <2>2, <2>3, <2>4
  <2>8. i \in Shown(d) => Ranked(e, d, c, i)
    <3> SUFFICES ASSUME i \in Shown(d) PROVE Ranked(e, d, c, i)
      OBVIOUS
    <3>1. i \in Shown(n) /\ n.notes[i].rev = d.notes[i].rev /\ e.notes[i].rev = m.notes[i].rev
      BY <1>7, <1>11, <2>1, <2>2, <2>3 DEF Reads
    <3>2. i = c.op.id => e.notes[i].rev = c.rev
      BY <1>6, <3>1
    <3>3. i # c.op.id => e.notes[i].rev = d.notes[i].rev
      BY <1>6, <3>1
    <3> QED BY <3>2, <3>3 DEF Ranked
  <2> QED BY <2>5, <2>6, <2>7, <2>8
<1> QED BY <1>5, <1>7, <1>9, <1>10, <1>12, <1>13, <1>14

\* The merge shows what one of the two shows, unless the tombstones of both hide it.
LEMMA MergeAt ==
  ASSUME NEW local \in Docs, NEW incoming \in Docs, NEW i \in Ids, NEW e, e = Merge(local, incoming)
  PROVE  /\ e.clock = Higher(local.clock, incoming.clock) /\ e.rev = Higher(local.rev, incoming.rev)
         /\ e.ops = local.ops \union incoming.ops
         /\ GoneAt(e.gone, i) = Higher(GoneAt(local.gone, i), GoneAt(incoming.gone, i))
         /\ i \notin Shown(local) /\ i \notin Shown(incoming) => i \notin Shown(e)
         /\ i \in Shown(local) \/ i \in Shown(incoming) =>
              \E x \in {local, incoming} :
                /\ i \in Shown(x)
                /\ i \in Shown(e) <=> ~Hid(GoneAt(e.gone, i), x.notes[i].back)
                /\ i \in Shown(e) => Reads(e.notes[i], x.notes[i])
<1> DEFINE gone == [j \in Ids |-> Higher(local.gone[j], incoming.gone[j])]
           both(j) == IF j \notin Shown(incoming) THEN local.notes[j]
                      ELSE IF j \notin Shown(local) THEN incoming.notes[j]
                      ELSE MergeNote(incoming.notes[j], local.notes[j])
           notes == [j \in Ids |-> IF both(j) # None /\ Buried(gone, j, both(j)) THEN None ELSE both(j)]
<1>1. e = [notes |-> notes, gone |-> gone, clock |-> Higher(local.clock, incoming.clock),
           rev |-> Higher(local.rev, incoming.rev), ops |-> local.ops \union incoming.ops]
  BY DEF Merge
<1>2. \A j \in Ids : gone[j] = Higher(local.gone[j], incoming.gone[j])
  OBVIOUS
<1>3. notes[i] = IF both(i) # None /\ Buried(gone, i, both(i)) THEN None ELSE both(i)
  OBVIOUS
<1> HIDE DEF gone, notes
<1>4. e.notes = notes /\ e.gone = gone /\ e.clock = Higher(local.clock, incoming.clock)
      /\ e.rev = Higher(local.rev, incoming.rev) /\ e.ops = local.ops \union incoming.ops
  BY <1>1
<1>5. GoneAt(gone, i) = Higher(GoneAt(local.gone, i), GoneAt(incoming.gone, i))
  <2>1. \A j \in Ids : local.gone[j] \in Nat /\ incoming.gone[j] \in Nat
    BY DocIs
  <2>2. Parent[i] # None => Parent[i] \in Ids
    OBVIOUS
  <2>3. CASE Parent[i] = None
    BY <1>2, <2>1, <2>3 DEF GoneAt, Higher
  <2>4. CASE Parent[i] # None
    <3>1. gone[i] = Higher(local.gone[i], incoming.gone[i])
          /\ gone[Parent[i]] = Higher(local.gone[Parent[i]], incoming.gone[Parent[i]])
      BY <1>2, <2>2, <2>4
    <3> QED BY <2>1, <2>2, <2>4, <3>1 DEF GoneAt, Higher
  <2> QED BY <2>3, <2>4
<1>6. ASSUME i \in Shown(local) \/ i \in Shown(incoming)
      PROVE  \E x \in {local, incoming} : i \in Shown(x) /\ Reads(both(i), x.notes[i]) /\ both(i) # None
  <2>1. CASE i \notin Shown(incoming)
    <3>1. both(i) = local.notes[i] /\ i \in Shown(local)
      BY <1>6, <2>1
    <3> QED BY <3>1 DEF Reads, Shown
  <2>2. CASE i \in Shown(incoming) /\ i \notin Shown(local)
    <3>1. both(i) = incoming.notes[i]
      BY <2>2
    <3> QED BY <2>2, <3>1 DEF Reads, Shown
  <2>3. CASE i \in Shown(incoming) /\ i \in Shown(local)
    <3> DEFINE a == incoming.notes[i]
               b == local.notes[i]
    <3>1. a \in Notes /\ b \in Notes
      BY <2>3, DocIs
    <3>2. both(i) = MergeNote(a, b)
      BY <2>3
    <3>3. MergeNote(a, b) \in Notes
      <4> HIDE DEF a, b
      <4> QED BY <3>1, MergedNote
    <3>4. Reads(MergeNote(a, b), a) \/ Reads(MergeNote(a, b), b)
      <4> HIDE DEF a, b
      <4> DEFINE newer == \/ b.rev > a.rev
                          \/ b.rev = a.rev /\ b.back > a.back
                          \/ b.rev = a.rev /\ b.back = a.back /\ b.at > a.at
                 heard == [r \in Replicas |-> Newer(a.heard[r], b.heard[r])]
                 fans == {r \in Replicas : IF heard[r] = None THEN r \in a.fans \union b.fans
                                                              ELSE heard[r].on}
                 winner == IF newer THEN b ELSE a
      <4>1. MergeNote(a, b) = [winner EXCEPT !.fans = fans, !.heard = heard]
        BY Zenon DEF MergeNote
      <4>2. winner = a \/ winner = b
        OBVIOUS
      <4> HIDE DEF fans, heard, winner
      <4>3. Reads([winner EXCEPT !.fans = fans, !.heard = heard], winner)
        BY <3>1, <4>2 DEF Notes, Reads
      <4> QED BY <4>1, <4>2, <4>3
    <3> QED BY <2>3, <3>2, <3>3, <3>4
  <2> QED BY <1>6, <2>1, <2>2, <2>3
<1>7. i \notin Shown(local) /\ i \notin Shown(incoming) => both(i) = None
  BY DEF Shown
<1> HIDE DEF both
<1>8. ASSUME i \in Shown(local) \/ i \in Shown(incoming)
      PROVE  \E x \in {local, incoming} :
               /\ i \in Shown(x)
               /\ i \in Shown(e) <=> ~Hid(GoneAt(e.gone, i), x.notes[i].back)
               /\ i \in Shown(e) => Reads(e.notes[i], x.notes[i])
  <2>1. PICK x \in {local, incoming} : i \in Shown(x) /\ Reads(both(i), x.notes[i]) /\ both(i) # None
    BY <1>6, <1>8
  <2>2. Buried(gone, i, both(i)) <=> Hid(GoneAt(e.gone, i), x.notes[i].back)
    BY <1>4, <2>1 DEF Buried, Hid, Reads
  <2>3. i \in Shown(e) <=> ~Hid(GoneAt(e.gone, i), x.notes[i].back)
    BY <1>3, <1>4, <2>1, <2>2 DEF Shown
  <2>4. i \in Shown(e) => e.notes[i] = both(i)
    BY <1>3, <1>4 DEF Shown
  <2> QED BY <2>1, <2>3, <2>4
<1>9. i \notin Shown(local) /\ i \notin Shown(incoming) => i \notin Shown(e)
  BY <1>3, <1>4, <1>7 DEF Shown
<1> QED BY <1>4, <1>5, <1>8, <1>9

-----------------------------------------------------------------------------
(* A document next to the one that has only the commits (s), as far as the
   operations X that are still without an answer allow. *)

Has(X, t, i) == \E op \in X : op.t = t /\ op.id = i
HasDel(X, i) == \E op \in X : Deletes(op, i)
HasWord(X, i) == \E op \in X : Concerns(op, i)

SameReading(d, s, X, i) ==
  /\ i \in Shown(d) <=> i \in Shown(s)
  /\ i \in Shown(d) =>
       /\ d.notes[i].back = s.notes[i].back /\ d.notes[i].rev = s.notes[i].rev
       /\ ~Has(X, "edit", i) => d.notes[i].body = s.notes[i].body
       /\ ~Has(X, "resolve", i) => d.notes[i].resolved = s.notes[i].resolved

Match(d, s, X, i) ==
  /\ Frame(d, s)
  /\ ~HasDel(X, i) => GoneAt(d.gone, i) = GoneAt(s.gone, i)
  /\ i \in Shown(d) => d.notes[i].rev <= d.rev
  /\ i \in Shown(d) /\ ~Has(X, "add", i) => d.notes[i].back <= d.clock
  /\ ~HasWord(X, i) => SameReading(d, s, X, i)

\* The committed document has no time and no revision from its future.
Past(s, i) ==
  /\ GoneAt(s.gone, i) <= s.clock
  /\ i \in Shown(s) => s.notes[i].back <= s.clock /\ s.notes[i].rev <= s.rev

LEMMA WordIs ==
  ASSUME NEW X, NEW i, ~HasWord(X, i)
  PROVE  ~HasDel(X, i) /\ ~Has(X, "add", i)
BY DEF HasWord, HasDel, Has, Concerns

\* More operations without an answer allow more.
LEMMA MatchMore ==
  ASSUME NEW d, NEW s, NEW X, NEW Y, X \subseteq Y, NEW i, Match(d, s, X, i)
  PROVE  Match(d, s, Y, i)
<1>1. (HasDel(X, i) => HasDel(Y, i)) /\ (HasWord(X, i) => HasWord(Y, i))
      /\ \A t : Has(X, t, i) => Has(Y, t, i)
  BY DEF HasDel, HasWord, Has
<1> QED BY <1>1 DEF Match, SameReading

LEMMA MatchItself ==
  ASSUME NEW s, NEW i, Past(s, i)
  PROVE  Match(s, s, {}, i)
BY DEF Match, SameReading, Past, Frame

\* A machine does one of its own operations.
LEMMA MatchApply ==
  ASSUME NEW d \in Docs, NEW s \in Docs, NEW X, NEW i \in Ids, NEW op \in OpTypes, op \in X, NEW t \in Nat,
         Match(d, s, X, i), op.t = "add" => op.note.rev <= d.rev
  PROVE  Match(Apply(d, op, t), s, X, i)
<1> DEFINE e == Apply(d, op, t)
<1>1. /\ Frame(e, d)
      /\ GoneAt(e.gone, i) = IF Deletes(op, i) THEN Higher(GoneAt(d.gone, i), Stamp(op, t))
                                               ELSE GoneAt(d.gone, i)
      /\ Deletes(op, i) =>
           e.notes[i] = IF i \in Shown(d) /\ Hid(GoneAt(e.gone, i), d.notes[i].back) THEN None
                                                                                  ELSE d.notes[i]
      /\ op.t = "add" /\ op.id = i =>
           e.notes[i] = IF i \in Shown(d) \/ Hid(GoneAt(d.gone, i), op.note.back) THEN d.notes[i]
                                                                                  ELSE op.note
      /\ ~Concerns(op, i) =>
           /\ Stays(e, d, op, i)
           /\ i \in Shown(d) => e.notes[i].rev = d.notes[i].rev
  BY ApplyAt
<1> HIDE DEF e
<1>2. Frame(e, s)
  BY <1>1 DEF Frame, Match
<1>3. ~HasDel(X, i) => GoneAt(e.gone, i) = GoneAt(s.gone, i)
  BY <1>1 DEF Match, HasDel
<1>4. i \in Shown(e) => e.notes[i].rev <= e.rev
  <2>1. e.rev = d.rev /\ (i \in Shown(d) => d.notes[i].rev <= d.rev)
    BY <1>1 DEF Frame, Match
  <2> QED BY <1>1, <2>1 DEF Stays, Concerns, Shown
<1>5. i \in Shown(e) /\ ~Has(X, "add", i) => e.notes[i].back <= e.clock
  <2>1. e.clock = d.clock /\ (i \in Shown(d) /\ ~Has(X, "add", i) => d.notes[i].back <= d.clock)
    BY <1>1 DEF Frame, Match
  <2>2. ~Has(X, "add", i) => ~(op.t = "add" /\ op.id = i)
    BY DEF Has
  <2> QED BY <1>1, <2>1, <2>2 DEF Stays, Concerns, Shown
<1>6. ~HasWord(X, i) => SameReading(e, s, X, i)
  <2> SUFFICES ASSUME ~HasWord(X, i) PROVE SameReading(e, s, X, i)
    OBVIOUS
  <2>1. Stays(e, d, op, i) /\ SameReading(d, s, X, i)
    BY <1>1 DEF HasWord, Match
  <2>2. /\ ~Has(X, "edit", i) => ~(op.t = "edit" /\ op.id = i)
        /\ ~Has(X, "resolve", i) => ~(op.t = "resolve" /\ op.id = i)
    BY DEF Has
  <2>3. i \in Shown(d) => e.notes[i].rev = d.notes[i].rev
    BY <1>1 DEF HasWord
  <2> QED BY <2>1, <2>2, <2>3 DEF Stays, SameReading
<1> QED BY <1>2, <1>3, <1>4, <1>5, <1>6 DEF Match, e

\* Two documents that match the same one have a merge that does.
LEMMA MatchMerge ==
  ASSUME NEW a \in Docs, NEW b \in Docs, NEW s \in SoundDocs, NEW X, NEW i \in Ids,
         Match(a, s, X, i), Match(b, s, X, i)
  PROVE  Match(Merge(a, b), s, X, i)
<1> DEFINE e == Merge(a, b)
<1>1. /\ e.clock = Higher(a.clock, b.clock) /\ e.rev = Higher(a.rev, b.rev)
      /\ e.ops = a.ops \union b.ops
      /\ GoneAt(e.gone, i) = Higher(GoneAt(a.gone, i), GoneAt(b.gone, i))
      /\ i \notin Shown(a) /\ i \notin Shown(b) => i \notin Shown(e)
      /\ i \in Shown(a) \/ i \in Shown(b) =>
           \E x \in {a, b} :
             /\ i \in Shown(x)
             /\ i \in Shown(e) <=> ~Hid(GoneAt(e.gone, i), x.notes[i].back)
             /\ i \in Shown(e) => Reads(e.notes[i], x.notes[i])
  BY MergeAt
<1> HIDE DEF e
<1> SUFFICES Match(e, s, X, i)
  BY DEF e
<1>2. Frame(e, s) /\ e.rev = a.rev /\ e.rev = b.rev /\ e.clock = a.clock /\ e.clock = b.clock
  BY <1>1 DEF Frame, Match, Higher
<1>3. ~HasDel(X, i) => GoneAt(e.gone, i) = GoneAt(s.gone, i)
  BY <1>1 DEF Match, Higher
<1>4. CASE i \notin Shown(a) /\ i \notin Shown(b)
  <2>1. i \notin Shown(e)
    BY <1>1, <1>4
  <2>2. ~HasWord(X, i) => i \notin Shown(s)
    BY <1>4 DEF Match, SameReading
  <2> QED BY <1>2, <1>3, <2>1, <2>2 DEF Match, SameReading
<1>5. CASE i \in Shown(a) \/ i \in Shown(b)
  <2>1. PICK x \in {a, b} : /\ i \in Shown(x)
                            /\ i \in Shown(e) <=> ~Hid(GoneAt(e.gone, i), x.notes[i].back)
                            /\ i \in Shown(e) => Reads(e.notes[i], x.notes[i])
    BY <1>1, <1>5
  <2>2. Match(x, s, X, i) /\ x.rev = e.rev /\ x.clock = e.clock
    BY <1>2
  <2>3. i \in Shown(e) => e.notes[i].rev <= e.rev
    BY <2>1, <2>2 DEF Match, Reads
  <2>4. i \in Shown(e) /\ ~Has(X, "add", i) => e.notes[i].back <= e.clock
    BY <2>1, <2>2 DEF Match, Reads
  <2>5. ~HasWord(X, i) => SameReading(e, s, X, i)
    <3> SUFFICES ASSUME ~HasWord(X, i) PROVE SameReading(e, s, X, i)
      OBVIOUS
    <3>1. SameReading(x, s, X, i)
      BY <2>2 DEF Match
    <3>2. i \in Shown(s) /\ ~Hid(GoneAt(s.gone, i), s.notes[i].back) /\ x.notes[i].back = s.notes[i].back
      BY <2>1, <3>1 DEF SameReading, SoundDocs, SoundDoc, Buried, Hid
    <3>3. i \in Shown(e)
      BY <1>3, <2>1, <3>2, WordIs
    <3>4. Reads(e.notes[i], x.notes[i])
      BY <2>1, <3>3
    <3>5. e.notes[i].back = s.notes[i].back /\ e.notes[i].rev = s.notes[i].rev
      BY <2>1, <3>1, <3>2, <3>4 DEF Reads, SameReading
    <3>6. ~Has(X, "edit", i) => e.notes[i].body = s.notes[i].body
      BY <2>1, <3>1, <3>4 DEF SameReading, Reads
    <3>7. ~Has(X, "resolve", i) => e.notes[i].resolved = s.notes[i].resolved
      BY <2>1, <3>1, <3>4 DEF SameReading, Reads
    <3> QED BY <3>2, <3>3, <3>5, <3>6, <3>7 DEF SameReading
  <2> QED BY <1>2, <1>3, <2>3, <2>4, <2>5 DEF Match
<1> QED BY <1>4, <1>5

Alike(a, b) == a.t = b.t /\ a.id = b.id

\* What is without an answer still, after the answers that are like op.
LEMMA Answered ==
  ASSUME NEW X, NEW Y, NEW i \in Ids, NEW op, Y \subseteq X, \A p \in X : p \in Y \/ Alike(p, op)
  PROVE  /\ ~Deletes(op, i) => (HasDel(X, i) <=> HasDel(Y, i))
         /\ ~Concerns(op, i) => (HasWord(X, i) <=> HasWord(Y, i))
         /\ \A t : ~(op.t = t /\ op.id = i) => (Has(X, t, i) <=> Has(Y, t, i))
BY DEF HasDel, HasWord, Has, Alike, Deletes, Concerns

\* Both hear the commit of one of the operations X; Y is what is still open then.
LEMMA MatchCommit ==
  ASSUME NEW d \in SoundDocs, NEW s \in SoundDocs, NEW c \in Commits, NEW opid \in OpIds,
         Stamped(c), opid \notin d.ops, c.rev = s.rev + 1, c.clock > s.clock,
         NEW X, NEW Y, Y \subseteq X, \A op \in X : op \in Y \/ Alike(op, c.op),
         \A j \in Ids : Match(d, s, X, j) /\ Past(s, j),
         NEW i \in Ids, HasDel(X, i) /\ ~HasDel(Y, i) => GoneAt(d.gone, i) <= c.clock
  PROVE  Match(ApplyCommit(d, c, opid), ApplyCommit(s, c, opid), Y, i)
<1> DEFINE e == ApplyCommit(d, c, opid)
           f == ApplyCommit(s, c, opid)
<1>1. c.op \in OpTypes /\ c.op.id \in Ids /\ c.clock \in Nat /\ c.rev \in Nat
  BY OpIs DEF Commits
<1>2. Match(d, s, X, i) /\ Past(s, i) /\ Frame(d, s)
  BY DEF Match
<1>3. d \in Docs /\ s \in Docs /\ d.rev \in Nat /\ d.clock \in Nat /\ s.rev \in Nat /\ s.clock \in Nat
  BY DocIs DEF SoundDocs
<1>4. c.op.id \in Shown(d) => d.notes[c.op.id].rev < c.rev
  <2>1. Match(d, s, X, c.op.id)
    BY <1>1
  <2>2. c.op.id \in Shown(d) => d.notes[c.op.id].rev \in Nat
    BY <1>3, DocIs, NoteIs
  <2> QED BY <1>1, <1>2, <1>3, <2>1, <2>2 DEF Match, Frame
<1>5. c.op.id \in Shown(s) => s.notes[c.op.id].rev < c.rev
  <2>1. Past(s, c.op.id)
    BY <1>1
  <2>2. c.op.id \in Shown(s) => s.notes[c.op.id].rev \in Nat
    BY <1>3, DocIs, NoteIs
  <2> QED BY <1>1, <1>3, <2>1, <2>2 DEF Past
<1>6. opid \notin s.ops
  BY <1>2 DEF Frame
<1>7. /\ e.clock = Higher(d.clock, c.clock) /\ e.rev = Higher(d.rev, c.rev) /\ e.ops = d.ops \union {opid}
      /\ GoneAt(e.gone, i) = IF Deletes(c.op, i) THEN Higher(GoneAt(d.gone, i), c.clock)
                                                 ELSE GoneAt(d.gone, i)
      /\ Deletes(c.op, i) =>
           /\ i \in Shown(e) <=> i \in Shown(d) /\ ~Hid(GoneAt(e.gone, i), d.notes[i].back)
           /\ i \in Shown(e) => /\ e.notes[i].back = d.notes[i].back /\ e.notes[i].body = d.notes[i].body
                                /\ e.notes[i].resolved = d.notes[i].resolved
                                /\ e.notes[i].rev \in {d.notes[i].rev, c.rev}
      /\ c.op.t = "add" /\ c.op.id = i =>
           /\ i \in Shown(e) <=> ~Hid(GoneAt(d.gone, i), c.op.note.back)
           /\ i \in Shown(e) => e.notes[i] = c.op.note
      /\ ~Concerns(c.op, i) =>
           /\ Stays(e, d, c.op, i)
           /\ i \in Shown(d) => e.notes[i].rev \in {d.notes[i].rev, c.rev} /\ Ranked(e, d, c, i)
           /\ i \in Shown(d) /\ c.op.id = i =>
                /\ c.op.t = "edit" => e.notes[i].body = c.op.body
                /\ c.op.t = "resolve" => e.notes[i].resolved = c.op.on
  BY <1>4, CommitAt
<1>8. /\ f.clock = Higher(s.clock, c.clock) /\ f.rev = Higher(s.rev, c.rev) /\ f.ops = s.ops \union {opid}
      /\ GoneAt(f.gone, i) = IF Deletes(c.op, i) THEN Higher(GoneAt(s.gone, i), c.clock)
                                                 ELSE GoneAt(s.gone, i)
      /\ Deletes(c.op, i) =>
           /\ i \in Shown(f) <=> i \in Shown(s) /\ ~Hid(GoneAt(f.gone, i), s.notes[i].back)
           /\ i \in Shown(f) => /\ f.notes[i].back = s.notes[i].back /\ f.notes[i].body = s.notes[i].body
                                /\ f.notes[i].resolved = s.notes[i].resolved
                                /\ f.notes[i].rev \in {s.notes[i].rev, c.rev}
      /\ c.op.t = "add" /\ c.op.id = i =>
           /\ i \in Shown(f) <=> ~Hid(GoneAt(s.gone, i), c.op.note.back)
           /\ i \in Shown(f) => f.notes[i] = c.op.note
      /\ ~Concerns(c.op, i) =>
           /\ Stays(f, s, c.op, i)
           /\ i \in Shown(s) => f.notes[i].rev \in {s.notes[i].rev, c.rev} /\ Ranked(f, s, c, i)
           /\ i \in Shown(s) /\ c.op.id = i =>
                /\ c.op.t = "edit" => f.notes[i].body = c.op.body
                /\ c.op.t = "resolve" => f.notes[i].resolved = c.op.on
  BY <1>5, <1>6, CommitAt
<1> SUFFICES Match(e, f, Y, i)
  OBVIOUS
<1> HIDE DEF e, f
<1>9. e.clock = c.clock /\ e.rev = c.rev /\ Frame(e, f)
  BY <1>1, <1>2, <1>3, <1>7, <1>8 DEF Frame, Higher
<1>10. /\ ~Deletes(c.op, i) => (HasDel(X, i) <=> HasDel(Y, i))
       /\ ~Concerns(c.op, i) => (HasWord(X, i) <=> HasWord(Y, i))
       /\ \A t : ~(c.op.t = t /\ c.op.id = i) => (Has(X, t, i) <=> Has(Y, t, i))
  BY Answered
<1>11. GoneAt(d.gone, i) \in Nat /\ GoneAt(s.gone, i) \in Nat /\ GoneAt(s.gone, i) < c.clock
  <2>1. d.gone \in [Ids -> Nat] /\ s.gone \in [Ids -> Nat]
    BY <1>3, DocIs
  <2>2. GoneAt(d.gone, i) \in Nat /\ GoneAt(s.gone, i) \in Nat
    BY <2>1, Gone
  <2> QED BY <1>1, <1>2, <1>3, <2>2 DEF Past
<1>12. ~HasDel(Y, i) => GoneAt(e.gone, i) = GoneAt(f.gone, i)
  <2>1. CASE Deletes(c.op, i)
    <3>1. HasDel(X, i) \/ GoneAt(d.gone, i) = GoneAt(s.gone, i)
      BY <1>2 DEF Match
    <3> QED BY <1>1, <1>7, <1>8, <1>11, <2>1, <3>1 DEF Higher
  <2>2. CASE ~Deletes(c.op, i)
    BY <1>2, <1>7, <1>8, <1>10, <2>2 DEF Match
  <2> QED BY <2>1, <2>2
<1>13. i \in Shown(d) => d.notes[i].rev \in Nat /\ d.notes[i].back \in Nat /\ d.notes[i].rev <= d.rev
  BY <1>2, <1>3, DocIs, NoteIs DEF Match
<1>14. i \in Shown(e) => e.notes[i].rev <= e.rev
  <2>1. Concerns(c.op, i) => Deletes(c.op, i) \/ (c.op.t = "add" /\ c.op.id = i)
    BY DEF Concerns
  <2>2. c.op.t = "add" => c.op.note.rev = c.rev
    BY DEF Stamped
  <2>3. c.rev <= c.rev /\ (i \in Shown(d) => d.notes[i].rev <= c.rev)
    BY <1>1, <1>2, <1>3, <1>13 DEF Frame
  <2>4. ~Concerns(c.op, i) /\ i \in Shown(e) => i \in Shown(d)
    BY <1>7 DEF Stays
  <2> QED BY <1>7, <1>9, <2>1, <2>2, <2>3, <2>4
<1>15. i \in Shown(e) /\ ~Has(Y, "add", i) => e.notes[i].back <= e.clock
  <2>1. CASE c.op.t = "add" /\ c.op.id = i
    <3>1. c.op.note.back \in {0, c.clock}
      BY <2>1 DEF Stamped
    <3> QED BY <1>1, <1>7, <1>9, <2>1, <3>1
  <2>2. CASE ~(c.op.t = "add" /\ c.op.id = i)
    <3>1. i \in Shown(e) => i \in Shown(d) /\ e.notes[i].back = d.notes[i].back
      BY <1>7, <2>2 DEF Stays, Concerns
    <3>2. i \in Shown(d) /\ ~Has(Y, "add", i) => d.notes[i].back <= d.clock
      BY <1>2, <1>10, <2>2 DEF Match
    <3>3. d.clock < c.clock
      BY <1>2 DEF Frame
    <3> QED BY <1>1, <1>3, <1>9, <1>13, <3>1, <3>2, <3>3
  <2> QED BY <2>1, <2>2
<1>16. ASSUME ~HasWord(Y, i) PROVE SameReading(e, f, Y, i)
  <2>1. CASE ~Concerns(c.op, i)
    <3>1. SameReading(d, s, X, i) /\ Stays(e, d, c.op, i) /\ Stays(f, s, c.op, i)
      BY <1>2, <1>7, <1>8, <1>10, <1>16, <2>1 DEF Match
    <3>2. (i \in Shown(e) <=> i \in Shown(f)) /\ (i \in Shown(e) => i \in Shown(d) /\ i \in Shown(s))
      BY <3>1 DEF SameReading, Stays
    <3>3. i \in Shown(e) => e.notes[i].back = f.notes[i].back /\ e.notes[i].rev = f.notes[i].rev
      <4>1. i \in Shown(e) => Ranked(e, d, c, i) /\ Ranked(f, s, c, i)
        BY <1>7, <1>8, <2>1, <3>2
      <4> QED BY <3>1, <3>2, <4>1 DEF SameReading, Stays, Ranked
    <3>4. i \in Shown(e) /\ ~Has(Y, "edit", i) => e.notes[i].body = f.notes[i].body
      <4>1. CASE c.op.t = "edit" /\ c.op.id = i
        BY <1>7, <1>8, <2>1, <3>2, <4>1
      <4>2. CASE ~(c.op.t = "edit" /\ c.op.id = i)
        BY <1>10, <3>1, <3>2, <4>2 DEF SameReading, Stays
      <4> QED BY <4>1, <4>2
    <3>5. i \in Shown(e) /\ ~Has(Y, "resolve", i) => e.notes[i].resolved = f.notes[i].resolved
      <4>1. CASE c.op.t = "resolve" /\ c.op.id = i
        BY <1>7, <1>8, <2>1, <3>2, <4>1
      <4>2. CASE ~(c.op.t = "resolve" /\ c.op.id = i)
        BY <1>10, <3>1, <3>2, <4>2 DEF SameReading, Stays
      <4> QED BY <4>1, <4>2
    <3> QED BY <3>2, <3>3, <3>4, <3>5 DEF SameReading
  <2>2. CASE c.op.t = "add" /\ c.op.id = i
    <3>1. ~Deletes(c.op, i)
      BY <2>2 DEF Deletes
    <3>2. GoneAt(d.gone, i) = GoneAt(s.gone, i)
      BY <1>2, <1>10, <1>16, <3>1, WordIs DEF Match
    <3>3. (i \in Shown(e) <=> i \in Shown(f)) /\ (i \in Shown(e) => e.notes[i] = f.notes[i])
      BY <1>7, <1>8, <2>2, <3>2
    <3> QED BY <3>3 DEF SameReading
  <2>3. CASE Deletes(c.op, i)
    <3>1. i \notin Shown(f)
      <4>1. i \in Shown(s) => s.notes[i].back \in Nat /\ s.notes[i].back <= s.clock
        BY <1>2, <1>3, DocIs, NoteIs DEF Past
      <4> QED BY <1>1, <1>3, <1>8, <1>11, <2>3, <4>1 DEF Hid, Higher
    <3>2. i \notin Shown(e)
      <4>1. c.op.t # "add"
        BY <2>3 DEF Deletes
      <4>2. ~Has(X, "add", i)
        BY <1>10, <1>16, <4>1, WordIs
      <4>3. i \in Shown(d) => d.notes[i].back < c.clock
        BY <1>1, <1>2, <1>3, <1>13, <4>2 DEF Match, Frame
      <4> QED BY <1>1, <1>7, <1>11, <1>13, <2>3, <4>3 DEF Hid, Higher
    <3> QED BY <3>1, <3>2 DEF SameReading
  <2> QED BY <2>1, <2>2, <2>3 DEF Concerns
<1> QED BY <1>9, <1>12, <1>14, <1>15, <1>16 DEF Match

LEMMA PastCommit ==
  ASSUME NEW s \in SoundDocs, NEW c \in Commits, NEW opid \in OpIds,
         Stamped(c), opid \notin s.ops, c.rev = s.rev + 1, c.clock > s.clock,
         \A j \in Ids : Past(s, j), NEW i \in Ids
  PROVE  Past(ApplyCommit(s, c, opid), i)
<1> DEFINE f == ApplyCommit(s, c, opid)
<1>1. c.op \in OpTypes /\ c.op.id \in Ids /\ c.clock \in Nat /\ c.rev \in Nat
  BY OpIs DEF Commits
<1>2. s \in Docs /\ s.rev \in Nat /\ s.clock \in Nat /\ Past(s, i)
      /\ \A j \in Shown(s) : s.notes[j].rev \in Nat /\ s.notes[j].back \in Nat
  BY DocIs, NoteIs DEF SoundDocs
<1>3. c.op.id \in Shown(s) => s.notes[c.op.id].rev < c.rev
  <2>1. Past(s, c.op.id)
    BY <1>1
  <2> QED BY <1>1, <1>2, <2>1 DEF Past
<1>4. /\ f.clock = Higher(s.clock, c.clock) /\ f.rev = Higher(s.rev, c.rev)
      /\ GoneAt(f.gone, i) = IF Deletes(c.op, i) THEN Higher(GoneAt(s.gone, i), c.clock)
                                                 ELSE GoneAt(s.gone, i)
      /\ Deletes(c.op, i) =>
           /\ i \in Shown(f) <=> i \in Shown(s) /\ ~Hid(GoneAt(f.gone, i), s.notes[i].back)
           /\ i \in Shown(f) => /\ f.notes[i].back = s.notes[i].back
                                /\ f.notes[i].rev \in {s.notes[i].rev, c.rev}
      /\ c.op.t = "add" /\ c.op.id = i =>
           (i \in Shown(f) => f.notes[i] = c.op.note)
      /\ ~Concerns(c.op, i) =>
           /\ Stays(f, s, c.op, i)
           /\ i \in Shown(s) => f.notes[i].rev \in {s.notes[i].rev, c.rev}
  BY <1>3, CommitAt
<1> SUFFICES Past(f, i)
  OBVIOUS
<1> HIDE DEF f
<1>5. f.clock = c.clock /\ f.rev = c.rev
  BY <1>1, <1>2, <1>4 DEF Higher
<1>6. GoneAt(f.gone, i) <= f.clock
  <2>1. s.gone \in [Ids -> Nat]
    BY <1>2, DocIs
  <2>2. GoneAt(s.gone, i) \in Nat /\ GoneAt(s.gone, i) <= s.clock
    BY <1>2, <2>1, Gone DEF Past
  <2> QED BY <1>1, <1>2, <1>4, <1>5, <2>2 DEF Higher
<1>7. ASSUME i \in Shown(f) PROVE f.notes[i].back <= f.clock /\ f.notes[i].rev <= f.rev
  <2>1. CASE c.op.t = "add" /\ c.op.id = i
    <3>1. c.op.note.back \in {0, c.clock} /\ c.op.note.rev = c.rev
      BY <2>1 DEF Stamped
    <3> QED BY <1>1, <1>4, <1>5, <1>7, <2>1, <3>1
  <2>2. CASE ~(c.op.t = "add" /\ c.op.id = i)
    <3>1. i \in Shown(s) /\ f.notes[i].back = s.notes[i].back /\ f.notes[i].rev \in {s.notes[i].rev, c.rev}
      BY <1>4, <1>7, <2>2 DEF Stays, Concerns
    <3> QED BY <1>1, <1>2, <1>5, <3>1 DEF Past
  <2> QED BY <2>1, <2>2
<1> QED BY <1>6, <1>7 DEF Past

\* What the log says of i, and that s shows it so.
Ruled(s, i) ==
  /\ \A k \in DOMAIN log : LastWord(k, i) => (i \in Shown(s) <=> Allows(k, i))
  /\ (\A k \in DOMAIN log : ~Concerns(log[k].commit.op, i)) => (i \in Shown(s) <=> i \in First)
  /\ GoneAt(s.gone, i) # 0 <=> \E k \in DOMAIN log : Deletes(log[k].commit.op, i)

\* The next document of the story shows what the longer log says.
LEMMA RuledCommit ==
  ASSUME NEW s \in SoundDocs, NEW c \in Commits, NEW opid \in OpIds,
         Stamped(c), opid \notin s.ops, c.rev = s.rev + 1, c.clock > s.clock,
         \A j \in Ids : Past(s, j), NEW i \in Ids, NEW f \in SoundDocs, f = ApplyCommit(s, c, opid),
         log \in Seq([id : OpIds, commit : Commits]), log' = Append(log, [id |-> opid, commit |-> c]),
         Ruled(s, i)
  PROVE  Ruled(f, i)'
<1> PICK n \in Nat : n = Len(log)
  OBVIOUS
<1>1. c.op \in OpTypes /\ c.op.id \in Ids /\ c.clock \in Nat /\ c.rev \in Nat
  BY OpIs DEF Commits
<1>2. s \in Docs /\ s.rev \in Nat /\ s.clock \in Nat /\ Past(s, i)
      /\ \A j \in Shown(s) : s.notes[j].rev \in Nat /\ s.notes[j].back \in Nat
  BY DocIs, NoteIs DEF SoundDocs
<1>3. c.op.id \in Shown(s) => s.notes[c.op.id].rev < c.rev
  <2>1. Past(s, c.op.id)
    BY <1>1
  <2> QED BY <1>1, <1>2, <2>1 DEF Past
<1>4. /\ GoneAt(f.gone, i) = IF Deletes(c.op, i) THEN Higher(GoneAt(s.gone, i), c.clock)
                                                 ELSE GoneAt(s.gone, i)
      /\ Deletes(c.op, i) => (i \in Shown(f) <=> i \in Shown(s) /\ ~Hid(GoneAt(f.gone, i), s.notes[i].back))
      /\ c.op.t = "add" /\ c.op.id = i => (i \in Shown(f) <=> ~Hid(GoneAt(s.gone, i), c.op.note.back))
      /\ ~Concerns(c.op, i) => Stays(f, s, c.op, i)
  BY <1>3, CommitAt
<1>5. n \in Nat /\ DOMAIN log = 1 .. n /\ DOMAIN log' = 1 .. (n + 1)
      /\ (\A k \in 1 .. n : log'[k] = log[k]) /\ log'[n + 1].commit = c
  BY DEF Commits
<1>6. GoneAt(s.gone, i) \in Nat /\ GoneAt(s.gone, i) < c.clock
  <2>1. s.gone \in [Ids -> Nat]
    BY <1>2, DocIs
  <2>2. GoneAt(s.gone, i) \in Nat
    BY <2>1, Gone
  <2> QED BY <1>1, <1>2, <2>2 DEF Past
<1>7. (\E k \in DOMAIN log' : Deletes(log'[k].commit.op, i))
        <=> (Deletes(c.op, i) \/ \E k \in DOMAIN log : Deletes(log[k].commit.op, i))
  <2>1. \A k \in 1 .. (n + 1) : k \in 1 .. n \/ k = n + 1
    BY <1>5
  <2>2. n + 1 \in 1 .. (n + 1) /\ \A k \in 1 .. n : k \in 1 .. (n + 1)
    BY <1>5
  <2> QED BY <1>5, <2>1, <2>2
<1>8. GoneAt(f.gone, i) # 0 <=> \E k \in DOMAIN log' : Deletes(log'[k].commit.op, i)
  <2>1. c.clock > 0
    BY DEF Stamped
  <2> QED BY <1>1, <1>4, <1>6, <1>7, <2>1 DEF Ruled, Higher
<1>9. (DeletedBefore(n + 1, i))' <=> GoneAt(s.gone, i) # 0
  <2>1. n + 1 - 1 = n
    BY <1>5
  <2> QED BY <1>5, <2>1 DEF DeletedBefore, Ruled
<1>10. CASE ~Concerns(c.op, i)
  <2>1. i \in Shown(f) <=> i \in Shown(s)
    BY <1>4, <1>10 DEF Stays
  <2>2. ASSUME NEW k \in DOMAIN log', LastWord(k, i)' PROVE i \in Shown(f) <=> Allows(k, i)'
    <3>1. Concerns(log'[k].commit.op, i) /\ \A j \in DOMAIN log' : Concerns(log'[j].commit.op, i) => j <= k
      BY <2>2 DEF LastWord
    <3>2. k \in 1 .. n
      BY <1>5, <1>10, <3>1
    <3>3. LastWord(k, i)
      BY <1>5, <3>1, <3>2 DEF LastWord
    <3>4. DeletedBefore(k, i)' <=> DeletedBefore(k, i)
      <4>1. \A j \in 1 .. (k - 1) : j \in 1 .. n
        BY <1>5, <3>2
      <4> QED BY <1>5, <4>1 DEF DeletedBefore
    <3>5. Allows(k, i)' <=> Allows(k, i)
      BY <1>5, <3>2, <3>4 DEF Allows
    <3> QED BY <1>5, <2>1, <3>2, <3>3, <3>5 DEF Ruled
  <2>3. (\A k \in DOMAIN log' : ~Concerns(log'[k].commit.op, i)) => (i \in Shown(f) <=> i \in First)
    <3>1. (\A k \in DOMAIN log' : ~Concerns(log'[k].commit.op, i))
            => \A k \in DOMAIN log : ~Concerns(log[k].commit.op, i)
      BY <1>5
    <3> QED BY <2>1, <3>1 DEF Ruled
  <2> QED BY <1>8, <2>2, <2>3 DEF Ruled
<1>11. CASE Concerns(c.op, i)
  <2>1. Concerns(log'[n + 1].commit.op, i) /\ n + 1 \in DOMAIN log'
    BY <1>5, <1>11
  <2>2. \A k \in DOMAIN log' : LastWord(k, i)' => k = n + 1
    <3>1. \A k \in 1 .. (n + 1) : n + 1 <= k => k = n + 1
      BY <1>5
    <3> QED BY <1>5, <2>1, <3>1 DEF LastWord
  <2>3. i \in Shown(f) <=> Allows(n + 1, i)'
    <3>1. CASE c.op.t = "add" /\ c.op.id = i
      <4>1. Allows(n + 1, i)' <=> c.op.note.back # 0 \/ GoneAt(s.gone, i) = 0
        BY <1>5, <1>9, <3>1 DEF Allows
      <4>2. c.op.note.back \in {0, c.clock}
        BY <3>1 DEF Stamped
      <4> QED BY <1>1, <1>4, <1>6, <3>1, <4>1, <4>2 DEF Hid
    <3>2. CASE Deletes(c.op, i)
      <4>1. ~Allows(n + 1, i)'
        BY <1>5, <3>2 DEF Allows, Deletes
      <4>2. i \in Shown(s) => s.notes[i].back < c.clock
        BY <1>1, <1>2 DEF Past
      <4> QED BY <1>1, <1>2, <1>4, <1>6, <3>2, <4>1, <4>2 DEF Hid, Higher
    <3> QED BY <1>11, <3>1, <3>2 DEF Concerns
  <2> QED BY <1>8, <2>1, <2>2, <2>3 DEF Ruled
<1> QED BY <1>10, <1>11

-----------------------------------------------------------------------------
(* What is posted: deletions have no time or that of the act, comments are put back
   right after it, and none has a revision from the future of its document. *)

TimedOps(t) ==
  {op \in OpTypes : (op.t = "del" => op.at \in {0, t}) /\ (op.t = "add" => op.note.back <= t + 1)}
LowOps(n) == {op \in OpTypes : op.t = "add" => op.note.rev <= n}
LowEntries(n) ==
  {entry \in Entries :
     entry.op \in LowOps(n) /\ entry.inverse \in Seq(LowOps(n)) /\ entry.redo \in Seq(LowOps(n))}
LowStacks(r, n) == past[r] \in Seq(LowEntries(n)) /\ future[r] \in Seq(LowEntries(n))
LowNotes(d, n) == \A i \in Shown(d) : d.notes[i].rev <= n

LEMMA Wider ==
  ASSUME NEW S, NEW T, S \subseteq T, NEW row \in Seq(S)
  PROVE  row \in Seq(T)
OBVIOUS

LEMMA Lower ==
  ASSUME NEW m \in Nat, NEW n \in Nat, m <= n
  PROVE  LowOps(m) \subseteq LowOps(n) /\ LowEntries(m) \subseteq LowEntries(n)
<1>1. LowOps(m) \subseteq LowOps(n)
  BY OpIs, NoteIs DEF LowOps
<1>2. Seq(LowOps(m)) \subseteq Seq(LowOps(n))
  BY <1>1, Wider
<1> QED BY <1>1, <1>2 DEF LowEntries

\* What an undo would post is not from the future either.
LEMMA InverseIsLow ==
  ASSUME NEW d \in SoundDocs, NEW op \in OpTypes, op.t # "like",
         op.t \in {"edit", "resolve"} => op.id \in Shown(d), NEW n \in Nat, LowNotes(d, n)
  PROVE  InverseOps(d, op) \in Seq(LowOps(n))
<1>1. InverseOps(d, op) \in Seq(OpTypes) /\ op.t \in {"add", "edit", "resolve", "del"}
  BY InverseIsOps, OpIs
<1>2. CASE op.t \in {"add", "edit", "resolve"}
  <2>1. \A k \in DOMAIN InverseOps(d, op) : InverseOps(d, op)[k].t # "add"
    <3>1. CASE op.t = "add"
      BY <3>1 DEF InverseOps, DelOp
    <3>2. CASE op.t = "edit"
      BY <3>2, OpIs DEF InverseOps
    <3>3. CASE op.t = "resolve"
      BY <3>3, OpIs DEF InverseOps
    <3> QED BY <1>2, <3>1, <3>2, <3>3
  <2>2. \A k \in DOMAIN InverseOps(d, op) : InverseOps(d, op)[k] \in LowOps(n)
    BY <1>1, <2>1, InRow DEF LowOps
  <2> QED BY <1>1, <2>2
<1>3. CASE op.t = "del"
  <2> DEFINE T == Thread(d, op.id) \intersect Shown(d)
             thread == SetToSeq(T)
             back == [k \in DOMAIN thread |-> AddOp(thread[k], d.notes[thread[k]])]
  <2>1. InverseOps(d, op) = back
    BY <1>3 DEF InverseOps
  <2>2. T \subseteq Shown(d) /\ IsFiniteSet(T)
    BY FS_Subset DEF Shown
  <2>3. thread \in Seq(T)
    BY <2>2, Listed
  <2> HIDE DEF thread
  <2>4. \A i \in T : AddOp(i, d.notes[i]) \in LowOps(n)
    <3> SUFFICES ASSUME NEW i \in T PROVE AddOp(i, d.notes[i]) \in LowOps(n)
      OBVIOUS
    <3>1. i \in Ids /\ d.notes[i] \in Notes /\ d.notes[i].rev <= n
      BY <2>2, DocIs DEF SoundDocs, LowNotes
    <3> QED BY <3>1 DEF AddOp, OpTypes, LowOps
  <2> HIDE DEF T
  <2>5. Len(thread) \in Nat /\ DOMAIN thread = 1 .. Len(thread) /\ \A k \in 1 .. Len(thread) : thread[k] \in T
    BY <2>3
  <2>6. back \in [1 .. Len(thread) -> LowOps(n)]
    BY <2>4, <2>5
  <2> HIDE DEF back
  <2> QED BY <2>1, <2>5, <2>6, OneByOne
<1> QED BY <1>1, <1>2, <1>3

LEMMA RestampIsLow ==
  ASSUME NEW ops \in Seq(OpTypes), NEW t \in Nat
  PROVE  /\ RestampAll(ops, t) \in Seq(TimedOps(t))
         /\ \A n \in Nat : ops \in Seq(LowOps(n)) => RestampAll(ops, t) \in Seq(LowOps(n))
<1>1. RestampAll(ops, t) \in Seq(OpTypes) /\ DOMAIN RestampAll(ops, t) = DOMAIN ops
      /\ \A k \in DOMAIN ops : RestampAll(ops, t)[k] = Restamp(ops[k], t)
  BY RestampIsOps DEF RestampAll
<1>2. ASSUME NEW op \in OpTypes
      PROVE  LET new == Restamp(op, t)
             IN /\ new.t = "del" => new.at = t
                /\ new.t = "add" => op.t = "add" /\ new.note.rev = op.note.rev /\ new.note.back = t + 1
  <2>1. CASE op.t = "add"
    <3> DEFINE note == [op.note EXCEPT !.back = t + 1]
    <3>1. op \in [t : {"add"}, id : Ids, note : Notes, at : Nat] /\ op.note \in Notes
      BY <2>1, OpIs
    <3>2. Restamp(op, t) = [op EXCEPT !.note = note] /\ note.rev = op.note.rev /\ note.back = t + 1
      BY <2>1, <3>1 DEF Restamp, Notes
    <3> HIDE DEF note
    <3> QED BY <2>1, <3>1, <3>2
  <2>2. CASE op.t # "add"
    BY <2>2, OpIs DEF Restamp
  <2> QED BY <2>1, <2>2
<1> DEFINE new == RestampAll(ops, t)
<1>3. \A k \in DOMAIN new : new[k] \in TimedOps(t)
  <2> SUFFICES ASSUME NEW k \in DOMAIN new PROVE new[k] \in TimedOps(t)
    OBVIOUS
  <2>1. new[k] \in OpTypes /\ new[k] = Restamp(ops[k], t) /\ ops[k] \in OpTypes
    BY <1>1, InRow
  <2>2. (new[k].t = "del" => new[k].at = t) /\ (new[k].t = "add" => new[k].note.back = t + 1)
    BY <1>2, <2>1
  <2> QED BY <2>1, <2>2 DEF TimedOps
<1>4. ASSUME NEW n \in Nat, ops \in Seq(LowOps(n)) PROVE new \in Seq(LowOps(n))
  <2>1. \A k \in DOMAIN ops : ops[k] \in LowOps(n)
    BY <1>4, InRow
  <2>2. \A k \in DOMAIN new : new[k] \in LowOps(n)
    BY <1>1, <1>2, <2>1, InRow DEF LowOps
  <2> QED BY <1>1, <2>2
<1> QED BY <1>1, <1>3, <1>4

\* What one post does to the stacks of the one who posts.
LEMMA DoIsLow ==
  ASSUME ReplicasInv, NEW r \in Replicas, InRoom(r), NEW op \in OpTypes, op.t # "like",
         op.t \in {"edit", "resolve"} => op.id \in Shown(doc[r]), Do(r, op),
         NEW n \in Nat, LowNotes(doc[r], n), LowStacks(r, n), op \in LowOps(n)
  PROVE  LowStacks(r, n)'
<1> DEFINE entry == [op |-> op, inverse |-> InverseOps(doc[r], op), redo |-> <<op>>]
<1>1. doc[r] \in SoundDocs
  BY DEF ReplicasInv, Copies, InRoom
<1>2. InverseOps(doc[r], op) \in Seq(LowOps(n)) /\ InverseOps(doc[r], op) \in Seq(OpTypes)
  BY <1>1, InverseIsLow, InverseIsOps
<1>3. <<op>> \in Seq(LowOps(n)) /\ <<op>> \in Seq(OpTypes)
  OBVIOUS
<1>4. entry \in LowEntries(n)
  BY <1>2, <1>3 DEF LowEntries, Entries
<1>5. past' = [past EXCEPT ![r] = Append(@, entry)] /\ future' = [future EXCEPT ![r] = <<>>]
  BY DEF Do
<1> HIDE DEF entry
<1>6. past \in [Replicas -> Seq(Entries)] /\ future \in [Replicas -> Seq(Entries)]
  BY DEF ReplicasInv, Stacks
<1>7. past'[r] = Append(past[r], entry) /\ future'[r] = <<>>
  BY <1>5, <1>6
<1>8. Append(past[r], entry) \in Seq(LowEntries(n)) /\ <<>> \in Seq(LowEntries(n))
  BY <1>4, OneMore, NoneOf DEF LowStacks
<1> QED BY <1>7, <1>8 DEF LowStacks

LEMMA Topmost ==
  ASSUME NEW S, NEW stack \in Seq(S), stack # <<>>
  PROVE  Last(stack) \in S /\ Front(stack) \in Seq(S)
<1>1. Last(stack) \in S
  BY DEF Last
<1>2. Front(stack) \in Seq(S)
  BY DEF Front
<1> QED BY <1>1, <1>2

\* What a post is: operations of the act's time, no comment among them from the
\* future of the document they are made on.
Posting(r, ops) ==
  /\ InRoom(r) /\ PostAll(r, ops) /\ ops \in Seq(TimedOps(ActClock(r)))
  /\ \A n \in Nat : LowNotes(doc[r], n) /\ LowStacks(r, n) => ops \in Seq(LowOps(n)) /\ LowStacks(r, n)'
  /\ \A m \in Replicas : m # r => past'[m] = past[m] /\ future'[m] = future[m]

\* Doing, undoing and redoing are posts.
LEMMA DoIsPosting ==
  ASSUME ReplicasInv, NEW r \in Replicas, InRoom(r), NEW op \in OpTypes, op.t # "like",
         op.t \in {"edit", "resolve"} => op.id \in Shown(doc[r]), Do(r, op),
         op \in TimedOps(ActClock(r)), op.t = "add" => op.note.rev = 0
  PROVE  Posting(r, <<op>>)
<1>1. PostAll(r, <<op>>)
  BY DEF Do
<1>2. <<op>> \in Seq(TimedOps(ActClock(r)))
  OBVIOUS
<1>3. ASSUME NEW n \in Nat, LowNotes(doc[r], n), LowStacks(r, n)
      PROVE  <<op>> \in Seq(LowOps(n)) /\ LowStacks(r, n)'
  <2>1. op \in LowOps(n)
    BY DEF LowOps
  <2>2. <<op>> \in Seq(LowOps(n))
    BY <2>1
  <2> QED BY <1>3, <2>1, <2>2, DoIsLow
<1>4. \A m \in Replicas : m # r => past'[m] = past[m] /\ future'[m] = future[m]
  BY DEF Do, ReplicasInv, Stacks
<1> QED BY <1>1, <1>2, <1>3, <1>4 DEF Posting

LEMMA UndoIsPosting ==
  ASSUME ReplicasInv, NEW r \in Replicas, Undo(r)
  PROVE  \E ops : Posting(r, ops)
<1> DEFINE entry == Last(past[r])
           undone == [entry EXCEPT !.redo = RedoAfter(r, entry)]
           ops == RestampAll(entry.inverse, ActClock(r))
<1>1. /\ InRoom(r) /\ past[r] # <<>> /\ PostAll(r, ops)
      /\ past' = [past EXCEPT ![r] = Front(@)]
      /\ future' = [future EXCEPT ![r] = Append(@, undone)]
  BY DEF Undo
<1>2. past \in [Replicas -> Seq(Entries)] /\ future \in [Replicas -> Seq(Entries)]
  BY DEF ReplicasInv, Stacks
<1>3. entry \in Entries
  BY <1>1, <1>2, Topmost
<1>4. doc[r] \in SoundDocs
  BY <1>1 DEF ReplicasInv, Copies, InRoom
<1>5. \A n \in Nat : LowStacks(r, n) => entry \in LowEntries(n) /\ Front(past[r]) \in Seq(LowEntries(n))
  BY <1>1, Topmost DEF LowStacks
<1> HIDE DEF entry
<1>6. entry.op \in OpTypes /\ entry.inverse \in Seq(OpTypes) /\ entry.redo \in Seq(OpTypes)
  BY <1>3 DEF Entries
<1>7. ActClock(r) \in Nat
  BY Clocks
<1>8. ops \in Seq(TimedOps(ActClock(r)))
  BY <1>6, <1>7, RestampIsLow
<1>9. ASSUME NEW n \in Nat, LowNotes(doc[r], n), LowStacks(r, n)
      PROVE  ops \in Seq(LowOps(n)) /\ LowStacks(r, n)'
  <2>1. entry \in LowEntries(n) /\ Front(past[r]) \in Seq(LowEntries(n))
    BY <1>5, <1>9
  <2>2. entry.op \in LowOps(n) /\ entry.inverse \in Seq(LowOps(n)) /\ entry.redo \in Seq(LowOps(n))
    BY <2>1 DEF LowEntries
  <2>3. ops \in Seq(LowOps(n))
    BY <1>6, <1>7, <2>2, RestampIsLow
  <2>4. RedoAfter(r, entry) \in Seq(LowOps(n)) /\ RedoAfter(r, entry) \in Seq(OpTypes)
    <3>1. DelOp(entry.op.id) \in OpTypes /\ DelOp(entry.op.id).t = "del"
      BY <1>6, OpIs DEF DelOp, OpTypes
    <3>2. InverseOps(doc[r], DelOp(entry.op.id)) \in Seq(LowOps(n))
          /\ InverseOps(doc[r], DelOp(entry.op.id)) \in Seq(OpTypes)
      BY <1>4, <1>9, <3>1, InverseIsLow, InverseIsOps
    <3>3. <<entry.op>> \in Seq(LowOps(n)) /\ <<entry.op>> \in Seq(OpTypes)
      BY <1>6, <2>2
    <3> QED BY <1>6, <2>2, <3>2, <3>3 DEF RedoAfter
  <2>5. undone \in LowEntries(n)
    BY <1>3, <2>2, <2>4 DEF Entries, LowEntries
  <2> HIDE DEF undone
  <2>6. past'[r] = Front(past[r]) /\ future'[r] = Append(future[r], undone)
    BY <1>1, <1>2
  <2>7. Append(future[r], undone) \in Seq(LowEntries(n))
    BY <1>9, <2>5, OneMore DEF LowStacks
  <2> QED BY <2>1, <2>3, <2>6, <2>7 DEF LowStacks
<1>10. \A m \in Replicas : m # r => past'[m] = past[m] /\ future'[m] = future[m]
  BY <1>1, <1>2
<1> QED BY <1>1, <1>8, <1>9, <1>10 DEF Posting

LEMMA RedoIsPosting ==
  ASSUME ReplicasInv, NEW r \in Replicas, Redo(r)
  PROVE  \E ops : Posting(r, ops)
<1> DEFINE entry == Last(future[r])
           ops == RestampAll(entry.redo, ActClock(r))
<1>1. /\ InRoom(r) /\ future[r] # <<>> /\ PostAll(r, ops)
      /\ future' = [future EXCEPT ![r] = Front(@)]
      /\ past' = [past EXCEPT ![r] = Append(@, entry)]
  BY DEF Redo
<1>2. past \in [Replicas -> Seq(Entries)] /\ future \in [Replicas -> Seq(Entries)]
  BY DEF ReplicasInv, Stacks
<1>3. entry \in Entries
  BY <1>1, <1>2, Topmost
<1>4. \A n \in Nat : LowStacks(r, n) => entry \in LowEntries(n) /\ Front(future[r]) \in Seq(LowEntries(n))
  BY <1>1, Topmost DEF LowStacks
<1> HIDE DEF entry
<1>5. entry.redo \in Seq(OpTypes)
  BY <1>3 DEF Entries
<1>6. ActClock(r) \in Nat
  BY Clocks
<1>7. ops \in Seq(TimedOps(ActClock(r)))
  BY <1>5, <1>6, RestampIsLow
<1>8. ASSUME NEW n \in Nat, LowNotes(doc[r], n), LowStacks(r, n)
      PROVE  ops \in Seq(LowOps(n)) /\ LowStacks(r, n)'
  <2>1. entry \in LowEntries(n) /\ Front(future[r]) \in Seq(LowEntries(n))
    BY <1>4, <1>8
  <2>2. entry.redo \in Seq(LowOps(n))
    BY <2>1 DEF LowEntries
  <2>3. ops \in Seq(LowOps(n))
    BY <1>5, <1>6, <2>2, RestampIsLow
  <2>4. future'[r] = Front(future[r]) /\ past'[r] = Append(past[r], entry)
    BY <1>1, <1>2
  <2>5. Append(past[r], entry) \in Seq(LowEntries(n))
    BY <1>8, <2>1, OneMore DEF LowStacks
  <2> QED BY <2>1, <2>3, <2>4, <2>5 DEF LowStacks
<1>9. \A m \in Replicas : m # r => past'[m] = past[m] /\ future'[m] = future[m]
  BY <1>1, <1>2
<1> QED BY <1>1, <1>7, <1>8, <1>9 DEF Posting

LEMMA PostsArePostings ==
  ASSUME ReplicasInv, NEW r \in Replicas, Posts(r)
  PROVE  \E ops : Posting(r, ops)
<1>1. ActClock(r) \in Nat
  BY Clocks
<1>2. ASSUME NEW i \in Ids, AddNote(r, i, Min(Bodies)) PROVE \E ops : Posting(r, ops)
  <2> DEFINE op == AddOp(i, NewNote(Min(Bodies), ActClock(r)))
  <2>1. op \in OpTypes /\ op.t = "add" /\ op.note.rev = 0 /\ op.note.back = 0
    BY <1>1, FirstBody, NewNoteIs DEF AddOp, OpTypes, NewNote
  <2>2. InRoom(r) /\ Do(r, op)
    BY <1>2 DEF AddNote
  <2> HIDE DEF op
  <2>3. op \in TimedOps(ActClock(r))
    BY <1>1, <2>1 DEF TimedOps
  <2> QED BY <2>1, <2>2, <2>3, DoIsPosting
<1>3. ASSUME NEW i \in Ids, NEW body \in Bodies, EditNote(r, i, body) PROVE \E ops : Posting(r, ops)
  <2> DEFINE op == [t |-> "edit", id |-> i, body |-> body, at |-> ActClock(r)]
  <2>1. op \in OpTypes /\ op.t = "edit" /\ op.id = i
    BY <1>1 DEF OpTypes
  <2>2. InRoom(r) /\ Do(r, op) /\ i \in Shown(doc[r])
    BY <1>3 DEF EditNote
  <2> HIDE DEF op
  <2>3. op \in TimedOps(ActClock(r))
    BY <2>1 DEF TimedOps
  <2> QED BY <2>1, <2>2, <2>3, DoIsPosting
<1>4. ASSUME NEW i \in Ids, ResolveNote(r, i) PROVE \E ops : Posting(r, ops)
  <2>1. PICK on \in BOOLEAN : on = ~doc[r].notes[i].resolved
    BY Zenon
  <2> DEFINE op == [t |-> "resolve", id |-> i, on |-> on, at |-> ActClock(r)]
  <2>2. op \in OpTypes /\ op.t = "resolve" /\ op.id = i
    BY <1>1 DEF OpTypes
  <2>3. InRoom(r) /\ Do(r, op) /\ i \in Shown(doc[r])
    BY <1>4, <2>1 DEF ResolveNote
  <2> HIDE DEF op
  <2>4. op \in TimedOps(ActClock(r))
    BY <2>2 DEF TimedOps
  <2> QED BY <2>2, <2>3, <2>4, DoIsPosting
<1>5. ASSUME NEW i \in Ids, DeleteNote(r, i) PROVE \E ops : Posting(r, ops)
  <2>1. DelOp(i) \in OpTypes /\ DelOp(i).t = "del" /\ DelOp(i).at = 0
    BY DEF DelOp, OpTypes
  <2>2. InRoom(r) /\ Do(r, DelOp(i))
    BY <1>5 DEF DeleteNote
  <2>3. DelOp(i) \in TimedOps(ActClock(r))
    BY <2>1 DEF TimedOps
  <2> QED BY <2>1, <2>2, <2>3, DoIsPosting
<1>6. ASSUME NEW i \in Ids, ToggleLike(r, i) PROVE \E ops : Posting(r, ops)
  <2>1. PICK on \in BOOLEAN : on = (r \notin doc[r].notes[i].fans)
    BY Zenon
  <2> DEFINE op == [t |-> "like", id |-> i, who |-> r, on |-> on, at |-> 0]
  <2>2. op \in OpTypes /\ op.t = "like"
    BY DEF OpTypes
  <2>3. InRoom(r) /\ PostAll(r, <<op>>) /\ UNCHANGED <<past, future>>
    BY <1>6, <2>1 DEF ToggleLike
  <2> HIDE DEF op
  <2>4. op \in TimedOps(ActClock(r)) /\ \A n \in Nat : op \in LowOps(n)
    BY <2>2 DEF TimedOps, LowOps
  <2>5. <<op>> \in Seq(TimedOps(ActClock(r))) /\ \A n \in Nat : <<op>> \in Seq(LowOps(n))
    BY <2>4
  <2>6. Posting(r, <<op>>)
    BY <2>3, <2>5 DEF Posting, LowStacks
  <2> QED BY <2>6
<1> QED BY <1>2, <1>3, <1>4, <1>5, <1>6, UndoIsPosting, RedoIsPosting DEF Posts

\* What the host makes of an operation: same kind, same comment, its own stamps.
LEMMA PreparedIs ==
  ASSUME NEW d \in Docs, NEW op \in OpTypes, NEW t \in Nat, NEW c, c = Prepare(d, op, t)
  PROVE  /\ c \in Commits /\ Stamped(c) /\ Alike(op, c.op)
         /\ c.rev = d.rev + 1 /\ c.clock >= t /\ c.clock > d.clock
<1> DEFINE clock == NextClock(d, t)
           note == [op.note EXCEPT !.rev = d.rev + 1, !.at = clock, !.back = IF @ # 0 THEN clock ELSE 0]
           stamped == IF op.t = "add" THEN [op EXCEPT !.note = note] ELSE [op EXCEPT !.at = clock]
<1>1. clock \in Nat /\ clock >= t /\ clock > d.clock /\ d.clock \in Nat /\ d.rev \in Nat
  BY ClockIsTime, DocIs
<1>2. c = [t |-> "commit", clock |-> clock, rev |-> d.rev + 1, op |-> stamped]
  BY Zenon DEF Prepare
<1>5. c \in Commits
  BY PreparedOp
<1> HIDE DEF clock
<1>3. CASE op.t = "add"
  <2>1. op.note \in Notes /\ op \in [t : {"add"}, id : Ids, note : Notes, at : Nat]
    BY <1>3, OpIs
  <2>2. note.rev = d.rev + 1 /\ note.back \in {0, clock}
    BY <2>1 DEF Notes
  <2> HIDE DEF note
  <2>3. stamped = [op EXCEPT !.note = note]
    BY <1>3
  <2>4. stamped.t = op.t /\ stamped.id = op.id /\ stamped.note = note
    BY <2>1, <2>3
  <2> HIDE DEF stamped
  <2> QED BY <1>1, <1>2, <1>3, <1>5, <2>2, <2>4 DEF Stamped, Alike
<1>4. CASE op.t # "add"
  <2> HIDE DEF note
  <2>1. stamped = [op EXCEPT !.at = clock]
    BY <1>4
  <2>2. stamped.t = op.t /\ stamped.id = op.id /\ stamped.at = clock
    BY <1>4, <2>1, OpIs
  <2> HIDE DEF stamped
  <2> QED BY <1>1, <1>2, <1>4, <1>5, <2>2 DEF Stamped, Alike
<1> QED BY <1>3, <1>4

-----------------------------------------------------------------------------
(* The book: which operation has which id. *)

Booked(row, book, n) == \A k \in DOMAIN row : row[k].id <= n /\ row[k].op = book[row[k].id]

Book(book) ==
  /\ \A r \in Replicas : Booked(outbox[r], book, used) /\ Booked(up[r], book, used)
  /\ \A k \in DOMAIN log : log[k].id <= used /\ Alike(book[log[k].id], log[k].commit.op)

BookInv == \E book : Book(book)

\* So what is committed under the id of an operation is that operation.
LEMMA TheSameOp ==
  ASSUME BookInv, NEW r \in Replicas, NEW k \in DOMAIN log
  PROVE  /\ \A j \in DOMAIN outbox[r] : log[k].id = outbox[r][j].id => Alike(outbox[r][j].op, log[k].commit.op)
         /\ \A j \in DOMAIN up[r] : log[k].id = up[r][j].id => Alike(up[r][j].op, log[k].commit.op)
         /\ log[k].id <= used
BY DEF BookInv, Book, Booked

LEMMA BookBegin == Init => BookInv
BY DEF Init, BookInv, Book, Booked

LEMMA EnvelopeIs ==
  ASSUME NEW row \in Seq(Envelopes), NEW k \in DOMAIN row
  PROVE  row[k] \in Envelopes /\ row[k].id \in OpIds /\ row[k].op \in OpTypes
<1>1. row[k] \in Envelopes
  BY InRow
<1> QED BY <1>1 DEF Envelopes

LEMMA RecordIs ==
  ASSUME NEW row \in Seq([id : OpIds, commit : Commits]), NEW k \in DOMAIN row
  PROVE  row[k].id \in OpIds /\ row[k].commit \in Commits
<1>1. row[k] \in [id : OpIds, commit : Commits]
  BY InRow
<1> QED BY <1>1

LEMMA Joined ==
  ASSUME NEW S, NEW T, NEW row \in Seq(S), NEW rest \in Seq(T)
  PROVE  LET more == row \o rest IN
         /\ Len(more) = Len(row) + Len(rest) /\ DOMAIN more = 1 .. Len(more)
         /\ Len(row) \in Nat /\ DOMAIN row = 1 .. Len(row) /\ Len(rest) \in Nat /\ DOMAIN rest = 1 .. Len(rest)
         /\ \A k \in DOMAIN more : IF k <= Len(row) THEN more[k] = row[k] ELSE more[k] = rest[k - Len(row)]
OBVIOUS

\* A post writes in the book under new ids.
LEMMA BookPost ==
  ASSUME ReplicasInv, BookInv, NEW r \in Replicas, NEW ops, Posting(r, ops)
  PROVE  BookInv'
<1> PICK book : Book(book)
  BY DEF BookInv
<1> DEFINE envelopes == [k \in DOMAIN ops |-> [id |-> used + k, op |-> ops[k]]]
           book2 == [id \in OpIds |-> IF id > used THEN ops[id - used] ELSE book[id]]
<1>1. /\ used + Len(ops) <= MaxPosts /\ used' = used + Len(ops)
      /\ outbox' = [outbox EXCEPT ![r] = @ \o envelopes] /\ up' = [up EXCEPT ![r] = @ \o envelopes]
      /\ log' = log
  BY DEF Posting, PostAll
<1>2. ops \in Seq(TimedOps(ActClock(r))) /\ Len(ops) \in Nat /\ DOMAIN ops = 1 .. Len(ops) /\ used \in Nat
  BY DEF Posting, ReplicasInv, Counts
<1>3. outbox \in [Replicas -> Seq(Envelopes)] /\ up \in [Replicas -> Seq(Envelopes)]
      /\ log \in Seq([id : OpIds, commit : Commits])
  BY DEF ReplicasInv, Posted, Recordings
<1>4. \A k \in 1 .. Len(ops) : used + k \in OpIds /\ used + k > used /\ (used + k) - used = k /\ used + k <= used'
  BY <1>1, <1>2 DEF OpIds
<1>5. Len(envelopes) = Len(ops) /\ DOMAIN envelopes = DOMAIN ops /\ envelopes \in Seq({envelopes[k] : k \in DOMAIN ops})
  BY <1>2
<1>6. \A k \in DOMAIN ops : envelopes[k].id = used + k /\ envelopes[k].op = ops[k] /\ book2[used + k] = ops[k]
  BY <1>2, <1>4
<1>7. \A id \in OpIds : id <= used => book2[id] = book[id] /\ id <= used'
  BY <1>1, <1>2 DEF OpIds
<1> HIDE DEF envelopes, book2
<1>8. ASSUME NEW row \in Seq(Envelopes), Booked(row, book, used), NEW more, more = row \o envelopes
      PROVE  Booked(more, book2, used')
  <2>1. /\ Len(more) = Len(row) + Len(ops) /\ DOMAIN more = 1 .. Len(more) /\ Len(row) \in Nat
        /\ DOMAIN row = 1 .. Len(row)
        /\ \A k \in DOMAIN more : IF k <= Len(row) THEN more[k] = row[k] ELSE more[k] = envelopes[k - Len(row)]
    <3>1. row \in Seq(Envelopes) /\ envelopes \in Seq({envelopes[k] : k \in DOMAIN ops}) /\ more = row \o envelopes
      BY <1>5, <1>8
    <3> DEFINE S == {envelopes[k] : k \in DOMAIN ops}
    <3> HIDE DEF S
    <3>2. envelopes \in Seq(S)
      BY <3>1 DEF S
    <3>3. /\ Len(row \o envelopes) = Len(row) + Len(envelopes)
          /\ DOMAIN (row \o envelopes) = 1 .. Len(row \o envelopes)
          /\ Len(row) \in Nat /\ DOMAIN row = 1 .. Len(row)
          /\ \A k \in DOMAIN (row \o envelopes) :
               IF k <= Len(row) THEN (row \o envelopes)[k] = row[k]
                                ELSE (row \o envelopes)[k] = envelopes[k - Len(row)]
      BY <3>1, <3>2, Joined
    <3> QED BY <1>5, <3>1, <3>3
  <2> SUFFICES ASSUME NEW k \in DOMAIN more PROVE more[k].id <= used' /\ more[k].op = book2[more[k].id]
    BY DEF Booked
  <2>2. CASE k <= Len(row)
    <3>1. k \in DOMAIN row /\ more[k] = row[k]
      BY <2>1, <2>2
    <3>2. row[k].id \in OpIds
      BY <1>8, <3>1, EnvelopeIs
    <3> QED BY <1>7, <1>8, <3>1, <3>2 DEF Booked
  <2>3. CASE ~(k <= Len(row))
    <3>1. k - Len(row) \in DOMAIN ops /\ more[k] = envelopes[k - Len(row)]
      BY <1>2, <2>1, <2>3
    <3> QED BY <1>2, <1>4, <1>6, <3>1
  <2> QED BY <2>2, <2>3
<1>9. ASSUME NEW row \in Seq(Envelopes), Booked(row, book, used) PROVE Booked(row, book2, used')
  <2> SUFFICES ASSUME NEW k \in DOMAIN row PROVE row[k].id <= used' /\ row[k].op = book2[row[k].id]
    BY DEF Booked
  <2>1. row[k].id \in OpIds
    BY <1>9, EnvelopeIs
  <2> QED BY <1>7, <1>9, <2>1 DEF Booked
<1>10. ASSUME NEW m \in Replicas PROVE Booked(outbox'[m], book2, used') /\ Booked(up'[m], book2, used')
  <2>1. outbox[m] \in Seq(Envelopes) /\ up[m] \in Seq(Envelopes) /\ Booked(outbox[m], book, used) /\ Booked(up[m], book, used)
    BY <1>3 DEF Book
  <2>2. CASE m = r
    <3>1. outbox'[m] = outbox[m] \o envelopes /\ up'[m] = up[m] \o envelopes
      BY <1>1, <1>3, <2>2
    <3>2. Booked(outbox[m] \o envelopes, book2, used') /\ Booked(up[m] \o envelopes, book2, used')
      BY <1>8, <2>1
    <3> QED BY <3>1, <3>2
  <2>3. CASE m # r
    <3>1. outbox'[m] = outbox[m] /\ up'[m] = up[m]
      BY <1>1, <1>3, <2>3
    <3>2. Booked(outbox[m], book2, used') /\ Booked(up[m], book2, used')
      BY <1>9, <2>1
    <3> QED BY <3>1, <3>2
  <2> QED BY <2>2, <2>3
<1>11. ASSUME NEW k \in DOMAIN log' PROVE log'[k].id <= used' /\ Alike(book2[log'[k].id], log'[k].commit.op)
  <2>1. log'[k] = log[k] /\ k \in DOMAIN log
    BY <1>1
  <2>2. log[k].id \in OpIds
    BY <1>3, <2>1, RecordIs
  <2> QED BY <1>7, <2>1, <2>2 DEF Book
<1> QED BY <1>10, <1>11 DEF BookInv, Book

LEMMA BookedPart ==
  ASSUME NEW row, NEW book, NEW n, Booked(row, book, n),
         NEW part, \A m \in DOMAIN part : \E k \in DOMAIN row : part[m] = row[k]
  PROVE  Booked(part, book, n)
BY DEF Booked

LEMMA BookedTail ==
  ASSUME NEW S, NEW row \in Seq(S), row # <<>>, NEW book, NEW n, Booked(row, book, n)
  PROVE  Booked(Tail(row), book, n)
<1>1. \A m \in DOMAIN Tail(row) : m + 1 \in DOMAIN row /\ Tail(row)[m] = row[m + 1]
  OBVIOUS
<1> QED BY <1>1, BookedPart

LEMMA BookedJoined ==
  ASSUME NEW S, NEW T, NEW row \in Seq(S), NEW rest \in Seq(T), NEW book, NEW n,
         Booked(row, book, n), Booked(rest, book, n)
  PROVE  Booked(row \o rest, book, n)
<1> SUFFICES ASSUME NEW k \in DOMAIN (row \o rest)
             PROVE  (row \o rest)[k].id <= n /\ (row \o rest)[k].op = book[(row \o rest)[k].id]
  BY DEF Booked
<1>1. CASE k <= Len(row)
  <2>1. k \in DOMAIN row /\ (row \o rest)[k] = row[k]
    BY <1>1
  <2> QED BY <2>1 DEF Booked
<1>2. CASE ~(k <= Len(row))
  <2>1. k - Len(row) \in DOMAIN rest /\ (row \o rest)[k] = rest[k - Len(row)]
    BY <1>2
  <2> QED BY <2>1 DEF Booked
<1> QED BY <1>1, <1>2

LEMMA BookedWithout ==
  ASSUME NEW S, NEW row \in Seq(S), NEW id, NEW book, NEW n, Booked(row, book, n)
  PROVE  Booked(Without(row, id), book, n)
<1>1. \A m \in DOMAIN Without(row, id) : \E k \in DOMAIN row : Without(row, id)[m] = row[k]
  BY WithoutIs
<1> QED BY <1>1, BookedPart

\* What the host does with the envelope e, its document being loaded.
Serving(r, e, loaded, c) ==
  /\ up[r] # <<>> /\ e = up[r][1] /\ loaded = Merge(kept[Host], doc[Host])
  /\ up' = [up EXCEPT ![r] = Tail(@)]
  /\ outbox' = [outbox EXCEPT ![Host] = Without(@, e.id)]
  /\ Broadcast([t |-> "commit", id |-> e.id, commit |-> c])
  /\ UNCHANGED <<now, used, made, past, future, link, breaks>>
Again(e, loaded, c) ==
  /\ \E k \in DOMAIN log : log[k].id = e.id /\ log[k].commit = c
  /\ log' = log
  /\ doc' = [doc EXCEPT ![Host] = loaded] /\ kept' = [kept EXCEPT ![Host] = loaded]
Anew(e, loaded, c) ==
  /\ \A k \in DOMAIN log : log[k].id # e.id
  /\ c = Prepare(loaded, e.op, Clock(Host))
  /\ log' = Append(log, [id |-> e.id, commit |-> c])
  /\ doc' = [doc EXCEPT ![Host] = ApplyCommit(loaded, c, e.id)]
  /\ kept' = [kept EXCEPT ![Host] = ApplyCommit(loaded, c, e.id)]

\* The host serves one envelope: it repeats a commit of the log or makes a new one.
LEMMA Served ==
  ASSUME ReplicasInv, NEW r \in Replicas, HostCommits(r)
  PROVE  \E e \in Envelopes, loaded \in SoundDocs, c \in Commits :
           Serving(r, e, loaded, c) /\ (Again(e, loaded, c) \/ Anew(e, loaded, c))
<1> DEFINE loaded == Merge(kept[Host], doc[Host])
           e == Head(up[r])
           new == [id |-> e.id, commit |-> Prepare(loaded, e.op, Clock(Host))]
           c == IF Committed(e.id) THEN Recorded(e.id) ELSE new
           next == IF Committed(e.id) THEN loaded ELSE ApplyCommit(loaded, c.commit, e.id)
           message == [t |-> "commit", id |-> c.id, commit |-> c.commit]
<1>1. /\ up[r] # <<>>
      /\ doc' = [doc EXCEPT ![Host] = next]
      /\ kept' = [kept EXCEPT ![Host] = next]
      /\ log' = IF Committed(e.id) THEN log ELSE Append(log, c)
      /\ outbox' = [outbox EXCEPT ![Host] = Without(@, e.id)]
      /\ up' = [up EXCEPT ![r] = Tail(@)]
      /\ Broadcast(message)
      /\ UNCHANGED <<now, used, made, past, future, link, breaks>>
  BY DEF HostCommits, Serve
<1>2. up[r] \in Seq(Envelopes) /\ log \in Seq([id : OpIds, commit : Commits])
  BY DEF ReplicasInv, Posted, Recordings
<1>3. e = up[r][1] /\ 1 \in DOMAIN up[r]
  BY <1>1, <1>2
<1>4. e \in Envelopes /\ e.op \in OpTypes /\ e.id \in OpIds
  BY <1>2, <1>3, EnvelopeIs
<1>5. loaded \in SoundDocs /\ loaded \in Docs
  <2>1. Host \in Replicas /\ kept[Host] \in SoundDocs /\ doc[Host] \in SoundDocs
    BY DEF ReplicasInv, Copies, Replicas
  <2> QED BY <2>1, MergeIsSound DEF SoundDocs
<1>6. Prepare(loaded, e.op, Clock(Host)) \in Commits
  BY <1>4, <1>5, PreparedOp, Clocks DEF Replicas
<1>9. loaded = Merge(kept[Host], doc[Host])
  OBVIOUS
<1> HIDE DEF loaded, e
<1>7. CASE Committed(e.id)
  <2>1. PICK k \in DOMAIN log : log[k].id = e.id /\ log[k] = Recorded(e.id)
    BY <1>7 DEF Committed, Recorded
  <2>2. log[k].commit \in Commits
    BY <1>2, RecordIs
  <2>3. message = [t |-> "commit", id |-> e.id, commit |-> log[k].commit]
    BY <1>7, <2>1
  <2>4. log' = log /\ next = loaded
    BY <1>1, <1>7
  <2> HIDE DEF message, next, c
  <2>5. Serving(r, e, loaded, log[k].commit)
    BY <1>1, <1>3, <1>9, <2>3 DEF Serving
  <2>6. Again(e, loaded, log[k].commit)
    BY <1>1, <2>1, <2>4 DEF Again
  <2> QED BY <1>4, <1>5, <2>2, <2>5, <2>6
<1>8. CASE ~Committed(e.id)
  <2> DEFINE commit == Prepare(loaded, e.op, Clock(Host))
  <2>1. c = new /\ c.id = e.id /\ c.commit = commit
    BY <1>8
  <2>2. message = [t |-> "commit", id |-> e.id, commit |-> commit]
    BY <2>1
  <2>3. log' = Append(log, [id |-> e.id, commit |-> commit]) /\ next = ApplyCommit(loaded, commit, e.id)
    BY <1>1, <1>8, <2>1
  <2>4. \A k \in DOMAIN log : log[k].id # e.id
    BY <1>8 DEF Committed
  <2> HIDE DEF message, next, c
  <2>5. commit \in Commits
    BY <1>6
  <2>6. /\ doc' = [doc EXCEPT ![Host] = ApplyCommit(loaded, commit, e.id)]
        /\ kept' = [kept EXCEPT ![Host] = ApplyCommit(loaded, commit, e.id)]
    BY <1>1, <2>3
  <2>7. Anew(e, loaded, commit)
    BY <2>3, <2>4, <2>6 DEF Anew
  <2> HIDE DEF commit
  <2>8. Serving(r, e, loaded, commit)
    BY <1>1, <1>3, <1>9, <2>2 DEF Serving
  <2> QED BY <1>4, <1>5, <2>5, <2>7, <2>8
<1> QED BY <1>7, <1>8

LEMMA BookServed ==
  ASSUME ReplicasInv, BookInv, NEW r \in Replicas, HostCommits(r)
  PROVE  BookInv'
<1> PICK book : Book(book)
  BY DEF BookInv
<1>0. PICK e \in Envelopes, loaded \in SoundDocs, c \in Commits :
        Serving(r, e, loaded, c) /\ (Again(e, loaded, c) \/ Anew(e, loaded, c))
  BY Served
<1> DEFINE entry == [id |-> e.id, commit |-> c]
<1>1. /\ up[r] # <<>> /\ e = up[r][1]
      /\ up' = [up EXCEPT ![r] = Tail(@)]
      /\ outbox' = [outbox EXCEPT ![Host] = Without(@, e.id)]
      /\ used' = used
      /\ log' = log \/ (c = Prepare(loaded, e.op, Clock(Host)) /\ log' = Append(log, entry))
  BY <1>0 DEF Serving, Again, Anew
<1>2. outbox \in [Replicas -> Seq(Envelopes)] /\ up \in [Replicas -> Seq(Envelopes)]
      /\ log \in Seq([id : OpIds, commit : Commits]) /\ Host \in Replicas
  BY DEF ReplicasInv, Posted, Recordings, Replicas
<1>3. ASSUME NEW m \in Replicas PROVE Booked(outbox'[m], book, used') /\ Booked(up'[m], book, used')
  <2>1. /\ outbox[m] \in Seq(Envelopes) /\ up[m] \in Seq(Envelopes)
        /\ Booked(outbox[m], book, used) /\ Booked(up[m], book, used)
    BY <1>2 DEF Book
  <2>2. outbox'[m] = outbox[m] \/ outbox'[m] = Without(outbox[m], e.id)
    BY <1>1, <1>2
  <2>3. up'[m] = up[m] \/ (up'[m] = Tail(up[m]) /\ up[m] # <<>>)
    BY <1>1, <1>2
  <2>4. Booked(Without(outbox[m], e.id), book, used)
    BY <2>1, BookedWithout
  <2>5. up[m] # <<>> => Booked(Tail(up[m]), book, used)
    BY <2>1, BookedTail
  <2> QED BY <1>1, <2>1, <2>2, <2>3, <2>4, <2>5
<1>4. ASSUME NEW k \in DOMAIN log' PROVE log'[k].id <= used' /\ Alike(book[log'[k].id], log'[k].commit.op)
  <2>1. CASE k \in DOMAIN log /\ log'[k] = log[k]
    BY <1>1, <2>1 DEF Book
  <2>2. CASE log'[k] = entry /\ c = Prepare(loaded, e.op, Clock(Host))
    <3>1. Booked(up[r], book, used) /\ 1 \in DOMAIN up[r]
      BY <1>1, <1>2 DEF Book
    <3>2. e.id <= used /\ e.op = book[e.id]
      BY <1>1, <3>1 DEF Booked
    <3>3. e.op \in OpTypes /\ loaded \in Docs /\ Clock(Host) \in Nat
      BY <1>2, Clocks DEF Envelopes, SoundDocs
    <3>4. Alike(e.op, c.op)
      BY <2>2, <3>3, PreparedIs
    <3> QED BY <1>1, <2>2, <3>2, <3>4
  <2>3. \/ k \in DOMAIN log /\ log'[k] = log[k]
        \/ log'[k] = entry /\ c = Prepare(loaded, e.op, Clock(Host))
    <3> HIDE DEF entry
    <3>1. \A m \in DOMAIN Append(log, entry) : \/ m \in DOMAIN log /\ Append(log, entry)[m] = log[m]
                                              \/ Append(log, entry)[m] = entry
      BY <1>2
    <3> QED BY <1>1, <3>1
  <2> QED BY <2>1, <2>2, <2>3
<1> QED BY <1>3, <1>4 DEF BookInv, Book

LEMMA BookKept ==
  ASSUME ReplicasInv, BookInv, NEW g \in Guests, used' = used, log' = log,
         \A m \in Replicas : /\ outbox'[m] = outbox[m] \/ \E id : outbox'[m] = Without(outbox[m], id)
                             /\ up'[m] \in {up[m], <<>>, up[m] \o outbox[m]}
  PROVE  BookInv'
<1> PICK book : Book(book)
  BY DEF BookInv
<1>1. outbox \in [Replicas -> Seq(Envelopes)] /\ up \in [Replicas -> Seq(Envelopes)]
  BY DEF ReplicasInv, Posted
<1>2. ASSUME NEW m \in Replicas PROVE Booked(outbox'[m], book, used') /\ Booked(up'[m], book, used')
  <2>1. /\ outbox[m] \in Seq(Envelopes) /\ up[m] \in Seq(Envelopes)
        /\ Booked(outbox[m], book, used) /\ Booked(up[m], book, used)
    BY <1>1 DEF Book
  <2>2. Booked(outbox'[m], book, used)
    <3>1. CASE outbox'[m] = outbox[m]
      BY <2>1, <3>1
    <3>2. CASE \E id : outbox'[m] = Without(outbox[m], id)
      BY <2>1, <3>2, BookedWithout
    <3> QED BY <3>1, <3>2
  <2>3. Booked(up[m] \o outbox[m], book, used)
    BY <2>1, BookedJoined
  <2>4. Booked(<<>>, book, used)
    BY DEF Booked
  <2> QED BY <2>1, <2>2, <2>3, <2>4
<1>3. \A k \in DOMAIN log : log[k].id <= used /\ Alike(book[log[k].id], log[k].commit.op)
  BY DEF Book
<1> QED BY <1>2, <1>3 DEF BookInv, Book

LEMMA BookStep == ReplicasInv /\ BookInv /\ [Next]_vars => BookInv'
<1> SUFFICES ASSUME ReplicasInv, BookInv, [Next]_vars PROVE BookInv'
  OBVIOUS
<1>1. outbox \in [Replicas -> Seq(Envelopes)] /\ up \in [Replicas -> Seq(Envelopes)]
  BY DEF ReplicasInv, Posted
<1>2. ASSUME NEW r \in Replicas, Posts(r) PROVE BookInv'
  BY <1>2, PostsArePostings, BookPost
<1>3. ASSUME NEW r \in Replicas, HostCommits(r) PROVE BookInv'
  BY <1>3, BookServed
<1>4. ASSUME NEW g \in Guests, GuestHears(g) PROVE BookInv'
  <2> DEFINE c == Head(down[g])
  <2>1. /\ outbox' = [outbox EXCEPT ![g] = Without(@, c.id)]
        /\ UNCHANGED <<used, up, log>>
    BY <1>4 DEF GuestHears
  <2> HIDE DEF c
  <2>2. \A m \in Replicas : outbox'[m] = outbox[m] \/ \E id : outbox'[m] = Without(outbox[m], id)
    BY <1>1, <2>1
  <2> QED BY <2>1, <2>2, BookKept
<1>5. ASSUME NEW g \in Guests, GuestAdopts(g) PROVE BookInv'
  <2>1. up' = [up EXCEPT ![g] = @ \o outbox[g]] /\ UNCHANGED <<used, outbox, log>>
    BY <1>5 DEF GuestAdopts
  <2>2. \A m \in Replicas : up'[m] \in {up[m], <<>>, up[m] \o outbox[m]}
    BY <1>1, <2>1
  <2> QED BY <2>1, <2>2, BookKept
<1>6. ASSUME NEW g \in Guests, LinkBreaks(g) PROVE BookInv'
  <2>1. up' = [up EXCEPT ![g] = <<>>] /\ UNCHANGED <<used, outbox, log>>
    BY <1>6 DEF LinkBreaks
  <2>2. \A m \in Replicas : up'[m] \in {up[m], <<>>, up[m] \o outbox[m]}
    BY <1>1, <2>1
  <2> QED BY <2>1, <2>2, BookKept
<1>7. ASSUME NEW g \in Guests, GuestJoins(g) PROVE BookInv'
  <2>1. UNCHANGED <<used, outbox, up, log>>
    BY <1>7 DEF GuestJoins
  <2> QED BY <2>1, BookKept
<1>8. CASE UNCHANGED vars
  BY <1>8 DEF vars, BookInv, Book
<1> QED BY <1>2, <1>3, <1>4, <1>5, <1>6, <1>7, <1>8 DEF Next

LEMMA BookAlways == Spec => []BookInv
<1> QED BY BookBegin, BookStep, ReplicasAlways, PTL DEF Spec

-----------------------------------------------------------------------------
(* The story: the document after each commit.  Whoever has heard k commits has the
   k-th document but for its own operations without an answer. *)

Records == [id : OpIds, commit : Commits]

\* The operations in a row of envelopes that ops does not say are committed.
Open(row, ops) == {op \in OpTypes : \E k \in DOMAIN row : row[k].id \notin ops /\ row[k].op = op}

\* A deletion that is not committed hides no longer than its commit will: one of
\* those on their way, if it is in the log already, has a time that late there.
Due(row, ops, rec, gone, i) ==
  HasDel(Open(row, ops), i) =>
    \E k \in DOMAIN row :
      /\ row[k].id \notin ops /\ Deletes(row[k].op, i)
      /\ \A m \in DOMAIN rec : rec[m].id = row[k].id => gone <= rec[m].commit.clock

Near(d, s, row, rec, bound, i) ==
  /\ Match(d, s, Open(row, d.ops), i)
  /\ GoneAt(d.gone, i) <= bound
  /\ Due(row, d.ops, rec, GoneAt(d.gone, i), i)

Told(story, rec, k) ==
  /\ Stamped(rec[k].commit) /\ rec[k].commit.rev = k
  /\ rec[k].commit.clock > story[k - 1].clock /\ rec[k].id \notin story[k - 1].ops
  /\ story[k] = ApplyCommit(story[k - 1], rec[k].commit, rec[k].id)
Sums(story, rec, k) ==
  /\ story[k].rev = k
  /\ \A id \in OpIds : id \in story[k].ops <=> \E j \in 1 .. k : rec[j].id = id
  /\ \A j \in 1 .. k : rec[j].commit.clock <= story[k].clock
  /\ \A i \in Ids : Past(story[k], i)
Tale(story, rec) ==
  /\ story \in [0 .. Len(rec) -> SoundDocs] /\ story[0] = FirstDoc
  /\ \A k \in 1 .. Len(rec) : Told(story, rec, k)
  /\ \A k \in 0 .. Len(rec) : Sums(story, rec, k)

\* The story goes on.
Longer(more, story, n, f) == more = [k \in 0 .. (n + 1) |-> IF k <= n THEN story[k] ELSE f]

\* A new commit adds one document to the story.
LEMMA TaleGrows ==
  ASSUME NEW rec \in Seq(Records), NEW story, Tale(story, rec), NEW n \in Nat, n = Len(rec),
         NEW c \in Commits, NEW id \in OpIds, Stamped(c), c.rev = n + 1, c.clock > story[n].clock,
         id \notin story[n].ops, NEW more, Longer(more, story, n, ApplyCommit(story[n], c, id))
  PROVE  Tale(more, Append(rec, [id |-> id, commit |-> c]))
<1>0. PICK f : f = ApplyCommit(story[n], c, id) /\ more = [k \in 0 .. (n + 1) |-> IF k <= n THEN story[k] ELSE f]
  BY DEF Longer
<1> DEFINE entry == [id |-> id, commit |-> c]
           rec2 == Append(rec, entry)
<1>1. entry \in Records /\ entry.id = id /\ entry.commit = c
  BY DEF Records
<1> HIDE DEF entry
<1>2. /\ Len(rec2) = n + 1 /\ rec2[n + 1] = entry
      /\ \A k \in 1 .. n : rec2[k] = rec[k]
  BY <1>1
<1> HIDE DEF rec2
<1>3. story \in [0 .. n -> SoundDocs] /\ n \in 0 .. n /\ story[n] \in SoundDocs /\ Sums(story, rec, n)
      /\ (\A k \in 1 .. n : Told(story, rec, k)) /\ (\A k \in 0 .. n : Sums(story, rec, k))
  <2>1. story \in [0 .. n -> SoundDocs] /\ \A k \in 0 .. n : Sums(story, rec, k)
    BY DEF Tale
  <2>2. \A k \in 1 .. n : Told(story, rec, k)
    BY DEF Tale
  <2>3. n \in 0 .. n
    OBVIOUS
  <2> QED BY <2>1, <2>2, <2>3
<1>4. f \in SoundDocs
  BY <1>0, <1>3, CommitIsSound
<1>5. more[n + 1] = f /\ \A k \in 0 .. n : more[k] = story[k]
  BY <1>0, <1>3
<1>6. more \in [0 .. (n + 1) -> SoundDocs]
  <2>1. \A k \in 0 .. (n + 1) : k <= n => k \in 0 .. n
    OBVIOUS
  <2> QED BY <1>0, <1>3, <1>4, <2>1
<1>7. ASSUME NEW k \in 1 .. n PROVE Told(more, rec2, k)
  <2>1. k - 1 \in 0 .. n /\ k \in 0 .. n
    OBVIOUS
  <2>2. more[k] = story[k] /\ more[k - 1] = story[k - 1] /\ rec2[k] = rec[k]
    BY <1>2, <1>5, <2>1
  <2> QED BY <1>3, <2>2 DEF Told
<1>8. Told(more, rec2, n + 1)
  <2>1. more[n] = story[n] /\ (n + 1) - 1 = n
    BY <1>3, <1>5
  <2> QED BY <1>0, <1>1, <1>2, <1>5, <2>1 DEF Told
<1>9. ASSUME NEW k \in 0 .. n PROVE Sums(more, rec2, k)
  <2>1. more[k] = story[k] /\ \A j \in 1 .. k : rec2[j] = rec[j]
    BY <1>2, <1>5
  <2>2. Sums(story, rec, k)
    BY <1>3
  <2>3. \A m \in OpIds : m \in more[k].ops <=> \E j \in 1 .. k : rec2[j].id = m
    <3> SUFFICES ASSUME NEW m \in OpIds PROVE m \in more[k].ops <=> \E j \in 1 .. k : rec2[j].id = m
      OBVIOUS
    <3>1. m \in story[k].ops <=> \E j \in 1 .. k : rec[j].id = m
      BY <2>2 DEF Sums
    <3> QED BY <2>1, <3>1
  <2>4. \A j \in 1 .. k : rec2[j].commit.clock <= more[k].clock
    BY <2>1, <2>2 DEF Sums
  <2>5. more[k].rev = k /\ \A i \in Ids : Past(more[k], i)
    BY <2>1, <2>2 DEF Sums
  <2> QED BY <2>3, <2>4, <2>5 DEF Sums
<1>10. Sums(more, rec2, n + 1)
  <2>1. story[n].rev = n /\ story[n].clock \in Nat /\ c.clock \in Nat /\ \A i \in Ids : Past(story[n], i)
    BY <1>3, DocIs DEF Sums, SoundDocs, Commits
  <2>2. f.rev = n + 1 /\ f.clock = c.clock /\ f.ops = story[n].ops \union {id}
    <3>1. c.op.id \in Shown(story[n]) => story[n].notes[c.op.id].rev < c.rev
      <4>1. c.op.id \in Ids /\ Past(story[n], c.op.id)
        BY <2>1, OpIs DEF Commits
      <4>2. c.op.id \in Shown(story[n]) => story[n].notes[c.op.id].rev \in Nat
        BY <1>3, <4>1, DocIs, NoteIs DEF SoundDocs
      <4> QED BY <2>1, <4>1, <4>2 DEF Past
    <3>2. f.clock = Higher(story[n].clock, c.clock) /\ f.rev = Higher(story[n].rev, c.rev)
          /\ f.ops = story[n].ops \union {id}
      <4>1. c.op.id \in Ids
        BY OpIs DEF Commits
      <4> QED BY <1>0, <1>3, <3>1, <4>1, CommitAt
    <3> QED BY <2>1, <3>2 DEF Higher
  <2>3. \A j \in 1 .. (n + 1) : j \in 1 .. n \/ j = n + 1
    OBVIOUS
  <2>4. \A j \in 1 .. n : j \in 1 .. (n + 1)
    OBVIOUS
  <2>5. \A m \in OpIds : m \in f.ops <=> \E j \in 1 .. (n + 1) : rec2[j].id = m
    <3> SUFFICES ASSUME NEW m \in OpIds PROVE m \in f.ops <=> \E j \in 1 .. (n + 1) : rec2[j].id = m
      OBVIOUS
    <3>1. m \in story[n].ops <=> \E j \in 1 .. n : rec[j].id = m
      BY <1>3 DEF Sums
    <3>2. (\E j \in 1 .. (n + 1) : rec2[j].id = m) <=> m = id \/ \E j \in 1 .. n : rec[j].id = m
      <4>1. n + 1 \in 1 .. (n + 1)
        OBVIOUS
      <4> QED BY <1>1, <1>2, <2>3, <2>4, <4>1
    <3> QED BY <2>2, <3>1, <3>2
  <2>6. ASSUME NEW j \in 1 .. (n + 1) PROVE rec2[j].commit.clock <= f.clock
    <3>1. CASE j = n + 1
      BY <1>1, <1>2, <2>1, <2>2, <3>1
    <3>2. CASE j \in 1 .. n
      <4>1. rec2[j] = rec[j] /\ rec[j].commit.clock <= story[n].clock
        BY <1>2, <1>3, <3>2 DEF Sums
      <4>2. rec[j].commit.clock \in Nat
        <5>1. j \in DOMAIN rec
          BY <3>2
        <5>2. rec[j].commit \in Commits
          BY <5>1, RecordIs DEF Records
        <5> QED BY <5>2 DEF Commits
      <4> QED BY <2>1, <2>2, <4>1, <4>2
    <3> QED BY <2>3, <3>1, <3>2
  <2>7. \A i \in Ids : Past(f, i)
    <3> SUFFICES ASSUME NEW i \in Ids PROVE Past(f, i)
      OBVIOUS
    <3> QED BY <1>0, <1>3, <2>1, PastCommit
  <2> QED BY <1>5, <2>2, <2>5, <2>6, <2>7 DEF Sums
<1>11. \A k \in 1 .. (n + 1) : k \in 1 .. n \/ k = n + 1
  OBVIOUS
<1>12. \A k \in 0 .. (n + 1) : k \in 0 .. n \/ k = n + 1
  OBVIOUS
<1>13. (\A k \in 1 .. (n + 1) : Told(more, rec2, k)) /\ (\A k \in 0 .. (n + 1) : Sums(more, rec2, k))
  BY <1>7, <1>8, <1>9, <1>10, <1>11, <1>12
<1>14. Tale(more, rec2)
  <2>1. more[0] = FirstDoc
    BY <1>5 DEF Tale
  <2> QED BY <1>2, <1>6, <1>13, <2>1 DEF Tale
<1> QED BY <1>14 DEF rec2, entry

\* Later commits have later times.
LEMMA InOrder ==
  ASSUME NEW rec \in Seq(Records), NEW story, Tale(story, rec),
         NEW j \in DOMAIN rec, NEW k \in DOMAIN rec
  PROVE  /\ j < k => rec[j].commit.clock < rec[k].commit.clock
         /\ j < k => rec[j].id # rec[k].id
<1>1. Len(rec) \in Nat /\ j \in 1 .. Len(rec) /\ k \in 1 .. Len(rec) /\ k - 1 \in 0 .. Len(rec)
  OBVIOUS
<1>2. Told(story, rec, k) /\ Sums(story, rec, k - 1)
  BY <1>1 DEF Tale
<1>3. rec[j].commit.clock \in Nat /\ rec[k].commit.clock \in Nat /\ rec[j].id \in OpIds
  <2>1. rec[j].commit \in Commits /\ rec[k].commit \in Commits /\ rec[j].id \in OpIds
    BY RecordIs DEF Records
  <2> QED BY <2>1 DEF Commits
<1>4. story[k - 1].clock \in Nat
  BY <1>1, DocIs DEF Tale, SoundDocs
<1> SUFFICES ASSUME j < k
             PROVE  rec[j].commit.clock < rec[k].commit.clock /\ rec[j].id # rec[k].id
  OBVIOUS
<1>5. j \in 1 .. (k - 1)
  BY <1>1
<1>6. rec[j].commit.clock <= story[k - 1].clock /\ rec[j].id \in story[k - 1].ops
  BY <1>2, <1>3, <1>5 DEF Sums
<1> QED BY <1>2, <1>3, <1>4, <1>6 DEF Told

\* What every commit of the log is behind, waits for none.
LEMMA DueFree ==
  ASSUME NEW row, NEW ops, NEW rec, NEW gone, NEW i, \A m \in DOMAIN rec : rec[m].id \in ops
  PROVE  Due(row, ops, rec, gone, i)
<1> SUFFICES ASSUME HasDel(Open(row, ops), i)
             PROVE  \E k \in DOMAIN row :
                      /\ row[k].id \notin ops /\ Deletes(row[k].op, i)
                      /\ \A m \in DOMAIN rec : rec[m].id = row[k].id => gone <= rec[m].commit.clock
  BY DEF Due
<1>1. PICK op \in Open(row, ops) : Deletes(op, i)
  BY DEF HasDel
<1>2. PICK k \in DOMAIN row : row[k].id \notin ops /\ row[k].op = op
  BY DEF Open
<1> QED BY <1>1, <1>2

-----------------------------------------------------------------------------
(* A post. *)

\* The ids up to n are given, the envelopes of ops have the next ones.
Given(d, rec, n) == (\A k \in DOMAIN rec : rec[k].id <= n) /\ \A id \in d.ops : id <= n
Envelops(envelopes, ops, n) ==
  /\ envelopes \in Seq(Envelopes) /\ Len(envelopes) = Len(ops)
  /\ \A k \in DOMAIN ops : envelopes[k].id = n + k /\ envelopes[k].op = ops[k]

\* Whoever posts shows the operations, and the envelopes have new ids.
LEMMA PostIsNear ==
  ASSUME NEW d \in SoundDocs, NEW s \in SoundDocs, NEW rec, NEW row \in Seq(Envelopes), NEW t \in Nat,
         NEW ops \in Seq(TimedOps(t)), ops \in Seq(LowOps(d.rev)), NEW n \in Nat,
         NEW envelopes, Envelops(envelopes, ops, n), Given(d, rec, n),
         NEW more, more = row \o envelopes,
         NEW i \in Ids, NEW bound \in Nat, NEW bound2 \in Nat, bound <= bound2, t <= bound2,
         Near(d, s, row, rec, bound, i), NEW e, e = ApplyAll(d, ops, t)
  PROVE  e \in SoundDocs /\ Near(e, s, more, rec, bound2, i)
<1> DEFINE X == Open(row, d.ops)
           Y == Open(more, d.ops)
<1>0. /\ envelopes \in Seq(Envelopes) /\ Len(envelopes) = Len(ops)
      /\ \A k \in DOMAIN ops : envelopes[k].id = n + k /\ envelopes[k].op = ops[k]
      /\ (\A k \in DOMAIN rec : rec[k].id <= n) /\ \A id \in d.ops : id <= n
  BY DEF Envelops, Given
<1>1. DOMAIN ops = DOMAIN envelopes /\ (\A k \in DOMAIN ops : ops[k] \in OpTypes /\ k \in Nat /\ k > 0)
  <2>1. \A k \in DOMAIN ops : ops[k] \in TimedOps(t)
    BY InRow
  <2> QED BY <1>0, <2>1 DEF TimedOps
<1>2. \A k \in DOMAIN row : k \in DOMAIN more /\ more[k] = row[k]
  BY <1>0
<1>3. \A k \in DOMAIN ops : \E m \in DOMAIN more : more[m] = envelopes[k]
  <2> SUFFICES ASSUME NEW k \in DOMAIN ops PROVE \E m \in DOMAIN more : more[m] = envelopes[k]
    OBVIOUS
  <2>1. Len(row) + k \in DOMAIN more /\ more[Len(row) + k] = envelopes[k]
    BY <1>0, <1>1
  <2> QED BY <2>1
<1>4. \A m \in DOMAIN more : (\E k \in DOMAIN row : more[m] = row[k]) \/ \E k \in DOMAIN ops : more[m] = envelopes[k]
  <2> SUFFICES ASSUME NEW m \in DOMAIN more
               PROVE (\E k \in DOMAIN row : more[m] = row[k]) \/ \E k \in DOMAIN ops : more[m] = envelopes[k]
    OBVIOUS
  <2>0. envelopes \in Seq(Envelopes)
    BY <1>0
  <2>1. CASE m <= Len(row)
    <3>1. m \in DOMAIN row /\ more[m] = row[m]
      BY <2>0, <2>1
    <3> QED BY <3>1
  <2>2. CASE ~(m <= Len(row))
    <3>1. m - Len(row) \in DOMAIN envelopes /\ more[m] = envelopes[m - Len(row)]
      BY <1>0, <2>2
    <3> QED BY <1>1, <3>1
  <2> QED BY <2>1, <2>2
<1>5. \A k \in DOMAIN ops : n + k \notin d.ops /\ \A m \in DOMAIN rec : rec[m].id # n + k
  <2> SUFFICES ASSUME NEW k \in DOMAIN ops PROVE n + k \notin d.ops /\ \A m \in DOMAIN rec : rec[m].id # n + k
    OBVIOUS
  <2>1. k \in Nat /\ k > 0 /\ ~(n + k <= n)
    BY <1>1
  <2> QED BY <1>0, <2>1
<1>6. X \subseteq Y
  BY <1>2 DEF Open
<1>7. \A k \in DOMAIN ops : ops[k] \in Y
  <2> SUFFICES ASSUME NEW k \in DOMAIN ops PROVE ops[k] \in Y
    OBVIOUS
  <2>1. PICK m \in DOMAIN more : more[m] = envelopes[k]
    BY <1>3
  <2>2. more[m].id \notin d.ops /\ more[m].op = ops[k] /\ ops[k] \in OpTypes
    BY <1>0, <1>1, <1>5, <2>1
  <2> QED BY <2>2 DEF Open
<1>8. Match(d, s, X, i) /\ GoneAt(d.gone, i) <= bound /\ Due(row, d.ops, rec, GoneAt(d.gone, i), i)
  BY DEF Near
<1>9. GoneAt(d.gone, i) \in Nat
  BY DocIs, Gone DEF SoundDocs
<1> HIDE DEF X, Y
<1>10. /\ e \in SoundDocs /\ Match(e, s, Y, i)
       /\ GoneAt(e.gone, i) = GoneAt(d.gone, i)
            \/ /\ GoneAt(e.gone, i) = Higher(GoneAt(d.gone, i), t)
               /\ \E k \in DOMAIN ops : Deletes(ops[k], i)
  <2> DEFINE old == GoneAt(d.gone, i)
             top == Higher(old, t)
             deleted == \E k \in DOMAIN ops : Deletes(ops[k], i)
             D == {x \in SoundDocs : Match(x, s, Y, i) /\ (GoneAt(x.gone, i) = old \/ (GoneAt(x.gone, i) = top /\ deleted))}
  <2>1. d \in D
    BY <1>6, <1>8, MatchMore
  <2>2. old \in Nat
    BY DocIs, Gone DEF SoundDocs
  <2>3. ASSUME NEW x \in D, NEW k \in DOMAIN ops PROVE Apply(x, ops[k], t) \in D
    <3>1. ops[k] \in TimedOps(t) /\ ops[k] \in LowOps(d.rev) /\ ops[k] \in Y
      BY <1>7, InRow
    <3>2. PICK op \in OpTypes : op = ops[k]
      BY <3>1 DEF TimedOps
    <3>3. (op.t = "del" => op.at \in {0, t}) /\ (op.t = "add" => op.note.rev <= d.rev)
      BY <3>1, <3>2 DEF TimedOps, LowOps
    <3>4. x \in SoundDocs /\ x \in Docs /\ s \in Docs /\ Match(x, s, Y, i)
      BY DEF SoundDocs
    <3>5. x.rev = d.rev
      BY <1>8, <3>4 DEF Match, Frame
    <3>6. Apply(x, op, t) \in SoundDocs
      BY <3>4, ApplyIsSound
    <3>7. Match(Apply(x, op, t), s, Y, i)
      BY <3>1, <3>2, <3>3, <3>4, <3>5, MatchApply
    <3>8. GoneAt(Apply(x, op, t).gone, i) = IF Deletes(op, i) THEN Higher(GoneAt(x.gone, i), Stamp(op, t))
                                                              ELSE GoneAt(x.gone, i)
      BY <3>4, ApplyAt
    <3>9. Deletes(op, i) => Stamp(op, t) = t
      BY <3>3 DEF Deletes, Stamp
    <3>10. Deletes(op, i) => deleted
      BY <3>2
    <3> HIDE DEF deleted
    <3>11. GoneAt(x.gone, i) = old \/ (GoneAt(x.gone, i) = top /\ deleted)
      OBVIOUS
    <3>12. GoneAt(Apply(x, op, t).gone, i) = old \/ (GoneAt(Apply(x, op, t).gone, i) = top /\ deleted)
      BY <2>2, <3>8, <3>9, <3>10, <3>11 DEF Higher
    <3> QED BY <3>2, <3>6, <3>7, <3>12
  <2> HIDE DEF D
  <2>4. e \in D
    BY <2>1, <2>3, AppliesWithin
  <2> QED BY <2>4 DEF D
<1>11. e.ops = d.ops
  BY <1>8, <1>10 DEF Match, Frame
<1>12. GoneAt(e.gone, i) <= bound2
  BY <1>8, <1>9, <1>10 DEF Higher
<1>13. Due(more, d.ops, rec, GoneAt(e.gone, i), i)
  <2> SUFFICES ASSUME HasDel(Y, i)
               PROVE  \E k \in DOMAIN more :
                        /\ more[k].id \notin d.ops /\ Deletes(more[k].op, i)
                        /\ \A m \in DOMAIN rec : rec[m].id = more[k].id => GoneAt(e.gone, i) <= rec[m].commit.clock
    BY DEF Due, Y
  <2>1. CASE \E k \in DOMAIN ops : Deletes(ops[k], i)
    <3>1. PICK k \in DOMAIN ops : Deletes(ops[k], i)
      BY <2>1
    <3>2. PICK m \in DOMAIN more : more[m] = envelopes[k]
      BY <1>3
    <3>3. more[m].id = n + k /\ more[m].op = ops[k]
      BY <1>0, <3>2
    <3>4. more[m].id \notin d.ops /\ Deletes(more[m].op, i) /\ \A q \in DOMAIN rec : rec[q].id # more[m].id
      BY <1>5, <3>1, <3>3
    <3> QED BY <3>4
  <2>2. CASE ~\E k \in DOMAIN ops : Deletes(ops[k], i)
    <3>1. GoneAt(e.gone, i) = GoneAt(d.gone, i)
      BY <1>10, <2>2
    <3>2. HasDel(X, i)
      <4>1. PICK op \in Y : Deletes(op, i)
        BY DEF HasDel
      <4>2. PICK m \in DOMAIN more : more[m].id \notin d.ops /\ more[m].op = op /\ op \in OpTypes
        BY DEF Open, Y
      <4>3. ~\E k \in DOMAIN ops : more[m] = envelopes[k]
        BY <1>0, <2>2, <4>1, <4>2
      <4>4. \E k \in DOMAIN row : more[m] = row[k]
        BY <1>4, <4>3
      <4>5. op \in X
        BY <4>2, <4>4 DEF Open, X
      <4> QED BY <4>1, <4>5 DEF HasDel
    <3>3. PICK k \in DOMAIN row :
            /\ row[k].id \notin d.ops /\ Deletes(row[k].op, i)
            /\ \A m \in DOMAIN rec : rec[m].id = row[k].id => GoneAt(d.gone, i) <= rec[m].commit.clock
      BY <1>8, <3>2 DEF Due, X
    <3>4. k \in DOMAIN more /\ more[k] = row[k]
      BY <1>2
    <3> QED BY <3>1, <3>3, <3>4, Zenon
  <2> QED BY <2>1, <2>2
<1> QED BY <1>10, <1>11, <1>12, <1>13 DEF Near, Y

-----------------------------------------------------------------------------
(* The invariant *)

Bound == Higher(Clock(Host), doc[Host].clock)

Steady(r) == r = Host \/ (breaks[r] = 0 /\ Ahead[r] <= Ahead[Host])

Follows(story, r) ==
  /\ doc[r] \in SoundDocs /\ doc[r].rev \in 0 .. Len(log) /\ LowStacks(r, doc[r].rev)
  /\ \A i \in Ids : Near(doc[r], story[doc[r].rev], outbox[r], log, Bound, i)

\* What is on its way to a guest: the commits it has not heard, without a gap.
Feeds(messages, rec, heard) ==
  /\ \A a \in DOMAIN messages :
       /\ messages[a].t = "commit" /\ messages[a].commit.rev \in DOMAIN rec
       /\ rec[messages[a].commit.rev] = [id |-> messages[a].id, commit |-> messages[a].commit]
       /\ \A j \in (heard + 1) .. (messages[a].commit.rev - 1) :
            \E b \in 1 .. (a - 1) : messages[b].commit.rev = j
  /\ \A j \in (heard + 1) .. Len(rec) : \E b \in DOMAIN messages : messages[b].commit.rev = j

Fed(g) == g \in link /\ Feeds(down[g], log, doc[g].rev)

Tells(story) ==
  /\ Tale(story, log) /\ \A i \in Ids : Ruled(story[Len(log)], i)
  /\ doc[Host].rev = Len(log)
  /\ \A i \in Ids : Near(kept[Host], story[Len(log)], outbox[Host], log, Bound, i)

Hears(story, r) == Steady(r) => Follows(story, r) /\ (r # Host => Fed(r))

StoryInv == \E story : Tells(story) /\ \A r \in Replicas : Hears(story, r)

LEMMA NearLater ==
  ASSUME NEW d \in SoundDocs, NEW s, NEW row, NEW rec, NEW bound \in Nat, NEW bound2 \in Nat,
         bound <= bound2, NEW i \in Ids, Near(d, s, row, rec, bound, i)
  PROVE  Near(d, s, row, rec, bound2, i)
<1>1. GoneAt(d.gone, i) \in Nat
  BY DocIs, Gone DEF SoundDocs
<1> QED BY <1>1 DEF Near

LEMMA BoundIs ==
  ASSUME ReplicasInv
  PROVE  Bound \in Nat /\ Bound >= Clock(Host) /\ Bound >= doc[Host].clock
<1>1. Clock(Host) \in Nat /\ doc[Host].clock \in Nat
  BY Clocks, DocIs DEF Replicas, ReplicasInv, Copies, SoundDocs
<1> QED BY <1>1, Highers DEF Bound

\* The time goes on, and so does the host's.
LEMMA BoundGrows ==
  ASSUME ReplicasInv, ReplicasInv', now' >= now, doc'[Host].clock >= doc[Host].clock
  PROVE  Bound \in Nat /\ Bound' \in Nat /\ Bound <= Bound'
<1>1. now \in Nat /\ now' \in Nat /\ Ahead[Host] \in Nat /\ doc[Host].clock \in Nat /\ doc'[Host].clock \in Nat
  BY DocIs DEF Replicas, ReplicasInv, Counts, Copies, SoundDocs
<1>2. Bound = Higher(now + Ahead[Host], doc[Host].clock)
      /\ Bound' = Higher(now' + Ahead[Host], doc'[Host].clock)
  BY DEF Bound, Clock
<1> QED BY <1>1, <1>2 DEF Higher

\* What follows the story goes on to when only others do something.
LEMMA FollowsStill ==
  ASSUME ReplicasInv, ReplicasInv', now' >= now, doc'[Host].clock >= doc[Host].clock, log' = log,
         NEW story, NEW r \in Replicas, Follows(story, r),
         doc'[r] = doc[r], outbox'[r] = outbox[r], past'[r] = past[r], future'[r] = future[r]
  PROVE  Follows(story, r)'
<1>1. Bound \in Nat /\ Bound' \in Nat /\ Bound <= Bound'
  BY BoundGrows
<1>2. \A i \in Ids : Near(doc[r], story[doc[r].rev], outbox[r], log, Bound', i)
  BY <1>1, NearLater DEF Follows
<1> QED BY <1>2 DEF Follows, LowStacks

LEMMA TellsStill ==
  ASSUME ReplicasInv, ReplicasInv', now' >= now, doc'[Host] = doc[Host], kept'[Host] = kept[Host],
         outbox'[Host] = outbox[Host], log' = log, NEW story, Tells(story)
  PROVE  Tells(story)'
<1>1. Bound \in Nat /\ Bound' \in Nat /\ Bound <= Bound'
  <2>1. doc[Host].clock \in Nat
    BY DocIs DEF ReplicasInv, Copies, SoundDocs
  <2> QED BY <2>1, BoundGrows
<1>2. kept[Host] \in SoundDocs
  BY DEF ReplicasInv, Copies, Replicas
<1>3. \A i \in Ids : Near(kept[Host], story[Len(log)], outbox[Host], log, Bound', i)
  BY <1>1, <1>2, NearLater DEF Tells
<1>4. \A i \in Ids : Ruled(story[Len(log)], i)'
  BY DEF Tells, Ruled, LastWord, Allows, DeletedBefore
<1> QED BY <1>3, <1>4 DEF Tells

\* Two near documents have a near merge: the file of a machine and its screen.
LEMMA MergeNear ==
  ASSUME NEW a \in SoundDocs, NEW b \in SoundDocs, NEW s \in SoundDocs, NEW row, NEW more, NEW rec,
         NEW bound \in Nat, NEW bound2 \in Nat, bound <= bound2, NEW i \in Ids,
         Open(row, s.ops) \subseteq Open(more, s.ops), \A m \in DOMAIN rec : rec[m].id \in s.ops,
         Near(a, s, row, rec, bound, i), Near(b, s, more, rec, bound2, i)
  PROVE  Near(Merge(a, b), s, more, rec, bound2, i)
<1> DEFINE e == Merge(a, b)
<1>1. a \in Docs /\ b \in Docs
  BY DEF SoundDocs
<1>2. a.ops = s.ops /\ b.ops = s.ops
  BY DEF Near, Match, Frame
<1>3. Match(a, s, Open(more, s.ops), i) /\ Match(b, s, Open(more, s.ops), i)
  BY <1>2, MatchMore DEF Near
<1>4. Match(e, s, Open(more, s.ops), i)
  BY <1>1, <1>3, MatchMerge
<1>5. GoneAt(e.gone, i) = Higher(GoneAt(a.gone, i), GoneAt(b.gone, i))
  BY <1>1, MergeAt
<1>6. GoneAt(a.gone, i) \in Nat /\ GoneAt(b.gone, i) \in Nat
  BY <1>1, DocIs, Gone
<1> HIDE DEF e
<1>7. GoneAt(e.gone, i) <= bound2
  BY <1>5, <1>6 DEF Near, Higher
<1>8. e.ops = s.ops
  BY <1>4 DEF Match, Frame
<1>9. Due(more, e.ops, rec, GoneAt(e.gone, i), i)
  BY <1>8, DueFree
<1> QED BY <1>4, <1>7, <1>8, <1>9 DEF Near, e

LEMMA StoryIs ==
  ASSUME ReplicasInv, NEW story, Tells(story)
  PROVE  /\ Len(log) \in Nat /\ log \in Seq(Records)
         /\ \A k \in 0 .. Len(log) : story[k] \in SoundDocs /\ Sums(story, log, k)
         /\ \A m \in DOMAIN log : m \in 1 .. Len(log) /\ log[m].id \in OpIds /\ log[m].id \in story[Len(log)].ops
<1>1. log \in Seq(Records) /\ Len(log) \in Nat /\ DOMAIN log = 1 .. Len(log)
  BY DEF ReplicasInv, Recordings, Records
<1>2. \A k \in 0 .. Len(log) : story[k] \in SoundDocs /\ Sums(story, log, k)
  BY <1>1 DEF Tells, Tale
<1>3. ASSUME NEW m \in DOMAIN log PROVE m \in 1 .. Len(log) /\ log[m].id \in OpIds /\ log[m].id \in story[Len(log)].ops
  <2>1. log[m].id \in OpIds /\ m \in 1 .. Len(log)
    BY <1>1, RecordIs DEF Records
  <2>2. Len(log) \in 0 .. Len(log)
    BY <1>1
  <2> QED BY <1>2, <2>1, <2>2 DEF Sums
<1> QED BY <1>1, <1>2, <1>3

\* A row of operations leaves the clock, the revision and the ids alone.
LEMMA AppliedFrame ==
  ASSUME NEW d \in SoundDocs, NEW S, S \subseteq OpTypes, NEW ops \in Seq(S), NEW t \in Nat
  PROVE  ApplyAll(d, ops, t) \in SoundDocs /\ Frame(ApplyAll(d, ops, t), d)
<1> DEFINE D == {x \in SoundDocs : Frame(x, d)}
<1>1. d \in D
  BY DEF Frame
<1>2. ASSUME NEW x \in D, NEW k \in DOMAIN ops PROVE Apply(x, ops[k], t) \in D
  <2>1. ops[k] \in OpTypes
    BY InRow
  <2>2. x \in Docs /\ x \in SoundDocs /\ Frame(x, d)
    BY DEF SoundDocs
  <2>3. Apply(x, ops[k], t) \in SoundDocs
    BY <2>1, <2>2, ApplyIsSound
  <2>4. PICK i \in Ids : TRUE
    BY <2>1, OpIs
  <2>5. Frame(Apply(x, ops[k], t), x)
    BY <2>1, <2>2, ApplyAt
  <2> QED BY <2>2, <2>3, <2>5 DEF Frame
<1> HIDE DEF D
<1>3. ApplyAll(d, ops, t) \in D
  BY <1>1, <1>2, AppliesWithin
<1> QED BY <1>3 DEF D

\* A steady machine posts.
LEMMA PostFollows ==
  ASSUME ReplicasInv, ReplicasInv', BookInv, NEW story, Tells(story), NEW r \in Replicas, Follows(story, r),
         NEW ops, Posting(r, ops), Ahead[r] <= Ahead[Host]
  PROVE  Follows(story, r)' /\ doc'[r].rev = doc[r].rev
         /\ Open(outbox[r], doc[r].ops) \subseteq Open(outbox'[r], doc[r].ops)
<1> DEFINE envelopes == [k \in DOMAIN ops |-> [id |-> used + k, op |-> ops[k]]]
           t == ActClock(r)
<1>0. PICK n \in Nat : n = doc[r].rev
  BY DocIs DEF Follows, SoundDocs
<1>1. /\ used + Len(ops) <= MaxPosts /\ now' = Later(now)
      /\ doc' = [doc EXCEPT ![r] = ApplyAll(@, ops, t)]
      /\ outbox' = [outbox EXCEPT ![r] = @ \o envelopes]
      /\ UNCHANGED <<link, down, log, breaks>>
  BY DEF Posting, PostAll
<1>2. ops \in Seq(TimedOps(t)) /\ Len(ops) \in Nat /\ DOMAIN ops = 1 .. Len(ops) /\ used \in Nat
  BY DEF Posting, ReplicasInv, Counts
<1>3. doc[r] \in SoundDocs /\ n \in 0 .. Len(log) /\ LowStacks(r, n)
      /\ \A i \in Ids : Near(doc[r], story[n], outbox[r], log, Bound, i)
  BY <1>0 DEF Follows
<1>4. LowNotes(doc[r], n)
  <2>1. \A i \in Ids : i \in Shown(doc[r]) => doc[r].notes[i].rev <= n
    BY <1>0, <1>3 DEF Near, Match
  <2> QED BY <2>1 DEF LowNotes, Shown
<1>5. ops \in Seq(LowOps(n)) /\ LowStacks(r, n)'
  BY <1>3, <1>4 DEF Posting
<1>6. t \in Nat /\ t <= Bound'
  <2>1. Later(now) \in Nat /\ Ahead[r] \in Nat /\ Ahead[Host] \in Nat
    BY Clocks DEF Replicas
  <2>2. Clock(Host)' = Later(now) + Ahead[Host]
    BY <1>1 DEF Clock
  <2>3. Bound' \in Nat /\ Bound' >= Clock(Host)'
    <3>1. Clock(Host)' \in Nat /\ doc'[Host].clock \in Nat
      BY <2>1, <2>2, DocIs DEF ReplicasInv, Copies, SoundDocs
    <3> QED BY <3>1 DEF Bound, Higher
  <2> QED BY <2>1, <2>2, <2>3 DEF ActClock
<1>8. Frame(ApplyAll(doc[r], ops, t), doc[r])
  <2>1. TimedOps(t) \subseteq OpTypes
    BY DEF TimedOps
  <2> QED BY <1>2, <1>3, <1>6, <2>1, AppliedFrame
<1>7. Bound \in Nat /\ Bound' \in Nat /\ Bound <= Bound'
  <2>1. now' >= now
    BY <1>1, DocIs DEF Later, Higher, ReplicasInv, Copies, SoundDocs, Counts
  <2>2. doc'[Host].clock >= doc[Host].clock
    <3>1. CASE r # Host
      <4>1. doc'[Host] = doc[Host] /\ doc[Host].clock \in Nat
        BY <1>1, <3>1, DocIs DEF ReplicasInv, Copies, SoundDocs
      <4> QED BY <4>1
    <3>2. CASE r = Host
      <4>1. doc'[r] = ApplyAll(doc[r], ops, t) /\ doc[r].clock \in Nat
        BY <1>1, <1>3, DocIs DEF ReplicasInv, Copies, SoundDocs
      <4> QED BY <1>8, <3>2, <4>1 DEF Frame
    <3> QED BY <3>1, <3>2
  <2> QED BY <2>1, <2>2, BoundGrows
<1>9. \A k \in 1 .. Len(ops) : used + k \in OpIds
  BY <1>1, <1>2 DEF OpIds
<1>10. envelopes \in Seq(Envelopes) /\ Len(envelopes) = Len(ops)
       /\ \A k \in DOMAIN ops : envelopes[k].id = used + k /\ envelopes[k].op = ops[k]
  <2>1. \A k \in 1 .. Len(ops) : ops[k] \in OpTypes
    <3>1. \A k \in DOMAIN ops : ops[k] \in TimedOps(t)
      BY <1>2, InRow
    <3> QED BY <1>2, <3>1 DEF TimedOps
  <2>2. envelopes \in [1 .. Len(ops) -> Envelopes]
    BY <1>2, <1>9, <2>1 DEF Envelopes
  <2>3. \A k \in DOMAIN ops : envelopes[k].id = used + k /\ envelopes[k].op = ops[k]
    OBVIOUS
  <2> HIDE DEF envelopes
  <2> QED BY <1>2, <2>2, <2>3, OneByOne
<1> HIDE DEF envelopes, t
<1>11. outbox[r] \in Seq(Envelopes) /\ outbox'[r] = outbox[r] \o envelopes /\ doc'[r] = ApplyAll(doc[r], ops, t)
  BY <1>1 DEF ReplicasInv, Posted, Copies
<1>12. \A k \in DOMAIN log : log[k].id <= used
  BY TheSameOp
<1>13. ASSUME NEW i \in Ids PROVE \A id \in doc[r].ops : id <= used
  <2>1. Sums(story, log, n) /\ Len(log) \in Nat /\ DOMAIN log = 1 .. Len(log)
    BY <1>3, StoryIs DEF ReplicasInv, Recordings
  <2>2. doc[r].ops = story[n].ops
    BY <1>3 DEF Near, Match, Frame
  <2> SUFFICES ASSUME NEW id \in doc[r].ops PROVE id <= used
    OBVIOUS
  <2>3. id \in OpIds
    BY <1>3, DocIs DEF SoundDocs
  <2>4. PICK j \in 1 .. n : log[j].id = id
    BY <2>1, <2>2, <2>3 DEF Sums
  <2>5. j \in DOMAIN log
    BY <1>3, <2>1
  <2> QED BY <1>12, <2>4, <2>5
<1>14. doc'[r] \in SoundDocs /\ doc'[r].rev = n /\ log' = log /\ doc'[r].ops = doc[r].ops
  <2>1. TimedOps(t) \subseteq OpTypes
    BY DEF TimedOps
  <2>2. ApplyAll(doc[r], ops, t) \in SoundDocs
    BY <1>2, <1>3, <1>6, <2>1, AppliedFrame
  <2> QED BY <1>1, <1>0, <1>8, <1>11, <2>2 DEF Frame
<1>15. story[n] \in SoundDocs
  BY <1>3, StoryIs
<1>16. PICK b1 \in Nat, b2 \in Nat : b1 = Bound /\ b2 = Bound' /\ b1 <= b2
  BY <1>7
<1>17. \A i \in Ids : Near(doc'[r], story[n], outbox'[r], log, b2, i)
  <2> SUFFICES ASSUME NEW i \in Ids PROVE Near(doc'[r], story[n], outbox'[r], log, b2, i)
    OBVIOUS
  <2>1. Near(doc[r], story[n], outbox[r], log, b1, i)
    BY <1>3, <1>16
  <2>2. ops \in Seq(LowOps(doc[r].rev)) /\ t <= b2
    BY <1>5, <1>0, <1>6, <1>16
  <2>3. \A id \in doc[r].ops : id <= used
    BY <1>13
  <2>4. used \in Nat /\ Envelops(envelopes, ops, used)
    BY <1>2, <1>10 DEF Envelops
  <2>5. Near(ApplyAll(doc[r], ops, t), story[n], outbox[r] \o envelopes, log, b2, i)
    <3>0. PICK rec : rec = log
      OBVIOUS
    <3>1. PICK row \in Seq(Envelopes), d \in SoundDocs, s \in SoundDocs :
            row = outbox[r] /\ d = doc[r] /\ s = story[n] /\ rec = log
      BY <1>3, <1>11, <1>15, <3>0
    <3>2. ops \in Seq(TimedOps(t)) /\ ops \in Seq(LowOps(d.rev)) /\ t \in Nat /\ t <= b2
      BY <1>2, <1>6, <2>2, <3>1
    <3>3. Given(d, rec, used) /\ Near(d, s, row, rec, b1, i)
      BY <1>12, <2>1, <2>3, <3>1 DEF Given
    <3>4. b1 <= b2
      BY <1>16
    <3>5. \A more, e : more = row \o envelopes /\ e = ApplyAll(d, ops, t) => Near(e, s, more, rec, b2, i)
      BY <2>4, <3>2, <3>3, <3>4, PostIsNear
    <3> QED BY <3>1, <3>5
  <2> QED BY <1>11, <2>5
<1>18. Follows(story, r)'
  BY <1>3, <1>5, <1>14, <1>16, <1>17 DEF Follows, LowStacks
<1>19. Open(outbox[r], doc[r].ops) \subseteq Open(outbox'[r], doc[r].ops)
  <2>1. \A k \in DOMAIN outbox[r] : k \in DOMAIN outbox'[r] /\ outbox'[r][k] = outbox[r][k]
    BY <1>10, <1>11
  <2> QED BY <2>1 DEF Open
<1> QED BY <1>0, <1>14, <1>18, <1>19

\* Nothing happens to a machine.
LEMMA HearsStill ==
  ASSUME ReplicasInv, ReplicasInv', now' >= now, doc'[Host].clock >= doc[Host].clock, log' = log,
         NEW story, NEW r \in Replicas, Hears(story, r),
         doc'[r] = doc[r], outbox'[r] = outbox[r], past'[r] = past[r], future'[r] = future[r],
         r # Host => down'[r] = down[r] /\ breaks'[r] = breaks[r] /\ (r \in link => r \in link')
  PROVE  Hears(story, r)'
<1> SUFFICES ASSUME Steady(r)' PROVE Follows(story, r)' /\ (r # Host => Fed(r)')
  BY DEF Hears
<1>1. Steady(r)
  BY DEF Steady
<1>2. Follows(story, r) /\ (r # Host => Fed(r))
  BY <1>1 DEF Hears
<1>3. Follows(story, r)'
  BY <1>2, FollowsStill
<1> QED BY <1>2, <1>3 DEF Fed

LEMMA StoryPost ==
  ASSUME ReplicasInv, ReplicasInv', BookInv, StoryInv, NEW r \in Replicas, NEW ops, Posting(r, ops)
  PROVE  StoryInv'
<1>1. PICK story : Tells(story) /\ \A m \in Replicas : Hears(story, m)
  BY DEF StoryInv
<1>2. PostAll(r, ops) /\ doc \in [Replicas -> SoundDocs \union {None}] /\ outbox \in [Replicas -> Seq(Envelopes)]
      /\ kept \in [Replicas -> SoundDocs] /\ \A m \in Replicas : m # r => past'[m] = past[m] /\ future'[m] = future[m]
  BY DEF Posting, ReplicasInv, Copies, Posted
<1>3. /\ \A m \in Replicas : m # r => doc'[m] = doc[m] /\ outbox'[m] = outbox[m] /\ kept'[m] = kept[m]
      /\ kept'[r] = Merge(kept[r], doc'[r])
      /\ link' = link /\ down' = down /\ log' = log /\ breaks' = breaks /\ Host \in Replicas
  BY <1>2 DEF PostAll, Replicas
<1>4. now' >= now
  BY <1>2, DocIs DEF PostAll, Later, Higher, ReplicasInv, Copies, SoundDocs, Counts
<1>5. Steady(r) => Ahead[r] <= Ahead[Host] /\ Follows(story, r) /\ (r # Host => Fed(r))
  <2>1. Ahead[r] \in Nat
    OBVIOUS
  <2> QED BY <1>1, <2>1 DEF Steady, Hears
<1>6. Steady(r) => /\ Follows(story, r)' /\ doc'[r].rev = doc[r].rev
                   /\ Open(outbox[r], doc[r].ops) \subseteq Open(outbox'[r], doc[r].ops)
  BY <1>1, <1>5, PostFollows
<1>7. doc[Host] \in SoundDocs /\ doc'[Host] \in SoundDocs /\ doc[Host].clock \in Nat /\ doc'[Host].clock \in Nat
  BY DocIs DEF ReplicasInv, Copies, SoundDocs
<1>8. doc'[Host].clock >= doc[Host].clock
  <2>1. CASE r # Host
    BY <1>3, <1>7, <2>1
  <2>2. CASE r = Host
    <3>1. doc'[r] = ApplyAll(doc[r], ops, ActClock(r)) /\ ops \in Seq(TimedOps(ActClock(r))) /\ ActClock(r) \in Nat
      BY <1>2, Clocks DEF PostAll, Posting
    <3>2. TimedOps(ActClock(r)) \subseteq OpTypes
      BY DEF TimedOps
    <3>3. Frame(doc'[r], doc[r])
      BY <1>7, <2>2, <3>1, <3>2, AppliedFrame
    <3> QED BY <1>7, <2>2, <3>3 DEF Frame
  <2> QED BY <2>1, <2>2
<1>9. ASSUME NEW m \in Replicas, m # r PROVE Hears(story, m)'
  <2>1. doc'[m] = doc[m] /\ outbox'[m] = outbox[m] /\ past'[m] = past[m] /\ future'[m] = future[m]
        /\ down'[m] = down[m] /\ breaks'[m] = breaks[m]
    BY <1>2, <1>3, <1>9
  <2> QED BY <1>1, <1>3, <1>4, <1>8, <2>1, HearsStill
<1>10. Hears(story, r)'
  <2> SUFFICES ASSUME Steady(r)' PROVE Follows(story, r)' /\ (r # Host => Fed(r)')
    BY DEF Hears
  <2>1. Steady(r)
    BY <1>3 DEF Steady
  <2> QED BY <1>3, <1>5, <1>6, <2>1 DEF Fed
<1>11. Tells(story)'
  <2>1. CASE r # Host
    BY <1>1, <1>3, <1>4, <2>1, TellsStill
  <2>2. CASE r = Host
    <3>1. PICK n \in Nat : n = Len(log)
      BY DEF ReplicasInv, Recordings
    <3>2. Tale(story, log) /\ (\A i \in Ids : Ruled(story[n], i)) /\ doc[Host].rev = n
          /\ \A i \in Ids : Near(kept[Host], story[n], outbox[Host], log, Bound, i)
      BY <1>1, <3>1 DEF Tells
    <3>3. story[n] \in SoundDocs /\ \A m \in DOMAIN log : log[m].id \in story[n].ops
      <4>1. n \in 0 .. Len(log)
        BY <3>1
      <4> QED BY <1>1, <3>1, <4>1, StoryIs
    <3>4. Follows(story, Host)' /\ doc'[Host].rev = n /\ Open(outbox[Host], doc[Host].ops) \subseteq Open(outbox'[Host], doc[Host].ops)
      BY <1>6, <2>2, <3>2 DEF Steady
    <3>5. Follows(story, Host)
      BY <1>5, <2>2 DEF Steady
    <3>6. \A i \in Ids : Near(doc'[Host], story[n], outbox'[Host], log, Bound', i)
      BY <1>3, <3>4 DEF Follows
    <3>7. PICK b1 \in Nat, b2 \in Nat : b1 = Bound /\ b2 = Bound' /\ b1 <= b2
      BY <1>4, <1>8, BoundGrows
    <3>8. ASSUME NEW i \in Ids PROVE Near(kept'[Host], story[n], outbox'[Host], log, b2, i)
      <4>1. Near(kept[Host], story[n], outbox[Host], log, b1, i) /\ Near(doc'[Host], story[n], outbox'[Host], log, b2, i)
        BY <3>2, <3>6, <3>7
      <4>2. doc[Host].ops = story[n].ops
        BY <3>2, <3>5 DEF Follows, Near, Match, Frame
      <4>3. Open(outbox[Host], story[n].ops) \subseteq Open(outbox'[Host], story[n].ops)
        BY <3>4, <4>2
      <4>4. kept[Host] \in SoundDocs
        BY <1>2, <1>3
      <4>5. Near(Merge(kept[Host], doc'[Host]), story[n], outbox'[Host], log, b2, i)
        BY <1>7, <3>3, <3>7, <4>1, <4>3, <4>4, MergeNear
      <4> QED BY <1>3, <2>2, <4>5
    <3>9. \A i \in Ids : Ruled(story[n], i)'
      BY <1>3, <3>2 DEF Ruled, LastWord, Allows, DeletedBefore
    <3> QED BY <1>3, <3>1, <3>2, <3>4, <3>7, <3>8, <3>9 DEF Tells
  <2> QED BY <2>1, <2>2
<1> QED BY <1>9, <1>10, <1>11 DEF StoryInv

LEMMA StoryBegin == Init => StoryInv
<1> SUFFICES ASSUME Init PROVE StoryInv
  OBVIOUS
<1> DEFINE story == [k \in 0 .. 0 |-> FirstDoc]
<1>1. ReplicasInv
  BY ReplicasBegin
<1>2. /\ now = 1 /\ doc = [r \in Replicas |-> FirstDoc] /\ kept = doc
      /\ past = [r \in Replicas |-> <<>>] /\ future = past
      /\ outbox = [r \in Replicas |-> <<>>] /\ link = Guests /\ down = [g \in Guests |-> <<>>] /\ log = <<>>
  BY DEF Init
<1>3. Host \in Replicas /\ \A r \in Replicas : doc[r] = FirstDoc /\ kept[r] = FirstDoc /\ outbox[r] = <<>>
                                            /\ past[r] = <<>> /\ future[r] = <<>>
  BY <1>2 DEF Replicas
<1>4. FirstDoc \in SoundDocs
  BY <1>1, <1>3 DEF ReplicasInv, Copies
<1>5. FirstDoc.rev = 0 /\ FirstDoc.clock = 0 /\ FirstDoc.ops = {} /\ FirstDoc.gone = [i \in Ids |-> 0]
      /\ FirstDoc.notes = [i \in Ids |-> IF i \in First THEN NewNote(Min(Bodies), 1) ELSE None]
  BY DEF FirstDoc
<1>6. NewNote(Min(Bodies), 1) \in Notes /\ NewNote(Min(Bodies), 1) # None
      /\ NewNote(Min(Bodies), 1).back = 0 /\ NewNote(Min(Bodies), 1).rev = 0
  <2>1. NewNote(Min(Bodies), 1) \in Notes
    BY FirstBody, NewNoteIs
  <2> QED BY <2>1 DEF NewNote
<1>7. ASSUME NEW i \in Ids PROVE GoneAt(FirstDoc.gone, i) = 0 /\ (i \in Shown(FirstDoc) <=> i \in First) /\ Past(FirstDoc, i)
  <2>1. GoneAt(FirstDoc.gone, i) = 0
    BY <1>5 DEF GoneAt, Higher
  <2>2. i \in Shown(FirstDoc) <=> i \in First
    BY <1>5, <1>6 DEF Shown
  <2>3. i \in First => FirstDoc.notes[i] = NewNote(Min(Bodies), 1)
    BY <1>5
  <2> QED BY <1>5, <1>6, <2>1, <2>2, <2>3 DEF Past
<1>8. ASSUME NEW i \in Ids PROVE Near(FirstDoc, FirstDoc, <<>>, <<>>, Bound, i)
  <2>1. Open(<<>>, FirstDoc.ops) = {}
    BY DEF Open
  <2>2. Match(FirstDoc, FirstDoc, {}, i)
    BY <1>7, MatchItself
  <2>3. Due(<<>>, FirstDoc.ops, <<>>, GoneAt(FirstDoc.gone, i), i)
    BY DueFree
  <2>4. GoneAt(FirstDoc.gone, i) <= Bound
    BY <1>1, <1>7, BoundIs
  <2> HIDE DEF FirstDoc
  <2> QED BY <2>1, <2>2, <2>3, <2>4 DEF Near
<1>9. Len(log) = 0 /\ DOMAIN log = {} /\ story[0] = FirstDoc /\ story \in [0 .. 0 -> SoundDocs]
  BY <1>2, <1>4
<1>10. Tells(story)
  <2>1. Sums(story, log, 0)
    <3>1. \A i \in Ids : Past(FirstDoc, i)
      BY <1>7
    <3> QED BY <1>5, <1>9, <3>1 DEF Sums
  <2>2. \A k \in 0 .. 0 : k = 0
    OBVIOUS
  <2>3. Tale(story, log)
    BY <1>9, <2>1, <2>2 DEF Tale
  <2>4. \A i \in Ids : Ruled(FirstDoc, i)
    BY <1>7, <1>9 DEF Ruled
  <2> QED BY <1>2, <1>3, <1>5, <1>8, <1>9, <2>3, <2>4 DEF Tells
<1>11. ASSUME NEW r \in Replicas PROVE Follows(story, r) /\ (r # Host => Fed(r))
  <2>1. LowStacks(r, 0)
    BY <1>3, NoneOf DEF LowStacks
  <2>2. Follows(story, r)
    BY <1>2, <1>3, <1>4, <1>5, <1>8, <1>9, <2>1 DEF Follows
  <2>3. r # Host => r \in link /\ down[r] = <<>> /\ doc[r].rev = 0
    BY <1>2, <1>3, <1>5 DEF Replicas
  <2>4. r # Host => Feeds(<<>>, log, 0)
    BY <1>9 DEF Feeds
  <2> QED BY <2>2, <2>3, <2>4 DEF Fed
<1> HIDE DEF story
<1> QED BY <1>10, <1>11 DEF StoryInv, Hears

\* What a guest that is not steady does, or a steady one that leaves.
LEMMA StoryElsewhere ==
  ASSUME ReplicasInv, ReplicasInv', StoryInv, NEW g \in Guests, ~Steady(g)', now' >= now, log' = log,
         \A m \in Replicas : m # g => doc'[m] = doc[m] /\ outbox'[m] = outbox[m] /\ kept'[m] = kept[m]
                                      /\ past'[m] = past[m] /\ future'[m] = future[m],
         \A m \in Guests : m # g => down'[m] = down[m] /\ breaks'[m] = breaks[m] /\ (m \in link => m \in link')
  PROVE  StoryInv'
<1>1. PICK story : Tells(story) /\ \A m \in Replicas : Hears(story, m)
  BY DEF StoryInv
<1>2. Host \in Replicas /\ Host # g /\ g \in Replicas /\ \A m \in Replicas : m # Host => m \in Guests
  BY DEF Replicas
<1>3. doc[Host].clock \in Nat
  BY DocIs DEF ReplicasInv, Copies, SoundDocs
<1>4. Tells(story)'
  BY <1>1, <1>2, TellsStill
<1>5. ASSUME NEW m \in Replicas PROVE Hears(story, m)'
  <2>1. CASE m = g
    BY <2>1 DEF Hears
  <2>2. CASE m # g
    <3>1. doc'[m] = doc[m] /\ outbox'[m] = outbox[m] /\ past'[m] = past[m] /\ future'[m] = future[m]
          /\ (m # Host => down'[m] = down[m] /\ breaks'[m] = breaks[m] /\ (m \in link => m \in link'))
      BY <1>2, <2>2
    <3>2. doc'[Host].clock >= doc[Host].clock
      BY <1>2, <1>3
    <3> QED BY <1>1, <3>1, <3>2, HearsStill
  <2> QED BY <2>1, <2>2
<1> QED BY <1>4, <1>5 DEF StoryInv

\* A steady guest is in the room, and hears commits only.
LEMMA SteadyHears ==
  ASSUME ReplicasInv, StoryInv, NEW g \in Guests, Steady(g)
  PROVE  g \in link /\ (down[g] # <<>> => Head(down[g]).t = "commit")
<1>1. g \in link /\ Feeds(down[g], log, doc[g].rev) /\ down[g] \in Seq(SoundDowns)
  BY DEF StoryInv, Hears, Fed, Replicas, ReplicasInv, Deliveries
<1>2. ASSUME down[g] # <<>> PROVE Head(down[g]).t = "commit"
  <2>1. 1 \in DOMAIN down[g] /\ Head(down[g]) = down[g][1]
    BY <1>1, <1>2
  <2>2. \A a \in DOMAIN down[g] : down[g][a].t = "commit"
    BY <1>1, Zenon DEF Feeds
  <2> QED BY <2>1, <2>2
<1> QED BY <1>1, <1>2

LEMMA LaterIs ==
  ASSUME ReplicasInv
  PROVE  now \in Nat /\ Later(now) >= now
BY DocIs DEF Later, Higher, ReplicasInv, Copies, SoundDocs, Counts

LEMMA StoryAdopts ==
  ASSUME ReplicasInv, ReplicasInv', StoryInv, NEW g \in Guests, GuestAdopts(g)
  PROVE  StoryInv'
<1>1. ~Steady(g) /\ breaks' = breaks
  BY SteadyHears DEF GuestAdopts
<1>2. ~Steady(g)'
  BY <1>1 DEF Steady
<1>3. now' >= now
  BY LaterIs DEF GuestAdopts
<1> QED BY <1>2, <1>3, StoryElsewhere DEF GuestAdopts, ReplicasInv, Copies, Deliveries

LEMMA StoryBreaks ==
  ASSUME ReplicasInv, ReplicasInv', StoryInv, NEW g \in Guests, LinkBreaks(g)
  PROVE  StoryInv'
<1>1. ~Steady(g)'
  BY DEF Steady, LinkBreaks, ReplicasInv, Counts
<1>2. now' >= now
  BY LaterIs DEF LinkBreaks
<1> QED BY <1>1, <1>2, StoryElsewhere DEF LinkBreaks, ReplicasInv, Copies, Deliveries, Stacks, Counts

LEMMA StoryJoins ==
  ASSUME ReplicasInv, ReplicasInv', StoryInv, NEW g \in Guests, GuestJoins(g)
  PROVE  StoryInv'
<1>1. ~Steady(g) /\ breaks' = breaks
  BY SteadyHears DEF GuestJoins
<1>2. ~Steady(g)'
  BY <1>1 DEF Steady
<1>3. now' >= now
  BY LaterIs DEF GuestJoins
<1> QED BY <1>2, <1>3, StoryElsewhere DEF GuestJoins, ReplicasInv, Deliveries

LEMMA StoryStutter ==
  ASSUME ReplicasInv, StoryInv, UNCHANGED vars
  PROVE  StoryInv'
<1>1. PICK story : Tells(story) /\ \A m \in Replicas : Hears(story, m)
  BY DEF StoryInv
<1>2. Tells(story)' /\ \A m \in Replicas : Hears(story, m)'
  BY <1>1 DEF vars, Tells, Hears, Steady, Follows, Fed, LowStacks, Bound, Clock, Ruled, LastWord, Allows, DeletedBefore
<1> QED BY <1>2 DEF StoryInv

-----------------------------------------------------------------------------
(* A commit is heard. *)

LEMMA OpenWithout ==
  ASSUME NEW row \in Seq(Envelopes), NEW id \in OpIds, NEW ops, NEW w, w = Without(row, id)
  PROVE  /\ Open(w, ops \union {id}) \subseteq Open(row, ops)
         /\ \A op \in Open(row, ops) : op \in Open(w, ops \union {id}) \/ \E k \in DOMAIN row : row[k].id = id /\ row[k].op = op
         /\ id \in ops => Open(w, ops) = Open(row, ops)
<1>1. /\ \A m \in DOMAIN w : \E k \in DOMAIN row : w[m] = row[k]
      /\ \A k \in DOMAIN row : row[k].id # id => \E m \in DOMAIN w : w[m] = row[k]
  BY WithoutIs
<1>2. ASSUME NEW op \in Open(w, ops \union {id}) PROVE op \in Open(row, ops)
  <2>1. PICK m \in DOMAIN w : w[m].id \notin ops \union {id} /\ w[m].op = op /\ op \in OpTypes
    BY DEF Open
  <2>2. PICK k \in DOMAIN row : w[m] = row[k]
    BY <1>1
  <2> QED BY <2>1, <2>2 DEF Open
<1>3. ASSUME NEW op \in Open(row, ops)
      PROVE  op \in Open(w, ops \union {id}) \/ \E k \in DOMAIN row : row[k].id = id /\ row[k].op = op
  <2>1. PICK k \in DOMAIN row : row[k].id \notin ops /\ row[k].op = op /\ op \in OpTypes
    BY DEF Open
  <2>2. CASE row[k].id = id
    BY <2>1, <2>2
  <2>3. CASE row[k].id # id
    <3>1. PICK m \in DOMAIN w : w[m] = row[k]
      BY <1>1, <2>3
    <3> QED BY <2>1, <2>3, <3>1 DEF Open
  <2> QED BY <2>2, <2>3
<1>4. ASSUME id \in ops PROVE Open(w, ops) = Open(row, ops)
  <2>1. ops \union {id} = ops
    BY <1>4
  <2>2. ASSUME NEW op \in Open(row, ops) PROVE op \in Open(w, ops)
    <3>1. PICK k \in DOMAIN row : row[k].id \notin ops /\ row[k].op = op /\ op \in OpTypes
      BY DEF Open
    <3>2. PICK m \in DOMAIN w : w[m] = row[k]
      BY <1>1, <1>4, <3>1
    <3> QED BY <3>1, <3>2 DEF Open
  <2> QED BY <1>2, <2>1, <2>2
<1> QED BY <1>2, <1>3, <1>4

\* It was known.
LEMMA NearAnswered ==
  ASSUME NEW d, NEW s, NEW row \in Seq(Envelopes), NEW rec, NEW bound, NEW i,
         NEW id \in OpIds, id \in d.ops, Near(d, s, row, rec, bound, i)
  PROVE  Near(d, s, Without(row, id), rec, bound, i)
<1>0. PICK w : w = Without(row, id)
  OBVIOUS
<1>1. Open(w, d.ops) = Open(row, d.ops)
  BY <1>0, OpenWithout
<1>2. \A k \in DOMAIN row : row[k].id # id => \E m \in DOMAIN w : w[m] = row[k]
  BY <1>0, WithoutIs
<1>3. Due(w, d.ops, rec, GoneAt(d.gone, i), i)
  <2> SUFFICES ASSUME HasDel(Open(w, d.ops), i)
               PROVE  \E m \in DOMAIN w :
                        /\ w[m].id \notin d.ops /\ Deletes(w[m].op, i)
                        /\ \A q \in DOMAIN rec : rec[q].id = w[m].id => GoneAt(d.gone, i) <= rec[q].commit.clock
    BY DEF Due
  <2>1. PICK k \in DOMAIN row :
            /\ row[k].id \notin d.ops /\ Deletes(row[k].op, i)
            /\ \A q \in DOMAIN rec : rec[q].id = row[k].id => GoneAt(d.gone, i) <= rec[q].commit.clock
    BY <1>1 DEF Near, Due
  <2>2. PICK m \in DOMAIN w : w[m] = row[k]
    BY <1>2, <2>1
  <2> QED BY <2>1, <2>2, Zenon
<1> QED BY <1>0, <1>1, <1>3 DEF Near

\* It is new.
Nears(d, s, row, rec, bound) == \A j \in Ids : Near(d, s, row, rec, bound, j) /\ Past(s, j)
Follow(d, s, c, id) == Stamped(c) /\ id \notin d.ops /\ c.rev = s.rev + 1 /\ c.clock > s.clock
Lapses(d, row, ops, w, c, i) ==
  HasDel(Open(row, d.ops), i) /\ ~HasDel(Open(w, ops), i) => GoneAt(d.gone, i) <= c.clock
Answers(row, id, c) == \A k \in DOMAIN row : row[k].id = id => Alike(row[k].op, c.op)

\* A document near the story hears the next commit, and is near its next document.
LEMMA CommitNear ==
  ASSUME NEW d \in SoundDocs, NEW s \in SoundDocs, NEW c \in Commits, NEW id \in OpIds,
         Follow(d, s, c, id), NEW row \in Seq(Envelopes), Answers(row, id, c),
         NEW rec, NEW bound, Nears(d, s, row, rec, bound), NEW i \in Ids,
         NEW ops, ops = d.ops \union {id}, NEW w, w = Without(row, id), NEW e, e = ApplyCommit(d, c, id),
         Lapses(d, row, ops, w, c, i)
  PROVE  /\ e \in SoundDocs /\ e.ops = ops /\ Match(e, ApplyCommit(s, c, id), Open(w, ops), i)
         /\ GoneAt(e.gone, i) \in {GoneAt(d.gone, i), Higher(GoneAt(d.gone, i), c.clock)}
<1> DEFINE X == Open(row, d.ops)
           Y == Open(w, ops)
<1>1. Y \subseteq X /\ \A op \in X : op \in Y \/ Alike(op, c.op)
  BY OpenWithout DEF Answers
<1>2. \A j \in Ids : Match(d, s, X, j) /\ Past(s, j)
  BY DEF Nears, Near
<1>8. Stamped(c) /\ id \notin d.ops /\ c.rev = s.rev + 1 /\ c.clock > s.clock
  BY DEF Follow
<1> HIDE DEF X, Y
<1>3. Match(ApplyCommit(d, c, id), ApplyCommit(s, c, id), Y, i)
  <2>1. HasDel(X, i) /\ ~HasDel(Y, i) => GoneAt(d.gone, i) <= c.clock
    BY DEF X, Y, Lapses
  <2> QED BY <1>1, <1>2, <1>8, <2>1, MatchCommit
<1>4. c.op.id \in Ids /\ c.op \in OpTypes
  BY OpIs DEF Commits
<1>5. c.op.id \in Shown(d) => d.notes[c.op.id].rev < c.rev
  <2>1. d.rev = s.rev /\ s.rev \in Nat
    BY <1>2, <1>4, DocIs DEF Match, Frame, SoundDocs
  <2>2. c.op.id \in Shown(d) => d.notes[c.op.id].rev <= d.rev /\ d.notes[c.op.id].rev \in Nat
    BY <1>2, <1>4, DocIs, NoteIs DEF Match, SoundDocs
  <2> QED BY <1>8, <2>1, <2>2
<1>6. e \in SoundDocs
  BY CommitIsSound
<1>7. e.ops = d.ops \union {id}
      /\ GoneAt(e.gone, i) = IF Deletes(c.op, i) THEN Higher(GoneAt(d.gone, i), c.clock) ELSE GoneAt(d.gone, i)
  BY <1>5, <1>8, CommitAt
<1> QED BY <1>3, <1>6, <1>7 DEF Y

\* At the host, whose clock is after everything, and which has every commit.
LEMMA HostNear ==
  ASSUME NEW d \in SoundDocs, NEW s \in SoundDocs, NEW c \in Commits, NEW id \in OpIds,
         Follow(d, s, c, id),
         NEW row \in Seq(Envelopes), Answers(row, id, c), NEW rec, NEW bound \in Nat,
         Nears(d, s, row, rec, bound), NEW i \in Ids, bound <= c.clock,
         NEW more, \A m \in DOMAIN more : more[m].id \in d.ops \union {id}
  PROVE  Near(ApplyCommit(d, c, id), ApplyCommit(s, c, id), Without(row, id), more, c.clock, i)
<1>0. PICK ops, w, e : ops = d.ops \union {id} /\ w = Without(row, id) /\ e = ApplyCommit(d, c, id)
  OBVIOUS
<1>1. GoneAt(d.gone, i) \in Nat /\ GoneAt(d.gone, i) <= bound /\ c.clock \in Nat
  BY DocIs, Gone DEF SoundDocs, Nears, Near, Commits
<1>2. /\ e.ops = ops /\ Match(e, ApplyCommit(s, c, id), Open(w, ops), i)
      /\ GoneAt(e.gone, i) \in {GoneAt(d.gone, i), Higher(GoneAt(d.gone, i), c.clock)}
  <2>1. Lapses(d, row, ops, w, c, i)
    BY <1>1 DEF Lapses
  <2> QED BY <1>0, <2>1, CommitNear
<1>3. GoneAt(e.gone, i) <= c.clock
  BY <1>1, <1>2 DEF Higher
<1>4. Due(w, e.ops, more, GoneAt(e.gone, i), i)
  BY <1>0, <1>2, DueFree
<1> QED BY <1>0, <1>2, <1>3, <1>4 DEF Near

\* At a guest that hears the commits in order.
LEMMA GuestNear ==
  ASSUME NEW d \in SoundDocs, NEW s \in SoundDocs, NEW c \in Commits, NEW id \in OpIds,
         Follow(d, s, c, id),
         NEW row \in Seq(Envelopes), Answers(row, id, c), NEW rec \in Seq(Records), NEW bound \in Nat,
         Nears(d, s, row, rec, bound), NEW i \in Ids, c.clock <= bound,
         \E m \in DOMAIN rec : rec[m].id = id /\ rec[m].commit = c,
         \A m \in DOMAIN rec : rec[m].id \notin d.ops => c.clock <= rec[m].commit.clock
  PROVE  Near(ApplyCommit(d, c, id), ApplyCommit(s, c, id), Without(row, id), rec, bound, i)
<1>0. PICK ops, w, e, gone :
        ops = d.ops \union {id} /\ w = Without(row, id) /\ e = ApplyCommit(d, c, id) /\ gone = GoneAt(d.gone, i)
  OBVIOUS
<1>1. gone \in Nat /\ gone <= bound /\ c.clock \in Nat /\ Due(row, d.ops, rec, gone, i)
  BY <1>0, DocIs, Gone DEF SoundDocs, Nears, Near, Commits
<1>2. \A m \in DOMAIN rec : rec[m].commit.clock \in Nat
  BY RecordIs DEF Records, Commits
<1>3. (\A m \in DOMAIN w : \E k \in DOMAIN row : w[m] = row[k])
      /\ \A k \in DOMAIN row : row[k].id # id => \E m \in DOMAIN w : w[m] = row[k]
  BY <1>0, WithoutIs
<1>4. Open(w, ops) \subseteq Open(row, d.ops)
  BY <1>0, OpenWithout
<1>5. ASSUME HasDel(Open(row, d.ops), i)
      PROVE  \/ gone <= c.clock
             \/ \E m \in DOMAIN w :
                  /\ w[m].id \notin ops /\ Deletes(w[m].op, i)
                  /\ \A q \in DOMAIN rec : rec[q].id = w[m].id => gone <= rec[q].commit.clock
  <2>1. PICK k \in DOMAIN row :
          /\ row[k].id \notin d.ops /\ Deletes(row[k].op, i)
          /\ \A q \in DOMAIN rec : rec[q].id = row[k].id => gone <= rec[q].commit.clock
    BY <1>1, <1>5 DEF Due
  <2>2. CASE row[k].id = id
    BY <2>1, <2>2
  <2>3. CASE row[k].id # id
    <3>1. PICK m \in DOMAIN w : w[m] = row[k]
      BY <1>3, <2>3
    <3>2. w[m].id \notin ops /\ Deletes(w[m].op, i)
      BY <1>0, <2>1, <2>3, <3>1
    <3> QED BY <2>1, <3>1, <3>2, Zenon
  <2> QED BY <2>2, <2>3
<1>6. ASSUME HasDel(Open(row, d.ops), i), ~HasDel(Open(w, ops), i) PROVE gone <= c.clock
  <2>1. ASSUME NEW m \in DOMAIN w, w[m].id \notin ops, Deletes(w[m].op, i) PROVE FALSE
    <3>1. PICK k \in DOMAIN row : w[m] = row[k]
      BY <1>3
    <3>2. w[m].op \in OpTypes
      BY <3>1, EnvelopeIs
    <3>3. w[m].op \in Open(w, ops)
      BY <2>1, <3>2 DEF Open
    <3> QED BY <1>6, <2>1, <3>3 DEF HasDel
  <2> QED BY <1>5, <1>6, <2>1
<1>7. /\ e.ops = ops /\ Match(e, ApplyCommit(s, c, id), Open(w, ops), i)
      /\ GoneAt(e.gone, i) \in {gone, Higher(gone, c.clock)}
  <2>1. Lapses(d, row, ops, w, c, i)
    BY <1>0, <1>6 DEF Lapses
  <2> QED BY <1>0, <2>1, CommitNear
<1>8. GoneAt(e.gone, i) <= bound
  BY <1>1, <1>7 DEF Higher
<1>9. Due(w, ops, rec, GoneAt(e.gone, i), i)
  <2> SUFFICES ASSUME HasDel(Open(w, ops), i)
               PROVE  \E m \in DOMAIN w :
                        /\ w[m].id \notin ops /\ Deletes(w[m].op, i)
                        /\ \A q \in DOMAIN rec : rec[q].id = w[m].id => GoneAt(e.gone, i) <= rec[q].commit.clock
    BY DEF Due
  <2>1. HasDel(Open(row, d.ops), i)
    BY <1>4 DEF HasDel
  <2>2. \E m \in DOMAIN w :
           /\ w[m].id \notin ops /\ Deletes(w[m].op, i)
           /\ \A q \in DOMAIN rec : rec[q].id = w[m].id => gone <= c.clock \/ gone <= rec[q].commit.clock
    <3>1. CASE gone <= c.clock
      <4>1. PICK op \in Open(w, ops) : Deletes(op, i)
        BY DEF HasDel
      <4>2. PICK m \in DOMAIN w : w[m].id \notin ops /\ w[m].op = op
        BY DEF Open
      <4> QED BY <3>1, <4>1, <4>2
    <3>2. CASE ~(gone <= c.clock)
      <4>1. PICK m \in DOMAIN w :
              /\ w[m].id \notin ops /\ Deletes(w[m].op, i)
              /\ \A q \in DOMAIN rec : rec[q].id = w[m].id => gone <= rec[q].commit.clock
        BY <1>5, <2>1, <3>2
      <4> QED BY <4>1, Zenon
    <3> QED BY <3>1, <3>2
  <2>3. PICK m \in DOMAIN w :
           /\ w[m].id \notin ops /\ Deletes(w[m].op, i)
           /\ \A q \in DOMAIN rec : rec[q].id = w[m].id => gone <= c.clock \/ gone <= rec[q].commit.clock
    BY <2>2
  <2>4. ASSUME NEW q \in DOMAIN rec, rec[q].id = w[m].id PROVE GoneAt(e.gone, i) <= rec[q].commit.clock
    <3>1. rec[q].id \notin d.ops
      BY <1>0, <2>3, <2>4
    <3>2. c.clock <= rec[q].commit.clock
      BY <3>1
    <3> QED BY <1>1, <1>2, <1>7, <2>3, <2>4, <3>2 DEF Higher
  <2> QED BY <2>3, <2>4, Zenon
<1> QED BY <1>0, <1>7, <1>8, <1>9 DEF Near

\* What a machine that has not heard the commit makes of it.
LEMMA NearRecorded ==
  ASSUME NEW d \in SoundDocs, NEW s, NEW row, NEW rec \in Seq(Records), NEW bound \in Nat, NEW bound2 \in Nat,
         bound <= bound2, NEW i \in Ids, Near(d, s, row, rec, bound, i), NEW x \in Records, bound <= x.commit.clock
  PROVE  Near(d, s, row, Append(rec, x), bound2, i)
<1> DEFINE more == Append(rec, x)
           gone == GoneAt(d.gone, i)
<1>1. \A m \in DOMAIN more : more[m] = x \/ (m \in DOMAIN rec /\ more[m] = rec[m])
  OBVIOUS
<1>2. gone \in Nat /\ gone <= bound /\ x.commit.clock \in Nat
  <2>1. x.commit \in Commits
    BY DEF Records
  <2> QED BY <2>1, DocIs, Gone DEF SoundDocs, Near, Commits
<1> HIDE DEF more, gone
<1>3. Due(row, d.ops, more, gone, i)
  <2> SUFFICES ASSUME HasDel(Open(row, d.ops), i)
               PROVE  \E k \in DOMAIN row :
                        /\ row[k].id \notin d.ops /\ Deletes(row[k].op, i)
                        /\ \A m \in DOMAIN more : more[m].id = row[k].id => gone <= more[m].commit.clock
    BY DEF Due
  <2>1. PICK k \in DOMAIN row :
          /\ row[k].id \notin d.ops /\ Deletes(row[k].op, i)
          /\ \A m \in DOMAIN rec : rec[m].id = row[k].id => gone <= rec[m].commit.clock
    BY DEF Near, Due, gone
  <2>2. ASSUME NEW m \in DOMAIN more, more[m].id = row[k].id PROVE gone <= more[m].commit.clock
    BY <1>1, <1>2, <2>1, <2>2
  <2> QED BY <2>1, <2>2, Zenon
<1> QED BY <1>2, <1>3 DEF Near, more, gone

-----------------------------------------------------------------------------
(* The host serves an envelope. *)

LEMMA FeedsMore ==
  ASSUME NEW S, NEW messages \in Seq(S), NEW rec \in Seq(Records), NEW more \in Seq(Records), NEW heard \in Nat,
         Feeds(messages, rec, heard), NEW message, message.t = "commit", message.commit.rev \in DOMAIN more,
         more[message.commit.rev] = [id |-> message.id, commit |-> message.commit],
         more = rec \/ \E x \in Records : more = Append(rec, x) /\ message.commit.rev = Len(rec) + 1
  PROVE  Feeds(Append(messages, message), more, heard)
<1> DEFINE feed == Append(messages, message)
<1>1. PICK k \in Nat : k = message.commit.rev /\ k \in 1 .. Len(more)
  OBVIOUS
<1>2. /\ Len(rec) \in Nat /\ Len(more) \in Nat /\ DOMAIN rec = 1 .. Len(rec) /\ DOMAIN more = 1 .. Len(more)
      /\ \A j \in DOMAIN rec : j \in DOMAIN more /\ more[j] = rec[j]
      /\ k - 1 <= Len(rec) /\ (Len(more) = Len(rec) \/ (Len(more) = Len(rec) + 1 /\ k = Len(more)))
  <2>1. Len(rec) \in Nat /\ Len(more) \in Nat /\ DOMAIN rec = 1 .. Len(rec) /\ DOMAIN more = 1 .. Len(more)
    OBVIOUS
  <2>2. CASE more = rec
    BY <1>1, <2>1, <2>2
  <2>3. CASE more # rec
    <3>1. PICK x \in Records : more = Append(rec, x) /\ k = Len(rec) + 1
      BY <1>1, <2>3
    <3>2. Len(more) = Len(rec) + 1 /\ \A j \in 1 .. Len(rec) : more[j] = rec[j]
      BY <3>1
    <3>3. \A j \in 1 .. Len(rec) : j \in 1 .. Len(more)
      BY <2>1, <3>2
    <3>4. PICK p \in Nat : p = Len(rec)
      BY <2>1
    <3>5. k = p + 1 /\ Len(more) = p + 1
      BY <3>1, <3>2, <3>4
    <3>6. k - 1 <= p
      BY <3>5
    <3> QED BY <2>1, <3>2, <3>3, <3>4, <3>5, <3>6
  <2> QED BY <2>2, <2>3
<1>a. PICK p \in Nat : p = Len(rec)
  BY <1>2
<1>b. PICK q \in Nat : q = Len(more)
  BY <1>2
<1>0. /\ p = Len(rec) /\ q = Len(more)
      /\ k - 1 <= p /\ (q = p \/ (q = p + 1 /\ k = q)) /\ k \in 1 .. q
  BY <1>a, <1>b, <1>1, <1>2
<1>3. /\ Len(messages) \in Nat /\ DOMAIN messages = 1 .. Len(messages)
      /\ DOMAIN feed = 1 .. (Len(messages) + 1) /\ feed[Len(messages) + 1] = message
      /\ \A a \in 1 .. Len(messages) : feed[a] = messages[a]
  OBVIOUS
<1> HIDE DEF feed
<1>4. ASSUME NEW j \in (heard + 1) .. Len(rec) PROVE \E b \in 1 .. Len(messages) : feed[b].commit.rev = j
  <2>1. PICK b \in DOMAIN messages : messages[b].commit.rev = j
    BY DEF Feeds
  <2> QED BY <1>3, <2>1
<1>5. ASSUME NEW j \in (heard + 1) .. Len(more) PROVE \E b \in DOMAIN feed : feed[b].commit.rev = j
  <2>1. CASE j \in (heard + 1) .. Len(rec)
    <3>1. PICK b \in 1 .. Len(messages) : feed[b].commit.rev = j
      BY <1>4, <2>1
    <3>2. b \in DOMAIN feed
      BY <1>3
    <3> QED BY <3>1, <3>2
  <2>2. CASE j \notin (heard + 1) .. Len(rec)
    <3>2. j \in (heard + 1) .. q /\ j \notin (heard + 1) .. p
      BY <1>0, <2>2
    <3>1. j = k
      BY <1>0, <3>2
    <3> QED BY <1>1, <1>3, <3>1
  <2> QED BY <2>1, <2>2
<1>6. ASSUME NEW a \in 1 .. Len(messages)
      PROVE  /\ feed[a].t = "commit" /\ feed[a].commit.rev \in DOMAIN more
             /\ more[feed[a].commit.rev] = [id |-> feed[a].id, commit |-> feed[a].commit]
             /\ \A j \in (heard + 1) .. (feed[a].commit.rev - 1) : \E b \in 1 .. (a - 1) : feed[b].commit.rev = j
  <2>1. /\ messages[a].t = "commit" /\ messages[a].commit.rev \in DOMAIN rec
        /\ rec[messages[a].commit.rev] = [id |-> messages[a].id, commit |-> messages[a].commit]
        /\ \A j \in (heard + 1) .. (messages[a].commit.rev - 1) : \E b \in 1 .. (a - 1) : messages[b].commit.rev = j
    BY <1>3, Zenon DEF Feeds
  <2>2. feed[a] = messages[a] /\ \A b \in 1 .. (a - 1) : feed[b] = messages[b]
    BY <1>3
  <2> QED BY <1>2, <2>1, <2>2, Zenon
<1>7. /\ feed[Len(messages) + 1].t = "commit" /\ feed[Len(messages) + 1].commit.rev \in DOMAIN more
      /\ more[feed[Len(messages) + 1].commit.rev] = [id |-> feed[Len(messages) + 1].id, commit |-> feed[Len(messages) + 1].commit]
  BY <1>3
<1>8. \A j \in (heard + 1) .. (k - 1) : \E b \in 1 .. ((Len(messages) + 1) - 1) : feed[b].commit.rev = j
  <2> SUFFICES ASSUME NEW j \in (heard + 1) .. (k - 1)
               PROVE  \E b \in 1 .. ((Len(messages) + 1) - 1) : feed[b].commit.rev = j
    OBVIOUS
  <2>1. j \in (heard + 1) .. p
    BY <1>0
  <2>2. (Len(messages) + 1) - 1 = Len(messages)
    BY <1>3
  <2> QED BY <1>0, <1>4, <2>1, <2>2
<1>9. \A a \in DOMAIN feed : a \in 1 .. Len(messages) \/ a = Len(messages) + 1
  BY <1>3
<1>10. Feeds(feed, more, heard)
  <2>1. feed[Len(messages) + 1].commit.rev = k
    BY <1>1, <1>3
  <2>2. \A a \in DOMAIN feed :
          /\ feed[a].t = "commit" /\ feed[a].commit.rev \in DOMAIN more
          /\ more[feed[a].commit.rev] = [id |-> feed[a].id, commit |-> feed[a].commit]
          /\ \A j \in (heard + 1) .. (feed[a].commit.rev - 1) : \E b \in 1 .. (a - 1) : feed[b].commit.rev = j
    BY <1>6, <1>7, <1>8, <1>9, <2>1, Zenon
  <2> QED BY <1>5, <2>2, Zenon DEF Feeds
<1> QED BY <1>10 DEF feed

\* What the host works with is the story's last document but for its own operations.
Loaded(story, n, loaded, bound) ==
  /\ loaded.rev = n /\ loaded.ops = story[n].ops /\ loaded.clock = story[n].clock /\ loaded.clock = doc[Host].clock
  /\ story[n] \in SoundDocs /\ Sums(story, log, n) /\ \A m \in DOMAIN log : log[m].id \in story[n].ops
  /\ Nears(loaded, story[n], outbox[Host], log, bound)

\* The host works with its file and its screen merged, both near the last document.
LEMMA HostLoads ==
  ASSUME ReplicasInv, NEW story, Tells(story), Hears(story, Host), Ids # {}, NEW n \in Nat, n = Len(log),
         NEW loaded \in SoundDocs, loaded = Merge(kept[Host], doc[Host]), NEW bound \in Nat, bound = Bound
  PROVE  Loaded(story, n, loaded, bound)
<1>1. Follows(story, Host)
  BY DEF Hears, Steady
<1>2. story[n] \in SoundDocs /\ Sums(story, log, n) /\ \A m \in DOMAIN log : log[m].id \in story[n].ops
  <2>1. n \in 0 .. Len(log)
    OBVIOUS
  <2> QED BY <2>1, StoryIs
<1>3. kept[Host] \in SoundDocs /\ doc[Host] \in SoundDocs /\ doc[Host].rev = n
  BY DEF ReplicasInv, Copies, Replicas, Tells
<1>4. ASSUME NEW i \in Ids
      PROVE  Near(loaded, story[n], outbox[Host], log, bound, i) /\ Past(story[n], i)
             /\ Near(doc[Host], story[n], outbox[Host], log, bound, i)
  <2>1. Near(kept[Host], story[n], outbox[Host], log, bound, i)
    BY DEF Tells
  <2>2. Near(doc[Host], story[n], outbox[Host], log, bound, i)
    BY <1>1, <1>3 DEF Follows
  <2>3. bound <= bound
    OBVIOUS
  <2>4. Near(Merge(kept[Host], doc[Host]), story[n], outbox[Host], log, bound, i)
    BY <1>2, <1>3, <2>1, <2>2, <2>3, MergeNear
  <2> QED BY <1>2, <2>2, <2>4 DEF Sums
<1>5. PICK i \in Ids : TRUE
  OBVIOUS
<1>6. Frame(loaded, story[n]) /\ Frame(doc[Host], story[n])
  BY <1>4 DEF Near, Match
<1> QED BY <1>2, <1>4, <1>6 DEF Loaded, Nears, Frame, Sums

\* Again what it has answered before.
LEMMA StoryAgain ==
  ASSUME ReplicasInv, ReplicasInv', BookInv, StoryInv, NEW r \in Replicas, NEW e \in Envelopes,
         NEW loaded \in SoundDocs, NEW c \in Commits, Serving(r, e, loaded, c), Again(e, loaded, c)
  PROVE  StoryInv'
<1>1. PICK story : Tells(story) /\ \A m \in Replicas : Hears(story, m)
  BY DEF StoryInv
<1>2. /\ e.id \in OpIds /\ e.op \in OpTypes /\ Host \in Replicas /\ loaded = Merge(kept[Host], doc[Host])
      /\ doc \in [Replicas -> SoundDocs \union {None}] /\ outbox \in [Replicas -> Seq(Envelopes)]
      /\ kept \in [Replicas -> SoundDocs] /\ log \in Seq(Records) /\ down \in [Guests -> Seq(SoundDowns)]
  BY DEF Serving, Envelopes, Replicas, ReplicasInv, Copies, Posted, Recordings, Deliveries, Records
<1>3. /\ doc'[Host] = loaded /\ kept'[Host] = loaded /\ outbox'[Host] = Without(outbox[Host], e.id)
      /\ \A m \in Replicas : m # Host => doc'[m] = doc[m] /\ outbox'[m] = outbox[m]
      /\ log' = log /\ now' = now /\ past' = past /\ future' = future /\ link' = link /\ breaks' = breaks
  BY <1>2 DEF Serving, Again
<1>4. PICK n \in Nat, bound \in Nat : n = Len(log) /\ bound = Bound
  BY <1>2, BoundIs
<1>5. Loaded(story, n, loaded, bound)
  <2>1. Ids # {}
    BY <1>2, OpIs
  <2> QED BY <1>1, <1>2, <1>4, <2>1, HostLoads
<1>6. PICK k \in DOMAIN log : log[k].id = e.id /\ log[k].commit = c
  BY DEF Again
<1>7. e.id \in loaded.ops
  BY <1>5, <1>6 DEF Loaded
<1>8. Bound' = bound
  BY <1>3, <1>4, <1>5 DEF Bound, Clock, Loaded
<1>9. \A i \in Ids : Near(loaded, story[n], outbox'[Host], log, bound, i)
  <2> SUFFICES ASSUME NEW i \in Ids PROVE Near(loaded, story[n], outbox'[Host], log, bound, i)
    OBVIOUS
  <2>1. outbox[Host] \in Seq(Envelopes) /\ Near(loaded, story[n], outbox[Host], log, bound, i)
    BY <1>2, <1>5 DEF Loaded, Nears
  <2>2. Near(loaded, story[n], Without(outbox[Host], e.id), log, bound, i)
    BY <1>2, <1>7, <2>1, NearAnswered
  <2> QED BY <1>3, <2>2
<1>10. Tells(story)'
  <2>1. Tale(story, log) /\ \A i \in Ids : Ruled(story[n], i)
    BY <1>1, <1>4 DEF Tells
  <2>2. \A i \in Ids : Ruled(story[n], i)'
    BY <1>3, <2>1 DEF Ruled, LastWord, Allows, DeletedBefore
  <2>3. loaded.rev = n
    BY <1>5 DEF Loaded
  <2> QED BY <1>3, <1>4, <1>8, <1>9, <2>1, <2>2, <2>3 DEF Tells
<1>11. Hears(story, Host)'
  <2>1. Follows(story, Host)
    BY <1>1, <1>2 DEF Hears, Steady
  <2>2. loaded.rev = n /\ doc[Host].rev = n
    BY <1>1, <1>4, <1>5 DEF Loaded, Tells
  <2>3. Follows(story, Host)'
    BY <1>3, <1>8, <1>9, <2>1, <2>2 DEF Follows, LowStacks
  <2> QED BY <2>3 DEF Hears
<1>12. ASSUME NEW m \in Guests, m # Host PROVE Hears(story, m)'
  <2> SUFFICES ASSUME Steady(m)' PROVE Follows(story, m)' /\ Fed(m)'
    BY DEF Hears
  <2>1. m \in Replicas /\ Steady(m)
    BY <1>3, <1>12 DEF Steady, Replicas
  <2>2. Follows(story, m) /\ Fed(m)
    BY <1>1, <1>12, <2>1 DEF Hears
  <2>3. Follows(story, m)'
    <3>1. doc'[Host].clock >= doc[Host].clock /\ now' >= now
      BY <1>3, <1>5, LaterIs, DocIs DEF Loaded, SoundDocs
    <3> QED BY <1>3, <1>12, <2>1, <2>2, <3>1, FollowsStill
  <2>4. PICK message : message = [t |-> "commit", id |-> e.id, commit |-> c]
    OBVIOUS
  <2>5. m \in link /\ down'[m] = Append(down[m], message)
    BY <2>2, <2>4 DEF Fed, Serving, Broadcast
  <2>6. c.rev = k
    <3>1. Tale(story, log) /\ k \in 1 .. Len(log)
      BY <1>1, <1>2, <1>6 DEF Tells
    <3>2. Told(story, log, k)
      BY <3>1 DEF Tale
    <3> QED BY <1>6, <3>2 DEF Told
  <2>7. message.t = "commit" /\ message.commit.rev = k
        /\ log[message.commit.rev] = [id |-> message.id, commit |-> message.commit]
    <3>1. log[k] \in Records
      BY <1>2, InRow
    <3> QED BY <1>6, <2>4, <2>6, <3>1 DEF Records
  <2>8. PICK heard \in Nat : heard = doc[m].rev
    BY <2>2, DocIs DEF Follows, SoundDocs
  <2>9. Feeds(down[m], log, heard) /\ down[m] \in Seq(SoundDowns) /\ k \in DOMAIN log
    BY <1>2, <1>12, <2>2, <2>8 DEF Fed
  <2>10. Feeds(Append(down[m], message), log, heard)
    BY <1>2, <2>7, <2>9, FeedsMore
  <2>11. doc'[m] = doc[m]
    BY <1>3, <1>12, <2>1
  <2> QED BY <1>3, <2>3, <2>5, <2>8, <2>10, <2>11 DEF Fed
<1>13. \A m \in Replicas : m = Host \/ m \in Guests
  BY DEF Replicas
<1> QED BY <1>10, <1>11, <1>12, <1>13 DEF StoryInv

\* An id is the id of one operation.
LEMMA OnePost ==
  ASSUME BookInv, NEW r \in Replicas, NEW m \in Replicas, NEW j \in DOMAIN up[r], NEW k \in DOMAIN outbox[m],
         up[r][j].id = outbox[m][k].id
  PROVE  up[r][j].op = outbox[m][k].op
BY DEF BookInv, Book, Booked

Matches(d, s, X) == \A i \in Ids : Match(d, s, X, i)

\* What a new commit does to the revision, the clock and the ids of a document.
LEMMA Heightened ==
  ASSUME NEW d \in SoundDocs, NEW s, NEW c \in Commits, NEW id \in OpIds, Stamped(c), id \notin d.ops, d.rev < c.rev,
         NEW X, Matches(d, s, X), NEW e, e = ApplyCommit(d, c, id)
  PROVE  /\ c.op.id \in Shown(d) => d.notes[c.op.id].rev < c.rev
         /\ e \in SoundDocs /\ e.clock = Higher(d.clock, c.clock) /\ e.rev = c.rev /\ e.ops = d.ops \union {id}
<1>1. c.op.id \in Ids /\ c.op \in OpTypes /\ d.rev \in Nat /\ c.rev \in Nat
  BY OpIs, DocIs DEF Commits, SoundDocs
<1>2. c.op.id \in Shown(d) => d.notes[c.op.id].rev < c.rev
  <2>1. c.op.id \in Shown(d) => d.notes[c.op.id].rev <= d.rev /\ d.notes[c.op.id].rev \in Nat
    BY <1>1, DocIs, NoteIs DEF Matches, Match, SoundDocs
  <2> QED BY <1>1, <2>1
<1>3. e \in SoundDocs
  BY CommitIsSound
<1>4. e.clock = Higher(d.clock, c.clock) /\ e.rev = Higher(d.rev, c.rev) /\ e.ops = d.ops \union {id}
  BY <1>1, <1>2, CommitAt
<1>5. Higher(d.rev, c.rev) = c.rev
  BY <1>1 DEF Higher
<1> QED BY <1>2, <1>3, <1>4, <1>5

\* A new commit: the story grows, the host follows it there, the guests are fed.
LEMMA StoryAnew ==
  ASSUME ReplicasInv, ReplicasInv', BookInv, StoryInv, NEW r \in Replicas, NEW e \in Envelopes,
         NEW loaded \in SoundDocs, NEW c \in Commits, Serving(r, e, loaded, c), Anew(e, loaded, c)
  PROVE  StoryInv'
<1>1. PICK story : Tells(story) /\ \A m \in Replicas : Hears(story, m)
  BY DEF StoryInv
<1>2. /\ e.id \in OpIds /\ e.op \in OpTypes /\ Host \in Replicas /\ loaded = Merge(kept[Host], doc[Host])
      /\ doc \in [Replicas -> SoundDocs \union {None}] /\ outbox \in [Replicas -> Seq(Envelopes)]
      /\ kept \in [Replicas -> SoundDocs] /\ log \in Seq(Records) /\ down \in [Guests -> Seq(SoundDowns)]
      /\ up \in [Replicas -> Seq(Envelopes)]
  BY DEF Serving, Envelopes, Replicas, ReplicasInv, Copies, Posted, Recordings, Deliveries, Records
<1>3. PICK next, x : next = ApplyCommit(loaded, c, e.id) /\ x = [id |-> e.id, commit |-> c]
  OBVIOUS
<1>4. /\ doc'[Host] = next /\ kept'[Host] = next /\ outbox'[Host] = Without(outbox[Host], e.id)
      /\ \A m \in Replicas : m # Host => doc'[m] = doc[m] /\ outbox'[m] = outbox[m]
      /\ log' = Append(log, x) /\ now' = now /\ past' = past /\ future' = future /\ link' = link /\ breaks' = breaks
  BY <1>2, <1>3 DEF Serving, Anew
<1>5. x \in Records /\ x.id = e.id /\ x.commit = c
  BY <1>2, <1>3 DEF Records
<1>6. PICK n \in Nat, bound \in Nat : n = Len(log) /\ bound = Bound
  BY <1>2, BoundIs
<1>7. Loaded(story, n, loaded, bound)
  <2>1. Ids # {}
    BY <1>2, OpIs
  <2> QED BY <1>1, <1>2, <1>6, <2>1, HostLoads
<1>8. /\ Stamped(c) /\ Alike(e.op, c.op) /\ c.rev = n + 1 /\ c.clock \in Nat /\ Clock(Host) \in Nat
      /\ c.clock >= Clock(Host) /\ c.clock > loaded.clock
  <2>1. loaded \in Docs /\ c = Prepare(loaded, e.op, Clock(Host)) /\ Clock(Host) \in Nat /\ c.clock \in Nat
    BY <1>2, Clocks DEF SoundDocs, Anew, Commits
  <2> QED BY <1>2, <1>7, <2>1, PreparedIs DEF Loaded
<1>9. loaded.clock \in Nat /\ loaded.clock = doc[Host].clock /\ loaded.clock = story[n].clock
  BY <1>7, DocIs DEF Loaded, SoundDocs
<1>10. bound <= c.clock
  BY <1>6, <1>8, <1>9 DEF Bound, Higher
<1>11. e.id \notin story[n].ops /\ loaded.ops = story[n].ops
  <2>1. \A k \in 1 .. n : k \in DOMAIN log
    BY <1>2, <1>6
  <2> QED BY <1>2, <1>7, <2>1 DEF Loaded, Sums, Anew
<1>12. /\ next \in SoundDocs /\ next.clock = c.clock /\ next.rev = n + 1 /\ next.ops = loaded.ops \union {e.id}
  <2>1. \A i \in Ids : Match(loaded, story[n], Open(outbox[Host], loaded.ops), i)
    BY <1>7 DEF Loaded, Nears, Near
  <2>2. loaded.rev < c.rev
    BY <1>7, <1>8 DEF Loaded
  <2>3. next \in SoundDocs /\ next.clock = Higher(loaded.clock, c.clock) /\ next.rev = c.rev /\ next.ops = loaded.ops \union {e.id}
    <3>1. PICK X, s : X = Open(outbox[Host], loaded.ops) /\ s = story[n]
      OBVIOUS
    <3>2. Matches(loaded, s, X) /\ Stamped(c) /\ e.id \notin loaded.ops /\ e.id \in OpIds
      BY <1>2, <1>8, <1>11, <2>1, <3>1 DEF Matches
    <3> QED BY <1>3, <2>2, <3>2, Heightened
  <2>4. Higher(loaded.clock, c.clock) = c.clock
    BY <1>8, <1>9 DEF Higher
  <2> QED BY <1>8, <2>3, <2>4
<1>13. Bound' = c.clock
  <2>1. Clock(Host)' = Clock(Host)
    BY <1>4 DEF Clock
  <2> QED BY <1>4, <1>8, <1>12, <2>1 DEF Bound, Higher
<1>14. PICK f, more : f = ApplyCommit(story[n], c, e.id) /\ more = [k \in 0 .. (n + 1) |-> IF k <= n THEN story[k] ELSE f]
  OBVIOUS
<1>15. Tale(more, log')
  <2>1. Tale(story, log)
    BY <1>1 DEF Tells
  <2>2. c.clock > story[n].clock
    BY <1>8, <1>9
  <2>3. Tale(more, Append(log, [id |-> e.id, commit |-> c]))
    <3>1. PICK rec \in Seq(Records) : rec = log
      BY <1>2
    <3>2. Tale(story, rec) /\ n = Len(rec) /\ Stamped(c) /\ c.rev = n + 1 /\ e.id \notin story[n].ops /\ e.id \in OpIds
      BY <1>2, <1>6, <1>8, <1>11, <2>1, <3>1
    <3>3. Tale(more, Append(rec, [id |-> e.id, commit |-> c]))
      <4>1. Longer(more, story, n, ApplyCommit(story[n], c, e.id))
        BY <1>14 DEF Longer
      <4> QED BY <2>2, <3>2, <4>1, TaleGrows
    <3> QED BY <3>1, <3>3
  <2> QED BY <1>3, <1>4, <2>3
<1>16. more[n + 1] = f /\ \A k \in 0 .. n : more[k] = story[k]
  BY <1>14
<1>17. Len(log') = n + 1 /\ log' \in Seq(Records)
  BY <1>2, <1>4, <1>5, <1>6
<1>18. \A m \in DOMAIN log' : log'[m].id \in loaded.ops \union {e.id}
  <2> SUFFICES ASSUME NEW m \in DOMAIN log' PROVE log'[m].id \in loaded.ops \union {e.id}
    OBVIOUS
  <2>1. log'[m] = x \/ (m \in DOMAIN log /\ log'[m] = log[m])
    BY <1>2, <1>4
  <2> QED BY <1>5, <1>7, <2>1 DEF Loaded
<1>19. ASSUME NEW i \in Ids PROVE Near(next, f, outbox'[Host], log', c.clock, i)
  <2>1. Follow(loaded, story[n], c, e.id) /\ Nears(loaded, story[n], outbox[Host], log, bound)
        /\ story[n] \in SoundDocs /\ outbox[Host] \in Seq(Envelopes)
    BY <1>2, <1>7, <1>8, <1>9, <1>11 DEF Follow, Loaded, Sums
  <2>2. Answers(outbox[Host], e.id, c)
    <3>1. up[r] \in Seq(Envelopes) /\ 1 \in DOMAIN up[r] /\ up[r][1] = e
      BY <1>2 DEF Serving
    <3>2. \A k \in DOMAIN outbox[Host] : outbox[Host][k].id = e.id => outbox[Host][k].op = e.op
      <4> SUFFICES ASSUME NEW k \in DOMAIN outbox[Host], outbox[Host][k].id = e.id PROVE outbox[Host][k].op = e.op
        OBVIOUS
      <4>1. 1 \in DOMAIN up[r] /\ up[r][1].id = outbox[Host][k].id
        BY <3>1
      <4>2. up[r][1].op = outbox[Host][k].op
        BY <1>2, <4>1, OnePost
      <4> QED BY <3>1, <4>2
    <3> QED BY <1>8, <3>2 DEF Answers
  <2>3. PICK row, s, rec, feed : row = outbox[Host] /\ s = story[n] /\ rec = log /\ feed = log'
    OBVIOUS
  <2>4. Near(ApplyCommit(loaded, c, e.id), ApplyCommit(s, c, e.id), Without(row, e.id), feed, c.clock, i)
    BY <1>2, <1>10, <1>18, <2>1, <2>2, <2>3, HostNear
  <2> QED BY <1>3, <1>4, <1>14, <2>3, <2>4
<1>20. Tells(more)'
  <2>1. ASSUME NEW i \in Ids PROVE Ruled(f, i)'
    <3>1. f \in SoundDocs
      BY <1>7, <1>14, <1>2, CommitIsSound DEF Loaded
    <3>2. log \in Seq([id : OpIds, commit : Commits]) /\ log' = Append(log, [id |-> e.id, commit |-> c])
      BY <1>2, <1>3, <1>4 DEF Records
    <3>3. Ruled(story[n], i)
      BY <1>1, <1>6 DEF Tells
    <3>4. /\ story[n] \in SoundDocs /\ c.rev = story[n].rev + 1 /\ c.clock > story[n].clock
          /\ \A j \in Ids : Past(story[n], j)
      BY <1>7, <1>8, <1>9 DEF Loaded, Sums
    <3>5. PICK s \in SoundDocs : s = story[n]
      BY <3>4
    <3> QED BY <1>2, <1>8, <1>11, <1>14, <3>1, <3>2, <3>3, <3>4, <3>5, RuledCommit
  <2> QED BY <1>4, <1>12, <1>13, <1>15, <1>16, <1>17, <1>19, <2>1 DEF Tells
<1>21. Hears(more, Host)'
  <2>1. Follows(story, Host) /\ doc[Host].rev = n
    BY <1>1, <1>2, <1>6 DEF Hears, Steady, Tells
  <2>2. LowStacks(Host, n + 1)'
    <3>1. LowEntries(n) \subseteq LowEntries(n + 1)
      <4>1. n + 1 \in Nat /\ n <= n + 1
        OBVIOUS
      <4> QED BY <4>1, Lower
    <3>2. past[Host] \in Seq(LowEntries(n)) /\ future[Host] \in Seq(LowEntries(n))
      BY <2>1 DEF Follows, LowStacks
    <3>3. past[Host] \in Seq(LowEntries(n + 1)) /\ future[Host] \in Seq(LowEntries(n + 1))
      BY <3>1, <3>2, Wider
    <3> QED BY <1>4, <3>3 DEF LowStacks
  <2>3. n + 1 \in 0 .. Len(log')
    BY <1>17
  <2>4. Follows(more, Host)'
    BY <1>4, <1>12, <1>13, <1>16, <1>19, <2>2, <2>3 DEF Follows, LowStacks
  <2> QED BY <2>4 DEF Hears
<1>22. ASSUME NEW m \in Guests, m # Host PROVE Hears(more, m)'
  <2> SUFFICES ASSUME Steady(m)' PROVE Follows(more, m)' /\ Fed(m)'
    BY DEF Hears
  <2>1. m \in Replicas /\ Steady(m)
    BY <1>4, <1>22 DEF Steady, Replicas
  <2>2. Follows(story, m) /\ Fed(m)
    BY <1>1, <1>22, <2>1 DEF Hears
  <2>3. doc'[m] = doc[m] /\ outbox'[m] = outbox[m]
    BY <1>4, <1>22, <2>1
  <2>8. PICK heard \in Nat : heard = doc[m].rev /\ heard \in 0 .. n
    BY <1>6, <2>2, DocIs DEF Follows, SoundDocs
  <2>4. Follows(more, m)'
    <3>1. ASSUME NEW i \in Ids PROVE Near(doc[m], more[heard], outbox[m], log', c.clock, i)
      <4>1. Near(doc[m], story[heard], outbox[m], log, bound, i) /\ doc[m] \in SoundDocs
        BY <1>6, <2>2, <2>8 DEF Follows
      <4>2. Near(doc[m], story[heard], outbox[m], Append(log, x), c.clock, i)
        BY <1>2, <1>5, <1>8, <1>10, <4>1, NearRecorded
      <4> QED BY <1>4, <1>16, <2>8, <4>2
    <3>2. doc[m] \in SoundDocs /\ heard \in 0 .. Len(log') /\ LowStacks(m, heard)
      BY <1>17, <2>2, <2>8 DEF Follows
    <3>3. LowStacks(m, heard)'
      BY <1>4, <3>2 DEF LowStacks
    <3> QED BY <1>13, <2>3, <2>8, <3>1, <3>2, <3>3 DEF Follows, LowStacks
  <2>5. PICK message : message = [t |-> "commit", id |-> e.id, commit |-> c]
    OBVIOUS
  <2>6. m \in link /\ down'[m] = Append(down[m], message)
    BY <2>2, <2>5 DEF Fed, Serving, Broadcast
  <2>7. message.t = "commit" /\ message.commit.rev = n + 1 /\ n + 1 \in DOMAIN log'
        /\ log'[message.commit.rev] = [id |-> message.id, commit |-> message.commit]
    BY <1>2, <1>3, <1>4, <1>6, <1>8, <1>17, <2>5
  <2>9. Feeds(down[m], log, heard) /\ down[m] \in Seq(SoundDowns)
    BY <1>2, <1>22, <2>2, <2>8 DEF Fed
  <2>10. Feeds(Append(down[m], message), log', heard)
    <3>1. PICK rec \in Seq(Records), feed \in Seq(Records) : rec = log /\ feed = log'
      BY <1>2, <1>17
    <3>2. feed = Append(rec, x) /\ message.commit.rev = Len(rec) + 1
      BY <1>4, <1>6, <2>7, <3>1
    <3> QED BY <1>5, <2>7, <2>9, <3>1, <3>2, FeedsMore
  <2> QED BY <1>4, <2>3, <2>4, <2>6, <2>8, <2>10 DEF Fed
<1>23. \A m \in Replicas : m = Host \/ m \in Guests
  BY DEF Replicas
<1> QED BY <1>20, <1>21, <1>22, <1>23 DEF StoryInv

LEMMA StoryServed ==
  ASSUME ReplicasInv, ReplicasInv', BookInv, StoryInv, NEW r \in Replicas, HostCommits(r)
  PROVE  StoryInv'
BY Served, StoryAgain, StoryAnew

-----------------------------------------------------------------------------
(* A guest hears a commit. *)

LEMMA FeedsTail ==
  ASSUME NEW S, NEW messages \in Seq(S), messages # <<>>, NEW rec \in Seq(Records), NEW heard \in Nat,
         Feeds(messages, rec, heard), NEW k, k = messages[1].commit.rev
  PROVE  /\ messages[1].t = "commit" /\ k \in DOMAIN rec /\ k <= heard + 1
         /\ rec[k] = [id |-> messages[1].id, commit |-> messages[1].commit]
         /\ \A after \in Nat : after >= heard /\ after >= k => Feeds(Tail(messages), rec, after)
<1>1. PICK feed : feed = Tail(messages)
  OBVIOUS
<1>2. PICK l \in Nat : l = Len(messages) /\ l > 0
  OBVIOUS
<1>3. /\ DOMAIN messages = 1 .. l /\ 1 \in 1 .. l /\ DOMAIN feed = 1 .. (l - 1)
      /\ \A a \in 1 .. (l - 1) : feed[a] = messages[a + 1] /\ a + 1 \in 1 .. l
  BY <1>1, <1>2
<1>4. PICK p \in Nat : p = Len(rec) /\ DOMAIN rec = 1 .. p
  OBVIOUS
<1>5. \A a \in 1 .. l :
        /\ messages[a].t = "commit" /\ messages[a].commit.rev \in DOMAIN rec
        /\ rec[messages[a].commit.rev] = [id |-> messages[a].id, commit |-> messages[a].commit]
        /\ \A j \in (heard + 1) .. (messages[a].commit.rev - 1) : \E b \in 1 .. (a - 1) : messages[b].commit.rev = j
  BY <1>3, Zenon DEF Feeds
<1>6. \A j \in (heard + 1) .. p : \E b \in 1 .. l : messages[b].commit.rev = j
  BY <1>3, <1>4 DEF Feeds
<1>7. k \in 1 .. p /\ k <= heard + 1
  <2>1. k \in 1 .. p /\ \A j \in (heard + 1) .. (k - 1) : \E b \in 1 .. (1 - 1) : messages[b].commit.rev = j
    BY <1>3, <1>4, <1>5
  <2> SUFFICES ASSUME ~(k <= heard + 1) PROVE FALSE
    BY <2>1
  <2>2. k - 1 \in (heard + 1) .. (k - 1)
    BY <2>1
  <2>3. \E b \in 1 .. (1 - 1) : messages[b].commit.rev = k - 1
    BY <2>1, <2>2
  <2> QED BY <2>3
<1>8. ASSUME NEW after \in Nat, after >= heard, after >= k PROVE Feeds(feed, rec, after)
  <2>1. ASSUME NEW j \in Nat, j > after, NEW b \in 1 .. l, messages[b].commit.rev = j
        PROVE  b # 1 /\ b - 1 \in 1 .. (l - 1) /\ feed[b - 1] = messages[b]
    <3>1. b # 1
      BY <1>7, <1>8, <2>1
    <3>2. b - 1 \in 1 .. (l - 1) /\ (b - 1) + 1 = b
      BY <3>1
    <3> QED BY <1>3, <3>1, <3>2
  <2>2. ASSUME NEW a \in 1 .. (l - 1)
        PROVE  /\ feed[a].t = "commit" /\ feed[a].commit.rev \in DOMAIN rec
               /\ rec[feed[a].commit.rev] = [id |-> feed[a].id, commit |-> feed[a].commit]
               /\ \A j \in (after + 1) .. (feed[a].commit.rev - 1) : \E b \in 1 .. (a - 1) : feed[b].commit.rev = j
    <3>1. feed[a] = messages[a + 1] /\ a + 1 \in 1 .. l
      BY <1>3
    <3>2. /\ messages[a + 1].t = "commit" /\ messages[a + 1].commit.rev \in DOMAIN rec
          /\ rec[messages[a + 1].commit.rev] = [id |-> messages[a + 1].id, commit |-> messages[a + 1].commit]
          /\ \A j \in (heard + 1) .. (messages[a + 1].commit.rev - 1) :
               \E b \in 1 .. ((a + 1) - 1) : messages[b].commit.rev = j
      BY <1>5, <3>1
    <3>3. ASSUME NEW j \in (after + 1) .. (feed[a].commit.rev - 1) PROVE \E b \in 1 .. (a - 1) : feed[b].commit.rev = j
      <4>1. PICK q \in Nat : q = messages[a + 1].commit.rev
        BY <1>4, <3>2
      <4>2. j \in (heard + 1) .. (q - 1) /\ j \in Nat /\ j > after
        BY <1>8, <3>1, <3>3, <4>1
      <4>3. PICK b \in 1 .. ((a + 1) - 1) : messages[b].commit.rev = j
        BY <3>2, <4>1, <4>2
      <4>4. b \in 1 .. l /\ b \in 1 .. a
        BY <1>2
      <4>5. b # 1 /\ feed[b - 1] = messages[b]
        BY <2>1, <4>2, <4>3, <4>4
      <4>6. b - 1 \in 1 .. (a - 1)
        BY <4>4, <4>5
      <4> QED BY <4>3, <4>5, <4>6
    <3> QED BY <3>1, <3>2, <3>3, Zenon
  <2>3. ASSUME NEW j \in (after + 1) .. p PROVE \E b \in 1 .. (l - 1) : feed[b].commit.rev = j
    <3>1. j \in (heard + 1) .. p /\ j \in Nat /\ j > after
      BY <1>8
    <3>2. PICK b \in 1 .. l : messages[b].commit.rev = j
      BY <1>6, <3>1
    <3> QED BY <2>1, <3>1, <3>2
  <2>4. \A j \in (after + 1) .. Len(rec) : \E b \in DOMAIN feed : feed[b].commit.rev = j
    BY <1>3, <1>4, <2>3
  <2>5. \A a \in DOMAIN feed :
          /\ feed[a].t = "commit" /\ feed[a].commit.rev \in DOMAIN rec
          /\ rec[feed[a].commit.rev] = [id |-> feed[a].id, commit |-> feed[a].commit]
          /\ \A j \in (after + 1) .. (feed[a].commit.rev - 1) : \E b \in 1 .. (a - 1) : feed[b].commit.rev = j
    BY <1>3, <2>2, Zenon
  <2> QED BY <2>4, <2>5, Zenon DEF Feeds
<1>9. messages[1].t = "commit" /\ rec[k] = [id |-> messages[1].id, commit |-> messages[1].commit]
  BY <1>3, <1>5
<1> QED BY <1>1, <1>4, <1>7, <1>8, <1>9

Rises(d, s, c, id, X) ==
  /\ d \in SoundDocs /\ c \in Commits /\ id \in OpIds /\ Stamped(c)
  /\ id \notin d.ops /\ d.rev < c.rev /\ Matches(d, s, X)

LEMMA Risen ==
  ASSUME NEW d, NEW s, NEW c, NEW id, NEW X, Rises(d, s, c, id, X), NEW e, e = ApplyCommit(d, c, id)
  PROVE  e \in SoundDocs /\ e.rev = c.rev
BY Heightened DEF Rises

\* A commit reaches a guest that stayed: the next of the story, or one it knows.
LEMMA SteadyFollows ==
  ASSUME ReplicasInv, ReplicasInv', BookInv, NEW story, Tells(story), Follows(story, Host),
         NEW g \in Guests, Follows(story, g), Fed(g), GuestHears(g)
  PROVE  Follows(story, g)' /\ Fed(g)'
<1>1. /\ g \in Replicas /\ g # Host /\ Host \in Replicas /\ log \in Seq(Records)
      /\ doc \in [Replicas -> SoundDocs \union {None}] /\ outbox \in [Replicas -> Seq(Envelopes)]
      /\ down \in [Guests -> Seq(SoundDowns)]
  BY DEF Replicas, ReplicasInv, Copies, Posted, Recordings, Deliveries, Records
<1>2. PICK n \in Nat, heard \in Nat, bound \in Nat :
        n = Len(log) /\ heard = doc[g].rev /\ bound = Bound /\ heard \in 0 .. n /\ DOMAIN log = 1 .. n
  BY <1>1, BoundIs, DocIs DEF Follows, SoundDocs
<1>3. PICK message, k : message = down[g][1] /\ k = message.commit.rev
  OBVIOUS
<1>4. down[g] # <<>> /\ down[g] \in Seq(SoundDowns) /\ Feeds(down[g], log, heard) /\ g \in link
  BY <1>1, <1>2 DEF GuestHears, Fed
<1>5. /\ message.t = "commit" /\ k \in 1 .. n /\ k <= heard + 1 /\ log[k] = [id |-> message.id, commit |-> message.commit]
      /\ \A after \in Nat : after >= heard /\ after >= k => Feeds(Tail(down[g]), log, after)
  BY <1>1, <1>2, <1>3, <1>4, FeedsTail
<1>6. PICK c \in Commits, id \in OpIds : c = message.commit /\ id = message.id /\ log[k].id = id /\ log[k].commit = c
  <2>1. log[k].id \in OpIds /\ log[k].commit \in Commits
    BY <1>1, <1>2, <1>5, RecordIs DEF Records
  <2>2. log[k].id = message.id /\ log[k].commit = message.commit
    BY <1>5
  <2> QED BY <2>1, <2>2
<1>7. /\ doc'[g] = ApplyCommit(doc[g], c, id) /\ outbox'[g] = Without(outbox[g], id) /\ down'[g] = Tail(down[g])
      /\ doc'[Host] = doc[Host] /\ now' = now /\ past' = past /\ future' = future /\ link' = link /\ log' = log
  <2>1. Head(down[g]) = message
    BY <1>3, <1>4
  <2> QED BY <1>1, <1>6, <2>1 DEF GuestHears
<1>8. Bound' = bound
  BY <1>2, <1>7 DEF Bound, Clock
<1>9. \A j \in 0 .. n : story[j] \in SoundDocs /\ Sums(story, log, j)
  BY <1>2, StoryIs
<1>10. Told(story, log, k) /\ Tale(story, log)
  BY <1>2, <1>5 DEF Tells, Tale
<1>11. PICK s, row, d, rec :
         /\ s = story[heard] /\ row = outbox[g] /\ d = doc[g] /\ rec = log
         /\ s \in SoundDocs /\ row \in Seq(Envelopes) /\ d \in SoundDocs /\ rec \in Seq(Records)
  BY <1>1, <1>2, <1>9 DEF Follows
<1>20. d \in SoundDocs
  BY <1>11
<1>12. LowStacks(g, heard) /\ (\A i \in Ids : Near(d, s, row, rec, bound, i) /\ Past(s, i))
  BY <1>2, <1>9, <1>11 DEF Follows, Sums
<1>13. d.ops = s.ops /\ s.rev = heard /\ Ids # {}
  <2>1. PICK i \in Ids : i = c.op.id
    BY OpIs DEF Commits
  <2> QED BY <1>2, <1>9, <1>11, <1>12 DEF Near, Match, Frame, Sums
<1>14. \A j \in 1 .. heard : rec[j].id \in d.ops
  <2>1. \A j \in 1 .. heard : j \in 1 .. n
    BY <1>2
  <2>2. \A j \in 1 .. heard : rec[j].id \in OpIds
    BY <1>1, <1>2, <1>11, <2>1, RecordIs DEF Records
  <2> QED BY <1>2, <1>9, <1>11, <1>13, <2>2 DEF Sums
<1>15. PICK w : w = Without(row, id)
  OBVIOUS
<1>16. CASE k <= heard
  <2>1. id \in d.ops
    BY <1>5, <1>6, <1>11, <1>14, <1>16
  <2>2. doc'[g] = d
    BY <1>7, <1>11, <2>1 DEF ApplyCommit
  <2>3. \A i \in Ids : Near(d, s, w, rec, bound, i)
    BY <1>11, <1>12, <1>15, <2>1, NearAnswered
  <2>4. Follows(story, g)'
    BY <1>2, <1>7, <1>8, <1>11, <1>12, <1>15, <2>2, <2>3 DEF Follows, LowStacks
  <2>5. Feeds(Tail(down[g]), log, heard)
    BY <1>5, <1>16
  <2> QED BY <1>2, <1>4, <1>7, <1>11, <2>2, <2>4, <2>5 DEF Fed
<1>17. CASE k = heard + 1
  <2>1. story[k - 1] = s /\ k - 1 = heard
    <3>1. k - 1 = heard
      BY <1>17
    <3> QED BY <1>11, <3>1
  <2>2. Stamped(c) /\ c.rev = k /\ c.clock > s.clock /\ id \notin s.ops /\ story[k] = ApplyCommit(s, c, id)
    BY <1>6, <1>10, <2>1 DEF Told
  <2>3. Follow(d, s, c, id) /\ Nears(d, s, row, rec, bound)
    BY <1>12, <1>13, <1>17, <2>2 DEF Follow, Nears
  <2>4. Answers(row, id, c)
    BY <1>1, <1>2, <1>5, <1>6, <1>11, TheSameOp DEF Answers
  <2>5. c.clock <= bound
    <3>1. PICK i \in Ids : TRUE
      BY <1>13
    <3>2. Near(doc[Host], story[n], outbox[Host], log, Bound, i)
      BY <1>2, <3>1 DEF Follows, Tells
    <3>3. doc[Host].clock = story[n].clock
      BY <3>2 DEF Near, Match, Frame
    <3>4. n \in 0 .. n
      BY <1>2
    <3>5. c.clock <= story[n].clock /\ c.clock \in Nat /\ doc[Host].clock \in Nat
      BY <1>5, <1>6, <1>9, <3>4, DocIs DEF Sums, Commits, ReplicasInv, Copies, SoundDocs
    <3> QED BY <1>2, <3>3, <3>5, BoundIs
  <2>6. \A m \in DOMAIN rec : rec[m].id \notin d.ops => c.clock <= rec[m].commit.clock
    <3> SUFFICES ASSUME NEW m \in DOMAIN rec, rec[m].id \notin d.ops PROVE c.clock <= rec[m].commit.clock
      OBVIOUS
    <3>1. m \in 1 .. n /\ m \notin 1 .. heard /\ k \in DOMAIN rec
      BY <1>2, <1>5, <1>11, <1>14
    <3>2. m = k \/ k < m
      BY <1>2, <1>17, <3>1
    <3>3. Tale(story, rec) /\ rec[k].commit = c /\ c.clock \in Nat
      BY <1>6, <1>10, <1>11 DEF Commits
    <3>4. k < m => rec[k].commit.clock < rec[m].commit.clock
      BY <1>11, <3>1, <3>3, InOrder
    <3>5. rec[m].commit.clock \in Nat
      BY <1>11, RecordIs DEF Records, Commits
    <3> QED BY <3>2, <3>3, <3>4, <3>5
  <2>7. \E m \in DOMAIN rec : rec[m].id = id /\ rec[m].commit = c
    BY <1>2, <1>5, <1>6, <1>11
  <2>8. PICK e : e = ApplyCommit(d, c, id)
    OBVIOUS
  <2>9. \A i \in Ids : Near(e, story[k], w, rec, bound, i)
    <3> SUFFICES ASSUME NEW i \in Ids PROVE Near(e, story[k], w, rec, bound, i)
      OBVIOUS
    <3>1. Near(ApplyCommit(d, c, id), ApplyCommit(s, c, id), Without(row, id), rec, bound, i)
      BY <1>11, <2>3, <2>4, <2>5, <2>6, <2>7, GuestNear
    <3> QED BY <1>15, <2>2, <2>8, <3>1
  <2>10. e \in SoundDocs /\ e.rev = k
    <3>1. PICK X : X = Open(row, d.ops)
      OBVIOUS
    <3>2. Matches(d, s, X)
      BY <1>12, <3>1 DEF Near, Matches
    <3>3. d.rev < c.rev /\ id \notin d.ops
      BY <1>2, <1>11, <1>13, <1>17, <2>2
    <3>4. Stamped(c) /\ c.rev = k
      BY <2>2
    <3>5. Rises(d, s, c, id, X)
      BY <1>6, <1>20, <3>2, <3>3, <3>4 DEF Rises
    <3>6. e \in SoundDocs /\ e.rev = c.rev
      BY <2>8, <3>5, Risen
    <3> QED BY <3>4, <3>6
  <2>11. LowStacks(g, k)'
    <3>1. LowEntries(heard) \subseteq LowEntries(k)
      <4>1. k \in Nat /\ heard <= k
        BY <1>17
      <4> QED BY <4>1, Lower
    <3>2. past[g] \in Seq(LowEntries(k)) /\ future[g] \in Seq(LowEntries(k))
      BY <1>12, <3>1, Wider DEF LowStacks
    <3> QED BY <1>7, <3>2 DEF LowStacks
  <2>12. k \in 0 .. Len(log)
    BY <1>2, <1>5
  <2>13. doc'[g] = e /\ outbox'[g] = w
    BY <1>7, <1>11, <1>15, <2>8
  <2>14. Follows(story, g)'
    BY <1>7, <1>8, <1>11, <2>9, <2>10, <2>11, <2>12, <2>13 DEF Follows, LowStacks
  <2>15. Feeds(Tail(down[g]), log, k)
    BY <1>2, <1>5, <1>17
  <2> QED BY <1>4, <1>7, <2>10, <2>13, <2>14, <2>15 DEF Fed
<1>18. k <= heard \/ k = heard + 1
  BY <1>2, <1>5
<1> QED BY <1>16, <1>17, <1>18

LEMMA StoryHears ==
  ASSUME ReplicasInv, ReplicasInv', BookInv, StoryInv, NEW g \in Guests, GuestHears(g)
  PROVE  StoryInv'
<1>1. /\ now' = now /\ log' = log /\ link' = link /\ breaks' = breaks /\ past' = past /\ future' = future
      /\ \A m \in Replicas : m # g => doc'[m] = doc[m] /\ outbox'[m] = outbox[m] /\ kept'[m] = kept[m]
      /\ \A m \in Guests : m # g => down'[m] = down[m]
      /\ now \in Nat /\ g \in Replicas /\ g # Host /\ Host \in Replicas /\ doc[Host].clock \in Nat
  BY DocIs DEF GuestHears, ReplicasInv, Copies, Posted, Deliveries, Counts, Replicas, SoundDocs
<1>2. CASE ~Steady(g)
  <2>1. ~Steady(g)'
    BY <1>1, <1>2 DEF Steady
  <2> QED BY <1>1, <2>1, StoryElsewhere
<1>3. CASE Steady(g)
  <2>1. PICK story : Tells(story) /\ \A m \in Replicas : Hears(story, m)
    BY DEF StoryInv
  <2>2. Follows(story, Host) /\ Follows(story, g) /\ Fed(g)
    BY <1>1, <1>3, <2>1 DEF Hears, Steady
  <2>3. Hears(story, g)'
    BY <2>1, <2>2, SteadyFollows DEF Hears
  <2>4. ASSUME NEW m \in Replicas, m # g PROVE Hears(story, m)'
    <3>1. m # Host => m \in Guests
      BY DEF Replicas
    <3> QED BY <1>1, <2>1, <2>4, <3>1, HearsStill
  <2>5. Tells(story)'
    BY <1>1, <2>1, TellsStill
  <2> QED BY <2>3, <2>4, <2>5 DEF StoryInv
<1> QED BY <1>2, <1>3

LEMMA StoryStep == ReplicasInv /\ ReplicasInv' /\ BookInv /\ StoryInv /\ [Next]_vars => StoryInv'
<1> SUFFICES ASSUME ReplicasInv, ReplicasInv', BookInv, StoryInv, [Next]_vars PROVE StoryInv'
  OBVIOUS
<1>1. ASSUME NEW r \in Replicas, Posts(r) PROVE StoryInv'
  BY <1>1, PostsArePostings, StoryPost
<1>2. ASSUME NEW r \in Replicas, HostCommits(r) PROVE StoryInv'
  BY <1>2, StoryServed
<1>3. ASSUME NEW g \in Guests, GuestHears(g) PROVE StoryInv'
  BY <1>3, StoryHears
<1>4. ASSUME NEW g \in Guests, GuestAdopts(g) PROVE StoryInv'
  BY <1>4, StoryAdopts
<1>5. ASSUME NEW g \in Guests, LinkBreaks(g) PROVE StoryInv'
  BY <1>5, StoryBreaks
<1>6. ASSUME NEW g \in Guests, GuestJoins(g) PROVE StoryInv'
  BY <1>6, StoryJoins
<1>7. CASE UNCHANGED vars
  BY <1>7, StoryStutter
<1> QED BY <1>1, <1>2, <1>3, <1>4, <1>5, <1>6, <1>7 DEF Next

LEMMA StoryAlways == Spec => []StoryInv
<1>1. Init => StoryInv
  BY StoryBegin
<1>2. ReplicasInv /\ ReplicasInv' /\ BookInv /\ StoryInv /\ [Next]_vars => StoryInv'
  BY StoryStep
<1> QED BY <1>1, <1>2, ReplicasAlways, BookAlways, PTL DEF Spec

\* With everything answered, a machine that follows the story reads like it.
LEMMA NothingOpen ==
  ASSUME NEW d, NEW s, NEW rec, NEW bound, NEW i, Near(d, s, <<>>, rec, bound, i)
  PROVE  /\ i \in Shown(d) <=> i \in Shown(s)
         /\ i \in Shown(d) => d.notes[i].body = s.notes[i].body /\ d.notes[i].resolved = s.notes[i].resolved
<1>1. Open(<<>>, d.ops) = {}
  BY DEF Open
<1>2. Match(d, s, {}, i)
  BY <1>1 DEF Near
<1> QED BY <1>2 DEF Match, SameReading, HasWord, Has

-----------------------------------------------------------------------------
(* The last word, and agreement *)

\* Whether a comment shows at the host is decided by the last commit that adds,
\* restores or deletes it or deletes its parent (prepareCommit and applyCommit of
\* lib/review-delivery.ts, insertComment and deleteComment of lib/review.ts),
\* whatever the host did on its own screen before, undid or serves a second time.
THEOREM TheLastWordStands == Spec => []LastWordStands
<1>1. ReplicasInv /\ StoryInv => LastWordStands
  <2> SUFFICES ASSUME ReplicasInv, StoryInv, Settled, NEW i \in Ids
               PROVE  /\ \A k \in DOMAIN log : LastWord(k, i) => (i \in Shown(doc[Host]) <=> Allows(k, i))
                      /\ (\A k \in DOMAIN log : ~Concerns(log[k].commit.op, i)) => (i \in Shown(doc[Host]) <=> i \in First)
    BY DEF LastWordStands
  <2>1. PICK story : Tells(story) /\ \A r \in Replicas : Hears(story, r)
    BY DEF StoryInv
  <2>2. Host \in Replicas /\ outbox[Host] = <<>>
    BY DEF Settled, Replicas
  <2>3. Follows(story, Host)
    BY <2>1, <2>2 DEF Hears, Steady
  <2>4. Near(doc[Host], story[Len(log)], <<>>, log, Bound, i) /\ Ruled(story[Len(log)], i)
    BY <2>1, <2>2, <2>3 DEF Tells, Follows
  <2>5. i \in Shown(doc[Host]) <=> i \in Shown(story[Len(log)])
    BY <2>4, NothingOpen
  <2> QED BY <2>4, <2>5 DEF Ruled
<1> QED BY <1>1, ReplicasAlways, StoryAlways, PTL

\* A guest that never lost the connection and whose clock is not ahead reads what
\* the host reads: the same comments with the same texts and resolved flags, in
\* whatever order its own operations, its undos and the commits met on its screen.
THEOREM TheSteadyAgree == Spec => []SteadyGuestsAgree
<1>1. ReplicasInv /\ StoryInv => SteadyGuestsAgree
  <2> SUFFICES ASSUME ReplicasInv, StoryInv, Settled, NEW g \in Guests, breaks[g] = 0, Ahead[g] <= Ahead[Host]
               PROVE  Texts(doc[g]) = Texts(doc[Host])
    BY DEF SteadyGuestsAgree
  <2>1. PICK story : Tells(story) /\ \A r \in Replicas : Hears(story, r)
    BY DEF StoryInv
  <2>2. /\ Host \in Replicas /\ g \in Replicas /\ g # Host /\ outbox[Host] = <<>> /\ outbox[g] = <<>>
        /\ down[g] = <<>>
    BY DEF Settled, Replicas
  <2>3. Follows(story, Host) /\ Follows(story, g) /\ Fed(g)
    BY <2>1, <2>2 DEF Hears, Steady
  <2>4. PICK n \in Nat : n = Len(log)
    BY DEF ReplicasInv, Recordings
  <2>5. doc[g].rev = n /\ doc[Host].rev = n
    <3>1. doc[g].rev \in 0 .. n /\ Feeds(<<>>, log, doc[g].rev) /\ doc[Host].rev = n
      BY <2>1, <2>2, <2>3, <2>4 DEF Follows, Fed, Tells
    <3>2. \A j \in (doc[g].rev + 1) .. n : FALSE
      BY <2>4, <3>1 DEF Feeds
    <3>3. n \notin (doc[g].rev + 1) .. n
      BY <3>2
    <3> QED BY <3>1, <3>3
  <2>6. ASSUME NEW i \in Ids
        PROVE  /\ i \in Shown(doc[g]) <=> i \in Shown(doc[Host])
               /\ i \in Shown(doc[g]) => /\ doc[g].notes[i].body = doc[Host].notes[i].body
                                         /\ doc[g].notes[i].resolved = doc[Host].notes[i].resolved
    <3>1. Near(doc[g], story[n], <<>>, log, Bound, i) /\ Near(doc[Host], story[n], <<>>, log, Bound, i)
      BY <2>2, <2>3, <2>5 DEF Follows
    <3>2. /\ i \in Shown(doc[g]) <=> i \in Shown(story[n])
          /\ i \in Shown(doc[g]) => /\ doc[g].notes[i].body = story[n].notes[i].body
                                    /\ doc[g].notes[i].resolved = story[n].notes[i].resolved
      BY <3>1, NothingOpen
    <3>3. /\ i \in Shown(doc[Host]) <=> i \in Shown(story[n])
          /\ i \in Shown(doc[Host]) => /\ doc[Host].notes[i].body = story[n].notes[i].body
                                       /\ doc[Host].notes[i].resolved = story[n].notes[i].resolved
      BY <3>1, NothingOpen
    <3> QED BY <3>2, <3>3
  <2>7. Shown(doc[g]) = Shown(doc[Host])
    BY <2>6 DEF Shown
  <2> QED BY <2>6, <2>7 DEF Texts, Shown
<1> QED BY <1>1, ReplicasAlways, StoryAlways, PTL

-----------------------------------------------------------------------------
(* Guests that return.  What they do again hides comments on their own screens, but
   it brings none back: they show what the story shows, what is added by an operation
   they have not heard of, and what was added late. *)

\* op posts the comment i, or puts it back.
Adds(op, i) == op.t = "add" /\ op.id = i

\* The comments with an add that is posted and not among ops.
Pending(ops) ==
  {i \in Ids :
     \/ \E r \in Replicas : \E k \in DOMAIN outbox[r] : outbox[r][k].id \notin ops /\ Adds(outbox[r][k].op, i)
     \/ \E k \in DOMAIN log : log[k].id \notin ops /\ Adds(log[k].commit.op, i)}

\* The document d after the same commits as s shows no more than s, but for these.
NoMore(d, s, open, late, i) ==
  /\ Frame(d, s) /\ GoneAt(s.gone, i) <= GoneAt(d.gone, i)
  /\ i \in Shown(d) =>
       /\ d.notes[i].rev <= d.rev
       /\ i \in open \union late \/ (i \in Shown(s) /\ d.notes[i].back <= s.clock + 1)

\* Doing op to such a document shows nothing that is not excused either.
Excusable(op, s, open, late) ==
  op.t = "add" =>
    /\ op.note.rev <= s.rev
    /\ \/ op.id \in open \union late
       \/ op.id \in Shown(s) /\ op.note.back <= s.clock + 1
       \/ Hid(GoneAt(s.gone, op.id), op.note.back)

\* More may be excused.
LEMMA NoMoreFor ==
  ASSUME NEW d, NEW s, NEW open, NEW late, NEW open2, NEW late2, NEW i,
         open \union late \subseteq open2 \union late2, NoMore(d, s, open, late, i)
  PROVE  NoMore(d, s, open2, late2, i)
BY DEF NoMore

\* A document of the story shows no more than itself.
LEMMA NoMoreItself ==
  ASSUME NEW s \in SoundDocs, NEW open, NEW late, NEW i \in Ids, Past(s, i)
  PROVE  NoMore(s, s, open, late, i)
<1>1. s \in Docs /\ s.clock \in Nat /\ s.gone \in [Ids -> Nat]
  BY DocIs DEF SoundDocs
<1>2. GoneAt(s.gone, i) \in Nat
  BY <1>1, Gone
<1>3. i \in Shown(s) => s.notes[i].back \in Nat
  BY <1>1, DocIs, NoteIs
<1> QED BY <1>1, <1>2, <1>3 DEF NoMore, Past, Frame

\* An operation that is excusable leaves it so.
LEMMA NoMoreApply ==
  ASSUME NEW d \in SoundDocs, NEW s \in SoundDocs, NEW open, NEW late, NEW op \in OpTypes, NEW t \in Nat,
         NEW i \in Ids, NoMore(d, s, open, late, i), Excusable(op, s, open, late), NEW e, e = Apply(d, op, t)
  PROVE  NoMore(e, s, open, late, i)
<1>1. /\ Frame(e, d)
      /\ GoneAt(e.gone, i) = IF Deletes(op, i) THEN Higher(GoneAt(d.gone, i), Stamp(op, t))
                                               ELSE GoneAt(d.gone, i)
      /\ Deletes(op, i) =>
           e.notes[i] = IF i \in Shown(d) /\ Hid(GoneAt(e.gone, i), d.notes[i].back) THEN None
                                                                                  ELSE d.notes[i]
      /\ op.t = "add" /\ op.id = i =>
           e.notes[i] = IF i \in Shown(d) \/ Hid(GoneAt(d.gone, i), op.note.back) THEN d.notes[i]
                                                                                  ELSE op.note
      /\ ~Concerns(op, i) =>
           /\ Stays(e, d, op, i)
           /\ i \in Shown(d) => e.notes[i].rev = d.notes[i].rev
  BY ApplyAt DEF SoundDocs
<1>2. /\ GoneAt(d.gone, i) \in Nat /\ GoneAt(s.gone, i) \in Nat /\ Stamp(op, t) \in Nat
      /\ op.t = "add" => op.note.back \in Nat
  <2>1. d.gone \in [Ids -> Nat] /\ s.gone \in [Ids -> Nat]
    BY DocIs DEF SoundDocs
  <2>2. op.at \in Nat /\ (op.t = "add" => op.note \in Notes)
    BY OpIs
  <2> QED BY <2>1, <2>2, Gone, NoteIs DEF Stamp
<1>3. Frame(e, s) /\ GoneAt(s.gone, i) <= GoneAt(e.gone, i) /\ e.rev = d.rev /\ e.rev = s.rev
  BY <1>1, <1>2 DEF NoMore, Frame, Higher
<1>4. ASSUME i \in Shown(e)
      PROVE  /\ e.notes[i].rev <= e.rev
             /\ i \in open \union late \/ (i \in Shown(s) /\ e.notes[i].back <= s.clock + 1)
  <2>1. CASE i \in Shown(d) /\ e.notes[i].rev = d.notes[i].rev /\ e.notes[i].back = d.notes[i].back
    BY <1>3, <2>1 DEF NoMore
  <2>2. CASE Deletes(op, i)
    BY <1>1, <1>4, <2>1, <2>2 DEF Shown
  <2>3. CASE op.t = "add" /\ op.id = i
    <3>1. CASE i \in Shown(d) \/ Hid(GoneAt(d.gone, i), op.note.back)
      BY <1>1, <1>4, <2>1, <2>3, <3>1 DEF Shown
    <3>2. CASE ~(i \in Shown(d) \/ Hid(GoneAt(d.gone, i), op.note.back))
      <4>1. e.notes[i] = op.note
        BY <1>1, <2>3, <3>2
      <4>2. ~Hid(GoneAt(s.gone, i), op.note.back)
        BY <1>2, <2>3, <3>2 DEF Hid, NoMore
      <4> QED BY <1>3, <2>3, <4>1, <4>2 DEF Excusable
    <3> QED BY <3>1, <3>2
  <2>4. CASE ~Concerns(op, i)
    BY <1>1, <1>4, <2>1, <2>4 DEF Stays
  <2> QED BY <2>2, <2>3, <2>4 DEF Concerns
<1> QED BY <1>3, <1>4 DEF NoMore

\* A row of operations, one after the other.
LEMMA NoMoreApplied ==
  ASSUME NEW d \in SoundDocs, NEW s \in SoundDocs, NEW open, NEW late, NEW ops \in Seq(OpTypes), NEW t \in Nat,
         \A i \in Ids : NoMore(d, s, open, late, i), \A k \in DOMAIN ops : Excusable(ops[k], s, open, late)
  PROVE  /\ ApplyAll(d, ops, t) \in SoundDocs
         /\ \A i \in Ids : NoMore(ApplyAll(d, ops, t), s, open, late, i)
<1> DEFINE D == {x \in SoundDocs : \A i \in Ids : NoMore(x, s, open, late, i)}
<1>1. d \in D
  OBVIOUS
<1>2. ASSUME NEW x \in D, NEW k \in DOMAIN ops PROVE Apply(x, ops[k], t) \in D
  <2>1. ops[k] \in OpTypes /\ Excusable(ops[k], s, open, late)
    BY InRow
  <2>2. x \in Docs /\ x \in SoundDocs /\ \A i \in Ids : NoMore(x, s, open, late, i)
    BY DEF SoundDocs
  <2>3. Apply(x, ops[k], t) \in SoundDocs
    BY <2>1, <2>2, ApplyIsSound
  <2>4. \A i \in Ids : NoMore(Apply(x, ops[k], t), s, open, late, i)
    BY <2>1, <2>2, NoMoreApply
  <2> QED BY <2>3, <2>4
<1> HIDE DEF D
<1>3. ApplyAll(d, ops, t) \in D
  BY <1>1, <1>2, AppliesWithin
<1> QED BY <1>3 DEF D

\* So does a merge of two such documents.
LEMMA NoMoreMerged ==
  ASSUME NEW a \in SoundDocs, NEW b \in SoundDocs, NEW s \in SoundDocs, NEW open, NEW late, NEW i \in Ids,
         NoMore(a, s, open, late, i), NoMore(b, s, open, late, i), NEW e, e = Merge(a, b)
  PROVE  NoMore(e, s, open, late, i)
<1>1. /\ e.clock = Higher(a.clock, b.clock) /\ e.rev = Higher(a.rev, b.rev)
      /\ e.ops = a.ops \union b.ops
      /\ GoneAt(e.gone, i) = Higher(GoneAt(a.gone, i), GoneAt(b.gone, i))
      /\ i \notin Shown(a) /\ i \notin Shown(b) => i \notin Shown(e)
      /\ i \in Shown(a) \/ i \in Shown(b) =>
           \E x \in {a, b} :
             /\ i \in Shown(x)
             /\ i \in Shown(e) <=> ~Hid(GoneAt(e.gone, i), x.notes[i].back)
             /\ i \in Shown(e) => Reads(e.notes[i], x.notes[i])
  BY MergeAt DEF SoundDocs
<1>2. Frame(e, s) /\ e.rev = a.rev /\ e.rev = b.rev
  BY <1>1 DEF Frame, NoMore, Higher
<1>3. GoneAt(s.gone, i) <= GoneAt(e.gone, i)
  BY <1>1 DEF NoMore, Higher
<1>4. ASSUME i \in Shown(e)
      PROVE  /\ e.notes[i].rev <= e.rev
             /\ i \in open \union late \/ (i \in Shown(s) /\ e.notes[i].back <= s.clock + 1)
  <2>1. PICK x \in {a, b} : i \in Shown(x) /\ Reads(e.notes[i], x.notes[i])
    BY <1>1, <1>4
  <2>2. NoMore(x, s, open, late, i) /\ x.rev = e.rev
    BY <1>2
  <2> QED BY <2>1, <2>2 DEF NoMore, Reads
<1> QED BY <1>2, <1>3, <1>4 DEF NoMore

\* Of what was pending, only what op adds is not any more.
Drops(open, open2, op) == \A j \in open : j \in open2 \/ Adds(op, j)
NoMores(d, s, open, late) == \A j \in Ids : NoMore(d, s, open, late, j) /\ Past(s, j)

\* The next commit reaches such a document: what it deletes goes from both, and what
\* it adds shows in d only if it does in the story.
LEMMA NoMoreCommit ==
  ASSUME NEW d \in SoundDocs, NEW s \in SoundDocs, NEW c \in Commits, NEW id \in OpIds,
         Follow(d, s, c, id), NEW open, NEW late, NEW open2, NEW late2,
         late \subseteq late2, Drops(open, open2, c.op), NoMores(d, s, open, late), NEW i \in Ids,
         NEW e, e = ApplyCommit(d, c, id), NEW f, f = ApplyCommit(s, c, id)
  PROVE  e \in SoundDocs /\ f \in SoundDocs /\ NoMore(e, f, open2, late2, i)
<1>1. c.op \in OpTypes /\ c.op.id \in Ids /\ c.clock \in Nat /\ c.rev \in Nat
  BY OpIs DEF Commits
<1>2. /\ d \in Docs /\ s \in Docs /\ d.rev \in Nat /\ d.clock \in Nat /\ s.rev \in Nat /\ s.clock \in Nat
      /\ GoneAt(d.gone, i) \in Nat /\ GoneAt(s.gone, i) \in Nat
  BY DocIs, Gone DEF SoundDocs
<1>3. NoMore(d, s, open, late, i) /\ Past(s, i) /\ Frame(d, s)
  BY DEF NoMore, NoMores
<1>4. Stamped(c) /\ id \notin d.ops /\ id \notin s.ops /\ c.rev = s.rev + 1 /\ c.clock > s.clock
  BY <1>3 DEF Follow, Frame
<1>5. c.op.id \in Shown(d) => d.notes[c.op.id].rev < c.rev
  <2>1. NoMore(d, s, open, late, c.op.id)
    BY <1>1 DEF NoMores
  <2>2. c.op.id \in Shown(d) => d.notes[c.op.id].rev \in Nat
    BY <1>2, DocIs, NoteIs
  <2> QED BY <1>2, <1>3, <1>4, <2>1, <2>2 DEF NoMore, Frame
<1>6. c.op.id \in Shown(s) => s.notes[c.op.id].rev < c.rev
  <2>1. Past(s, c.op.id)
    BY <1>1 DEF NoMores
  <2>2. c.op.id \in Shown(s) => s.notes[c.op.id].rev \in Nat
    BY <1>2, DocIs, NoteIs
  <2> QED BY <1>1, <1>2, <1>4, <2>1, <2>2 DEF Past
<1>7. e \in SoundDocs /\ f \in SoundDocs
  BY CommitIsSound
<1>8. /\ e.clock = Higher(d.clock, c.clock) /\ e.rev = Higher(d.rev, c.rev) /\ e.ops = d.ops \union {id}
      /\ GoneAt(e.gone, i) = IF Deletes(c.op, i) THEN Higher(GoneAt(d.gone, i), c.clock)
                                                 ELSE GoneAt(d.gone, i)
      /\ Deletes(c.op, i) =>
           /\ i \in Shown(e) <=> i \in Shown(d) /\ ~Hid(GoneAt(e.gone, i), d.notes[i].back)
           /\ i \in Shown(e) => e.notes[i].back = d.notes[i].back /\ e.notes[i].rev \in {d.notes[i].rev, c.rev}
      /\ c.op.t = "add" /\ c.op.id = i =>
           /\ i \in Shown(e) <=> ~Hid(GoneAt(d.gone, i), c.op.note.back)
           /\ i \in Shown(e) => e.notes[i] = c.op.note
      /\ ~Concerns(c.op, i) =>
           /\ Stays(e, d, c.op, i)
           /\ i \in Shown(d) => e.notes[i].rev \in {d.notes[i].rev, c.rev}
  BY <1>4, <1>5, CommitAt
<1>9. /\ f.clock = Higher(s.clock, c.clock) /\ f.rev = Higher(s.rev, c.rev) /\ f.ops = s.ops \union {id}
      /\ GoneAt(f.gone, i) = IF Deletes(c.op, i) THEN Higher(GoneAt(s.gone, i), c.clock)
                                                 ELSE GoneAt(s.gone, i)
      /\ c.op.t = "add" /\ c.op.id = i => (i \in Shown(f) <=> ~Hid(GoneAt(s.gone, i), c.op.note.back))
      /\ ~Concerns(c.op, i) => Stays(f, s, c.op, i)
  BY <1>4, <1>6, CommitAt
<1> HIDE DEF Follow
<1>10. Frame(e, f) /\ e.rev = c.rev /\ f.clock = c.clock
  BY <1>1, <1>2, <1>3, <1>4, <1>8, <1>9 DEF Frame, Higher
<1>11. GoneAt(f.gone, i) <= GoneAt(e.gone, i)
  BY <1>1, <1>2, <1>3, <1>8, <1>9 DEF NoMore, Higher
<1>12. i \in Shown(d) => d.notes[i].back \in Nat /\ d.notes[i].rev \in Nat /\ d.notes[i].rev <= c.rev
  <2>1. i \in Shown(d) => d.notes[i].back \in Nat /\ d.notes[i].rev \in Nat
    BY <1>2, DocIs, NoteIs
  <2> QED BY <1>2, <1>3, <1>4, <2>1 DEF NoMore, Frame
<1>13. ASSUME i \in Shown(e)
       PROVE  /\ e.notes[i].rev <= e.rev
              /\ i \in open2 \union late2 \/ (i \in Shown(f) /\ e.notes[i].back <= f.clock + 1)
  <2>1. CASE c.op.t = "add" /\ c.op.id = i
    <3>1. e.notes[i] = c.op.note /\ ~Hid(GoneAt(d.gone, i), c.op.note.back)
      BY <1>8, <1>13, <2>1
    <3>2. c.op.note.rev = c.rev /\ c.op.note.back \in {0, c.clock}
      BY <1>4, <2>1 DEF Stamped
    <3>3. ~Hid(GoneAt(s.gone, i), c.op.note.back)
      BY <1>1, <1>2, <1>3, <3>1, <3>2 DEF Hid, NoMore
    <3> QED BY <1>1, <1>9, <1>10, <2>1, <3>1, <3>2, <3>3
  <2>2. CASE ~(c.op.t = "add" /\ c.op.id = i)
    <3>1. i \in Shown(d) /\ e.notes[i].back = d.notes[i].back /\ e.notes[i].rev \in {d.notes[i].rev, c.rev}
      BY <1>8, <1>13, <2>2 DEF Concerns, Stays
    <3>2. e.notes[i].rev <= e.rev
      BY <1>1, <1>10, <1>12, <3>1
    <3>3. CASE i \in open \union late
      BY <2>2, <3>2, <3>3 DEF Adds, Drops
    <3>4. CASE i \notin open \union late
      <4>1. i \in Shown(s) /\ d.notes[i].back <= s.clock + 1
        BY <1>3, <3>1, <3>4 DEF NoMore
      <4>2. ~Deletes(c.op, i)
        <5> SUFFICES ASSUME Deletes(c.op, i) PROVE FALSE
          OBVIOUS
        <5>1. ~Hid(GoneAt(e.gone, i), d.notes[i].back)
          BY <1>8, <1>13
        <5>2. GoneAt(e.gone, i) = Higher(GoneAt(d.gone, i), c.clock)
          BY <1>8
        <5>3. c.clock > 0 /\ d.notes[i].back <= c.clock
          BY <1>1, <1>2, <1>4, <1>12, <3>1, <4>1
        <5> QED BY <1>1, <1>2, <1>12, <3>1, <5>1, <5>2, <5>3 DEF Hid, Higher
      <4>3. i \in Shown(f)
        BY <1>9, <2>2, <4>1, <4>2 DEF Concerns, Stays
      <4> QED BY <1>1, <1>2, <1>4, <1>10, <1>12, <3>1, <3>2, <4>1, <4>3
    <3> QED BY <3>3, <3>4
  <2> QED BY <2>1, <2>2
<1> QED BY <1>7, <1>10, <1>11, <1>13 DEF NoMore

\* Doing op again, whose commit is in s, shows nothing but these and what s shows.
Repeatable(op, s, late) ==
  op.t = "add" =>
    \/ op.id \in late
    \/ op.note.back <= s.clock + 1 /\ (op.id \in Shown(s) \/ Hid(GoneAt(s.gone, op.id), op.note.back))

\* If the commit c adds a comment that s knows to be deleted, it is one of late.
Allowing(s, c, late) ==
  c.op.t = "add" /\ c.op.note.back = 0 /\ GoneAt(s.gone, c.op.id) # 0 => c.op.id \in late

\* c is the commit after s.
Nexts(s, c, id) ==
  /\ Stamped(c) /\ id \notin s.ops /\ c.rev = s.rev + 1 /\ c.clock > s.clock
  /\ \A j \in Ids : Past(s, j)

\* What the next document of the story shows of a comment, and hides.
LEMMA NextAt ==
  ASSUME NEW s \in SoundDocs, NEW c \in Commits, NEW id \in OpIds, Nexts(s, c, id), NEW late, Allowing(s, c, late),
         NEW f, f = ApplyCommit(s, c, id), NEW i \in Ids
  PROVE  /\ f \in SoundDocs /\ f.clock = c.clock /\ f.ops = s.ops \union {id}
         /\ s.clock \in Nat /\ c.clock \in Nat /\ GoneAt(s.gone, i) \in Nat /\ GoneAt(f.gone, i) \in Nat
         /\ GoneAt(s.gone, i) <= GoneAt(f.gone, i) /\ GoneAt(s.gone, i) <= s.clock
         /\ Adds(c.op, i) => i \in Shown(f) \/ i \in late
         /\ i \in Shown(s) => i \in Shown(f) \/ i \in late \/ GoneAt(f.gone, i) >= c.clock
<1>1. c.op \in OpTypes /\ c.op.id \in Ids /\ c.clock \in Nat /\ c.rev \in Nat
  BY OpIs DEF Commits
<1>2. /\ s \in Docs /\ s.rev \in Nat /\ s.clock \in Nat /\ GoneAt(s.gone, i) \in Nat
      /\ \A j \in Shown(s) : s.notes[j].rev \in Nat
  BY DocIs, NoteIs, Gone DEF SoundDocs
<1>3. Stamped(c) /\ id \notin s.ops /\ c.rev = s.rev + 1 /\ c.clock > s.clock /\ Past(s, i) /\ Past(s, c.op.id)
  BY <1>1 DEF Nexts
<1>4. c.op.id \in Shown(s) => s.notes[c.op.id].rev < c.rev
  BY <1>1, <1>2, <1>3 DEF Past
<1>5. f \in SoundDocs
  BY CommitIsSound
<1>6. /\ f.clock = Higher(s.clock, c.clock) /\ f.ops = s.ops \union {id}
      /\ GoneAt(f.gone, i) = IF Deletes(c.op, i) THEN Higher(GoneAt(s.gone, i), c.clock)
                                                 ELSE GoneAt(s.gone, i)
      /\ c.op.t = "add" /\ c.op.id = i => (i \in Shown(f) <=> ~Hid(GoneAt(s.gone, i), c.op.note.back))
      /\ ~Concerns(c.op, i) => Stays(f, s, c.op, i)
  BY <1>3, <1>4, CommitAt
<1>7. f.clock = c.clock /\ GoneAt(s.gone, i) <= s.clock
  BY <1>1, <1>2, <1>3, <1>6 DEF Higher, Past
<1>8. GoneAt(f.gone, i) \in Nat /\ GoneAt(s.gone, i) <= GoneAt(f.gone, i)
      /\ (Deletes(c.op, i) => GoneAt(f.gone, i) >= c.clock)
  BY <1>1, <1>2, <1>6 DEF Higher
<1>9. Adds(c.op, i) => i \in Shown(f) \/ i \in late
  <2> SUFFICES ASSUME Adds(c.op, i), i \notin Shown(f) PROVE i \in late
    OBVIOUS
  <2>1. c.op.t = "add" /\ c.op.id = i
    BY DEF Adds
  <2>2. Hid(GoneAt(s.gone, i), c.op.note.back)
    BY <1>6, <2>1
  <2>3. c.op.note.back \in {0, c.clock}
    BY <1>3, <2>1 DEF Stamped
  <2>4. c.op.note.back = 0 /\ GoneAt(s.gone, i) # 0
    BY <1>1, <1>2, <1>3, <1>7, <2>2, <2>3 DEF Hid
  <2> QED BY <2>1, <2>4 DEF Allowing
<1>10. i \in Shown(s) => i \in Shown(f) \/ i \in late \/ GoneAt(f.gone, i) >= c.clock
  BY <1>6, <1>8, <1>9 DEF Adds, Concerns, Stays
<1> QED BY <1>1, <1>2, <1>5, <1>6, <1>7, <1>8, <1>9, <1>10

\* An operation that was committed before, and the one that is committed now.
LEMMA RepeatableStill ==
  ASSUME NEW s \in SoundDocs, NEW c \in Commits, NEW id \in OpIds, Nexts(s, c, id),
         NEW late, NEW late2, late \subseteq late2, Allowing(s, c, late2),
         NEW f, f = ApplyCommit(s, c, id), NEW op \in OpTypes, Repeatable(op, s, late)
  PROVE  Repeatable(op, f, late2)
<1> SUFFICES ASSUME op.t = "add", op.id \notin late2
             PROVE  op.note.back <= f.clock + 1 /\ (op.id \in Shown(f) \/ Hid(GoneAt(f.gone, op.id), op.note.back))
  BY DEF Repeatable
<1>1. PICK i \in Ids, back \in Nat : i = op.id /\ back = op.note.back
  BY OpIs, NoteIs
<1>2. back <= s.clock + 1 /\ (i \in Shown(s) \/ Hid(GoneAt(s.gone, i), back))
  BY <1>1 DEF Repeatable
<1>3. /\ f.clock = c.clock /\ s.clock \in Nat /\ c.clock \in Nat /\ GoneAt(s.gone, i) \in Nat /\ GoneAt(f.gone, i) \in Nat
      /\ GoneAt(s.gone, i) <= GoneAt(f.gone, i)
      /\ i \in Shown(s) => i \in Shown(f) \/ i \in late2 \/ GoneAt(f.gone, i) >= c.clock
  BY NextAt
<1>4. c.clock > s.clock
  BY DEF Nexts
<1> QED BY <1>1, <1>2, <1>3, <1>4 DEF Hid

\* The operation that is committed now may be done again as well.
LEMMA RepeatableNew ==
  ASSUME NEW s \in SoundDocs, NEW c \in Commits, NEW id \in OpIds, Nexts(s, c, id),
         NEW late, Allowing(s, c, late), NEW f, f = ApplyCommit(s, c, id),
         NEW op \in OpTypes, Alike(op, c.op), op.t = "add" => op.note.back <= c.clock + 1
  PROVE  Repeatable(op, f, late)
<1> SUFFICES ASSUME op.t = "add" PROVE Repeatable(op, f, late)
  BY DEF Repeatable
<1>1. op.id \in Ids /\ Adds(c.op, op.id)
  BY OpIs DEF Alike, Adds
<1>2. f.clock = c.clock /\ (op.id \in Shown(f) \/ op.id \in late)
  BY <1>1, NextAt
<1> QED BY <1>2 DEF Repeatable

-----------------------------------------------------------------------------
(* Who shows no more than the story. *)

\* The comments that were added late.
Late == {i \in Ids : AddedLate(i)}

\* A guest whose clock is ahead may put anything back.
Excused(g) == IF Ahead[g] <= Ahead[Host] THEN Late ELSE Ids

\* d shows no more than the document of the story that has heard the same commits.
ShowsNoMore(d, story, late) == \A i \in Ids : NoMore(d, story[d.rev], Pending(d.ops), late, i)

\* No operation of the row puts back a comment of a later revision than n.
LowRow(row, n) == \A k \in DOMAIN row : row[k].op \in LowOps(n)

\* What g may do again when it returns.
Repeats(story, g) ==
  Ahead[g] <= Ahead[Host] =>
    \A k \in DOMAIN outbox[g] :
      /\ outbox[g][k].op.t = "add" => outbox[g][k].op.note.back <= Clock(Host) + 1
      /\ \A n \in 0 .. Len(log) : outbox[g][k].id \in story[n].ops => Repeatable(outbox[g][k].op, story[n], Late)

\* g shows d, or is about to, and messages come after it.
Starts(story, g, d, messages) ==
  /\ d \in SoundDocs /\ d.rev \in 0 .. Len(log) /\ ShowsNoMore(d, story, Excused(g))
  /\ LowRow(outbox[g], d.rev) /\ LowStacks(g, d.rev) /\ Feeds(messages, log, d.rev)

\* A guest is there, or about to get a snapshot, or out.
Sits(story, g) ==
  IF g \in link
    THEN \/ Starts(story, g, doc[g], down[g])
         \/ /\ doc[g] = None /\ down[g] # <<>> /\ down[g][1].t = "doc"
            /\ Starts(story, g, down[g][1].doc, Tail(down[g]))
    ELSE doc[g] = None /\ past[g] = <<>> /\ future[g] = <<>> /\ LowRow(outbox[g], Len(log))

\* The host's screen and its file.
Keeps(story) ==
  /\ Tale(story, log) /\ \A i \in Ids : Ruled(story[Len(log)], i)
  /\ doc[Host].rev = Len(log) /\ ShowsNoMore(doc[Host], story, Late)
  /\ kept[Host].rev = Len(log) /\ ShowsNoMore(kept[Host], story, Late)
  /\ LowStacks(Host, Len(log))

\* Everybody shows no more than the story does.
ReturnInv == \E story : Keeps(story) /\ \A g \in Guests : Sits(story, g) /\ Repeats(story, g)

\* No commit is lost, and an operation leaves its outbox when it is committed.
Carries ==
  /\ \A k \in DOMAIN log : \E m \in DOMAIN log' : log'[m] = log[k]
  /\ \A r \in Replicas : \A k \in DOMAIN outbox[r] :
       \/ \E m \in DOMAIN outbox'[r] : outbox'[r][m] = outbox[r][k]
       \/ \E m \in DOMAIN log' : log'[m].id = outbox[r][k].id /\ Alike(outbox[r][k].op, log'[m].commit.op)

\* So what is pending for a document stays so until it hears of it.
LEMMA PendingStays ==
  ASSUME Carries, NEW ops
  PROVE  Pending(ops) \subseteq Pending(ops)'
<1> SUFFICES ASSUME NEW i \in Pending(ops)
             PROVE  \/ \E r \in Replicas : \E k \in DOMAIN outbox'[r] : outbox'[r][k].id \notin ops /\ Adds(outbox'[r][k].op, i)
                    \/ \E k \in DOMAIN log' : log'[k].id \notin ops /\ Adds(log'[k].commit.op, i)
  BY DEF Pending
<1>1. CASE \E k \in DOMAIN log : log[k].id \notin ops /\ Adds(log[k].commit.op, i)
  <2>1. PICK k \in DOMAIN log : log[k].id \notin ops /\ Adds(log[k].commit.op, i)
    BY <1>1
  <2>2. PICK m \in DOMAIN log' : log'[m] = log[k]
    BY DEF Carries
  <2> QED BY <2>1, <2>2
<1>2. CASE \E r \in Replicas : \E k \in DOMAIN outbox[r] : outbox[r][k].id \notin ops /\ Adds(outbox[r][k].op, i)
  <2>1. PICK r \in Replicas : \E k \in DOMAIN outbox[r] : outbox[r][k].id \notin ops /\ Adds(outbox[r][k].op, i)
    BY <1>2
  <2>2. PICK k \in DOMAIN outbox[r] : outbox[r][k].id \notin ops /\ Adds(outbox[r][k].op, i)
    BY <2>1
  <2>3. CASE \E m \in DOMAIN outbox'[r] : outbox'[r][m] = outbox[r][k]
    BY <2>2, <2>3
  <2>4. CASE \E m \in DOMAIN log' : log'[m].id = outbox[r][k].id /\ Alike(outbox[r][k].op, log'[m].commit.op)
    BY <2>2, <2>4 DEF Alike, Adds
  <2> QED BY <2>3, <2>4 DEF Carries
<1> QED BY <1>1, <1>2 DEF Pending

\* The log only grows, and so does what was added late.
Grows(rec, more) == Len(rec) \in Nat /\ (more = rec \/ \E x \in Records : more = Append(rec, x))

LEMMA GrowsTo ==
  ASSUME NEW rec \in Seq(Records), NEW more, Grows(rec, more)
  PROVE  /\ more \in Seq(Records) /\ Len(more) \in Nat /\ Len(rec) <= Len(more)
         /\ \A k \in DOMAIN rec : k \in DOMAIN more /\ more[k] = rec[k]
         /\ \A k \in DOMAIN rec : k \in Nat /\ \A j \in 1 .. (k - 1) : j \in DOMAIN rec
<1>1. CASE more = rec
  BY <1>1
<1>2. CASE more # rec
  <2>1. PICK x \in Records : more = Append(rec, x)
    BY <1>2 DEF Grows
  <2> QED BY <2>1
<1> QED BY <1>1, <1>2

LEMMA LateGrows ==
  ASSUME log \in Seq(Records), Grows(log, log')
  PROVE  Late \subseteq Late' /\ \A g \in Guests : Excused(g) \subseteq Excused(g)'
<1>1. /\ \A k \in DOMAIN log : k \in DOMAIN log' /\ log'[k] = log[k]
      /\ \A k \in DOMAIN log : k \in Nat /\ \A j \in 1 .. (k - 1) : j \in DOMAIN log
  BY GrowsTo
<1>2. ASSUME NEW i \in Ids, AddedLate(i) PROVE AddedLate(i)'
  <2>1. PICK k \in DOMAIN log :
          /\ log[k].commit.op.t = "add" /\ log[k].commit.op.id = i /\ log[k].commit.op.note.back = 0
          /\ DeletedBefore(k, i)
    BY <1>2 DEF AddedLate
  <2>2. PICK j \in 1 .. (k - 1) : Deletes(log[j].commit.op, i)
    BY <2>1 DEF DeletedBefore
  <2>3. DeletedBefore(k, i)'
    BY <1>1, <2>2 DEF DeletedBefore
  <2> QED BY <1>1, <2>1, <2>3 DEF AddedLate
<1>3. Late \subseteq Late'
  BY <1>2 DEF Late
<1> QED BY <1>3 DEF Excused

\* What the story says is deleted when an add is committed makes it a late one.
LEMMA LateCommit ==
  ASSUME log \in Seq(Records), NEW s \in SoundDocs, NEW c \in Commits, NEW id \in OpIds,
         log' = Append(log, [id |-> id, commit |-> c]), \A i \in Ids : Ruled(s, i)
  PROVE  Allowing(s, c, Late')
<1> SUFFICES ASSUME c.op.t = "add", c.op.note.back = 0, GoneAt(s.gone, c.op.id) # 0 PROVE c.op.id \in Late'
  BY DEF Allowing
<1>1. PICK i \in Ids : i = c.op.id
  BY OpIs DEF Commits
<1>2. PICK m \in DOMAIN log : Deletes(log[m].commit.op, i)
  BY <1>1 DEF Ruled
<1>3. PICK n \in Nat : n = Len(log) /\ DOMAIN log = 1 .. n
  OBVIOUS
<1>4. /\ n + 1 \in DOMAIN log' /\ log'[n + 1] = [id |-> id, commit |-> c]
      /\ m \in 1 .. ((n + 1) - 1) /\ log'[m] = log[m]
  BY <1>2, <1>3
<1>5. DeletedBefore(n + 1, i)'
  BY <1>2, <1>4 DEF DeletedBefore
<1>6. log'[n + 1].commit = c
  BY <1>4
<1>7. AddedLate(i)'
  BY <1>1, <1>4, <1>5, <1>6 DEF AddedLate
<1> QED BY <1>1, <1>7 DEF Late

\* Whatever others do, such a document stays one.
LEMMA ShowsStill ==
  ASSUME Carries, NEW d, NEW s, NEW late, NEW late2, late \subseteq late2,
         \A i \in Ids : NoMore(d, s, Pending(d.ops), late, i)
  PROVE  \A i \in Ids : NoMore(d, s, Pending(d.ops)', late2, i)
<1>1. Pending(d.ops) \subseteq Pending(d.ops)'
  BY PendingStays
<1>2. PICK open, open2 : open = Pending(d.ops) /\ open2 = Pending(d.ops)' /\ open \subseteq open2
  BY <1>1
<1>3. open \union late \subseteq open2 \union late2
  BY <1>2
<1>4. \A i \in Ids : NoMore(d, s, open2, late2, i)
  BY <1>2, <1>3, NoMoreFor
<1> QED BY <1>2, <1>4

LEMMA StartsStill ==
  ASSUME log \in Seq(Records), Grows(log, log'), Carries, NEW story, NEW more,
         \A k \in 0 .. Len(log) : more[k] = story[k], NEW g \in Guests, NEW d, NEW messages, NEW messages2,
         Starts(story, g, d, messages), outbox'[g] = outbox[g], past'[g] = past[g], future'[g] = future[g],
         Feeds(messages2, log', d.rev)
  PROVE  Starts(more, g, d, messages2)'
<1>1. d \in SoundDocs /\ d.rev \in 0 .. Len(log) /\ ShowsNoMore(d, story, Excused(g))
      /\ LowRow(outbox[g], d.rev) /\ LowStacks(g, d.rev)
  BY DEF Starts
<1>2. PICK late, late2 : late = Excused(g) /\ late2 = Excused(g)' /\ late \subseteq late2
  BY LateGrows
<1>3. PICK s : s = story[d.rev] /\ s = more[d.rev]
  BY <1>1
<1>4. \A i \in Ids : NoMore(d, s, Pending(d.ops), late, i)
  BY <1>1, <1>2, <1>3 DEF ShowsNoMore
<1>5. \A i \in Ids : NoMore(d, s, Pending(d.ops)', late2, i)
  BY <1>2, <1>4, ShowsStill
<1>6. ShowsNoMore(d, more, Excused(g))'
  BY <1>2, <1>3, <1>5 DEF ShowsNoMore
<1>7. d.rev \in 0 .. Len(log')
  BY <1>1, GrowsTo
<1>8. LowRow(outbox[g], d.rev)' /\ LowStacks(g, d.rev)'
  BY <1>1 DEF LowRow, LowStacks
<1> QED BY <1>1, <1>6, <1>7, <1>8 DEF Starts

LEMMA SitsStill ==
  ASSUME log \in Seq(Records), log' = log, Carries, NEW story, NEW g \in Guests, Sits(story, g),
         doc'[g] = doc[g], down'[g] = down[g], outbox'[g] = outbox[g], past'[g] = past[g], future'[g] = future[g],
         g \in link <=> g \in link'
  PROVE  Sits(story, g)'
<1>1. Grows(log, log')
  BY DEF Grows
<1>2. ASSUME NEW d, NEW messages, Starts(story, g, d, messages) PROVE Starts(story, g, d, messages)'
  <2>1. Feeds(messages, log', d.rev)
    BY <1>2 DEF Starts
  <2> QED BY <1>1, <1>2, <2>1, StartsStill
<1>3. CASE g \notin link
  BY <1>3 DEF Sits, LowRow
<1>4. CASE g \in link
  <2>1. CASE Starts(story, g, doc[g], down[g])
    <3>1. PICK d, messages : d = doc[g] /\ messages = down[g]
      OBVIOUS
    <3>2. Starts(story, g, d, messages)'
      BY <1>2, <2>1, <3>1
    <3>3. Starts(story, g, doc[g], down[g])'
      BY <3>1, <3>2
    <3> QED BY <1>4, <3>3 DEF Sits
  <2>2. CASE /\ doc[g] = None /\ down[g] # <<>> /\ down[g][1].t = "doc"
             /\ Starts(story, g, down[g][1].doc, Tail(down[g]))
    <3>1. PICK d, messages : d = down[g][1].doc /\ messages = Tail(down[g])
      OBVIOUS
    <3>2. Starts(story, g, d, messages)'
      BY <1>2, <2>2, <3>1
    <3>3. Starts(story, g, down[g][1].doc, Tail(down[g]))'
      BY <3>1, <3>2
    <3> QED BY <1>4, <2>2, <3>3 DEF Sits
  <2> QED BY <1>4, <2>1, <2>2 DEF Sits
<1> QED BY <1>3, <1>4

LEMMA RepeatsStill ==
  ASSUME ReplicasInv, log' = log, Clock(Host)' \in Nat, Clock(Host)' >= Clock(Host),
         NEW story, NEW g \in Guests, Repeats(story, g),
         \A m \in DOMAIN outbox'[g] : \E k \in DOMAIN outbox[g] : outbox'[g][m] = outbox[g][k]
  PROVE  Repeats(story, g)'
<1>1. outbox[g] \in Seq(Envelopes) /\ Clock(Host) \in Nat
  BY Clocks DEF ReplicasInv, Posted, Replicas
<1>2. Late' = Late
  BY DEF Late, AddedLate, DeletedBefore
<1> SUFFICES ASSUME Ahead[g] <= Ahead[Host], NEW m \in DOMAIN outbox'[g]
             PROVE  /\ outbox'[g][m].op.t = "add" => outbox'[g][m].op.note.back <= Clock(Host)' + 1
                    /\ \A n \in 0 .. Len(log) : outbox'[g][m].id \in story[n].ops =>
                         Repeatable(outbox'[g][m].op, story[n], Late)
  BY <1>2 DEF Repeats
<1>3. PICK k \in DOMAIN outbox[g] : outbox'[g][m] = outbox[g][k]
  OBVIOUS
<1>4. outbox[g][k].op.t = "add" => outbox[g][k].op.note.back \in Nat
  BY <1>1, EnvelopeIs, OpIs, NoteIs
<1> QED BY <1>1, <1>3, <1>4 DEF Repeats

LEMMA KeepsStill ==
  ASSUME ReplicasInv, log' = log, Carries, doc'[Host] = doc[Host], kept'[Host] = kept[Host],
         past'[Host] = past[Host], future'[Host] = future[Host], NEW story, Keeps(story)
  PROVE  Keeps(story)'
<1>1. Late' = Late
  BY DEF Late, AddedLate, DeletedBefore
<1>2. \A i \in Ids : Ruled(story[Len(log)], i)'
  BY DEF Keeps, Ruled, LastWord, Allows, DeletedBefore
<1>3. ASSUME NEW d, ShowsNoMore(d, story, Late) PROVE ShowsNoMore(d, story, Late)'
  <2>1. PICK late, s : late = Late /\ s = story[d.rev] /\ late \subseteq late
    OBVIOUS
  <2>2. \A i \in Ids : NoMore(d, s, Pending(d.ops), late, i)
    BY <1>3, <2>1 DEF ShowsNoMore
  <2>3. \A i \in Ids : NoMore(d, s, Pending(d.ops)', late, i)
    BY <2>1, <2>2, ShowsStill
  <2> QED BY <1>1, <2>1, <2>3 DEF ShowsNoMore
<1>4. PICK a, b : a = doc[Host] /\ b = kept[Host]
  OBVIOUS
<1>5. ShowsNoMore(a, story, Late)' /\ ShowsNoMore(b, story, Late)'
  BY <1>3, <1>4 DEF Keeps
<1>6. ShowsNoMore(doc[Host], story, Late)' /\ ShowsNoMore(kept[Host], story, Late)'
  BY <1>4, <1>5
<1> QED BY <1>2, <1>6 DEF Keeps, LowStacks

-----------------------------------------------------------------------------
(* A post. *)

\* A post adds its envelopes to one row, and takes none away.
LEMMA PostRows ==
  ASSUME ReplicasInv, NEW r \in Replicas, NEW ops, Posting(r, ops)
  PROVE  /\ \A m \in DOMAIN outbox[r] : \E k \in DOMAIN outbox'[r] : outbox'[r][k] = outbox[r][m]
         /\ \A k \in DOMAIN outbox'[r] :
              \/ \E m \in DOMAIN outbox[r] : outbox'[r][k] = outbox[r][m]
              \/ \E m \in DOMAIN ops : outbox'[r][k].op = ops[m] /\ outbox'[r][k].id = used + m
         /\ \A m \in DOMAIN ops : \E k \in DOMAIN outbox'[r] : outbox'[r][k].op = ops[m] /\ outbox'[r][k].id = used + m
         /\ \A m \in DOMAIN ops : m \in Nat /\ m > 0
         /\ Carries
<1> DEFINE envelopes == [k \in DOMAIN ops |-> [id |-> used + k, op |-> ops[k]]]
<1>1. outbox' = [outbox EXCEPT ![r] = @ \o envelopes] /\ log' = log
  BY DEF Posting, PostAll
<1>2. ops \in Seq(TimedOps(ActClock(r))) /\ Len(ops) \in Nat /\ DOMAIN ops = 1 .. Len(ops) /\ used \in Nat
      /\ outbox \in [Replicas -> Seq(Envelopes)]
  BY DEF Posting, ReplicasInv, Counts, Posted
<1>3. /\ Len(envelopes) = Len(ops) /\ DOMAIN envelopes = DOMAIN ops
      /\ \A k \in DOMAIN ops : envelopes[k].id = used + k /\ envelopes[k].op = ops[k]
      /\ envelopes \in Seq({envelopes[k] : k \in DOMAIN ops})
  BY <1>2
<1> HIDE DEF envelopes
<1>4. /\ outbox'[r] = outbox[r] \o envelopes /\ outbox[r] \in Seq(Envelopes)
      /\ \A q \in Replicas : q # r => outbox'[q] = outbox[q]
  BY <1>1, <1>2
<1>6. PICK p \in Nat, q \in Nat : p = Len(outbox[r]) /\ q = Len(ops)
  <2>1. Len(outbox[r]) \in Nat
    BY <1>4
  <2>2. Len(ops) \in Nat
    BY <1>2
  <2> QED BY <2>1, <2>2, Zenon
<1>5. /\ DOMAIN outbox'[r] = 1 .. (p + q) /\ DOMAIN outbox[r] = 1 .. p
      /\ \A k \in 1 .. p : outbox'[r][k] = outbox[r][k]
      /\ \A k \in DOMAIN ops : outbox'[r][p + k] = envelopes[k]
  <2>1. PICK T : envelopes \in Seq(T)
    BY <1>3
  <2>2. PICK row, more : row = outbox[r] /\ more = outbox'[r] /\ more = row \o envelopes /\ row \in Seq(Envelopes)
    BY <1>4
  <2>3. /\ Len(more) = p + q /\ DOMAIN more = 1 .. (p + q) /\ DOMAIN row = 1 .. p
        /\ \A k \in 1 .. (p + q) : IF k <= p THEN more[k] = row[k] ELSE more[k] = envelopes[k - p]
    <3>1. /\ Len(row \o envelopes) = Len(row) + Len(envelopes) /\ DOMAIN (row \o envelopes) = 1 .. Len(row \o envelopes)
          /\ DOMAIN row = 1 .. Len(row)
          /\ \A k \in DOMAIN (row \o envelopes) :
               IF k <= Len(row) THEN (row \o envelopes)[k] = row[k]
                                ELSE (row \o envelopes)[k] = envelopes[k - Len(row)]
      BY <2>1, <2>2, Joined
    <3>2. Len(row) = p /\ Len(envelopes) = q /\ row \o envelopes = more
      BY <1>3, <1>6, <2>2
    <3> QED BY <3>1, <3>2
  <2>4. ASSUME NEW k \in DOMAIN ops PROVE more[p + k] = envelopes[k]
    <3>1. k \in 1 .. q
      BY <1>2, <1>6
    <3>2. p + k \in 1 .. (p + q) /\ ~(p + k <= p) /\ (p + k) - p = k
      BY <1>6, <3>1
    <3> QED BY <2>3, <3>2
  <2>5. \A k \in 1 .. p : k \in 1 .. (p + q) /\ k <= p
    BY <1>6
  <2> QED BY <2>2, <2>3, <2>4, <2>5
<1>7. ASSUME NEW m \in DOMAIN outbox[r] PROVE \E k \in DOMAIN outbox'[r] : outbox'[r][k] = outbox[r][m]
  <2>1. m \in DOMAIN outbox'[r] /\ outbox'[r][m] = outbox[r][m]
    BY <1>5, <1>6
  <2> QED BY <2>1
<1>8. ASSUME NEW k \in DOMAIN outbox'[r]
      PROVE  \/ \E m \in DOMAIN outbox[r] : outbox'[r][k] = outbox[r][m]
             \/ \E m \in DOMAIN ops : outbox'[r][k].op = ops[m] /\ outbox'[r][k].id = used + m
  <2>1. CASE k <= p
    <3>1. k \in DOMAIN outbox[r] /\ outbox'[r][k] = outbox[r][k]
      BY <1>5, <1>6, <2>1
    <3> QED BY <3>1
  <2>2. CASE ~(k <= p)
    <3>1. k \in 1 .. (p + q)
      BY <1>5, <1>6
    <3>2. k - p \in DOMAIN ops /\ k = p + (k - p)
      BY <1>2, <1>6, <2>2, <3>1
    <3>3. outbox'[r][k] = envelopes[k - p]
      BY <1>5, <1>6, <3>2
    <3> QED BY <1>3, <3>2, <3>3
  <2> QED BY <2>1, <2>2
<1>9. ASSUME NEW m \in DOMAIN ops PROVE \E k \in DOMAIN outbox'[r] : outbox'[r][k].op = ops[m] /\ outbox'[r][k].id = used + m
  <2>1. m \in 1 .. q /\ DOMAIN outbox'[r] = 1 .. (p + q)
    BY <1>2, <1>5, <1>6
  <2>2. p + m \in 1 .. (p + q)
    BY <1>6, <2>1
  <2>3. outbox'[r][p + m] = envelopes[m]
    BY <1>5, <1>6
  <2>4. envelopes[m].id = used + m /\ envelopes[m].op = ops[m]
    BY <1>3
  <2>5. p + m \in DOMAIN outbox'[r]
    BY <2>1, <2>2
  <2> QED BY <2>3, <2>4, <2>5
<1>10. Carries
  <2>1. ASSUME NEW x \in Replicas, NEW k \in DOMAIN outbox[x] PROVE \E m \in DOMAIN outbox'[x] : outbox'[x][m] = outbox[x][k]
    <3>1. CASE x = r
      BY <1>7, <3>1
    <3>2. CASE x # r
      BY <1>4, <3>2
    <3> QED BY <3>1, <3>2
  <2> QED BY <1>1, <2>1 DEF Carries
<1>11. \A m \in DOMAIN ops : m \in Nat /\ m > 0
  BY <1>2
<1> QED BY <1>7, <1>8, <1>9, <1>10, <1>11

\* No document of the story knows an id that is not given yet.
LEMMA IdsAreOld ==
  ASSUME ReplicasInv, BookInv, NEW story, Tale(story, log), NEW n \in 0 .. Len(log), NEW id \in story[n].ops
  PROVE  id <= used
<1>1. story[n] \in SoundDocs /\ Sums(story, log, n) /\ Len(log) \in Nat /\ DOMAIN log = 1 .. Len(log)
  BY DEF Tale, ReplicasInv, Recordings
<1>2. id \in OpIds
  BY <1>1, DocIs DEF SoundDocs
<1>3. PICK j \in 1 .. n : log[j].id = id
  BY <1>1, <1>2 DEF Sums
<1>4. j \in DOMAIN log /\ Host \in Replicas
  BY <1>1 DEF Replicas
<1> QED BY <1>3, <1>4, TheSameOp

\* Someone's document shows no more than the story's, nor does the undo stack.
Tame(story, r, d, n, late) ==
  d \in SoundDocs /\ d.rev = n /\ ShowsNoMore(d, story, late) /\ LowStacks(r, n)
Fit(r, ops, n) == \A m \in DOMAIN ops : ops[m] \in LowOps(n) /\ ops[m] \in TimedOps(ActClock(r))
Acting(story, r, ops, n) == Tale(story, log) /\ Posting(r, ops) /\ n \in 0 .. Len(log)

\* Whoever posts shows what it adds, and that is pending.
LEMMA PostShows ==
  ASSUME ReplicasInv, ReplicasInv', BookInv, NEW story, NEW r \in Replicas, NEW ops, NEW n,
         Acting(story, r, ops, n), NEW late, NEW d, d = doc[r], Tame(story, r, d, n, late), NEW e, e = doc'[r]
  PROVE  Tame(story, r, e, n, late)' /\ Fit(r, ops, n)
<1> DEFINE t == ActClock(r)
<1>0. /\ d \in SoundDocs /\ d.rev = n /\ d.rev \in 0 .. Len(log) /\ Tale(story, log) /\ Posting(r, ops) /\ LowStacks(r, d.rev)
      /\ \A i \in Ids : NoMore(d, story[d.rev], Pending(d.ops), late, i)
  BY DEF ShowsNoMore, Tame, Acting
<1>1. e = ApplyAll(d, ops, t) /\ ops \in Seq(TimedOps(t)) /\ t \in Nat
  BY <1>0, Clocks DEF Posting, PostAll, ReplicasInv, Copies
<1>2. d.rev \in Nat /\ story[d.rev] \in SoundDocs
  BY <1>0, DocIs DEF Tale, SoundDocs
<1>3. LowNotes(d, d.rev)
  BY <1>0 DEF LowNotes, NoMore, Shown
<1>4. ops \in Seq(LowOps(d.rev)) /\ LowStacks(r, d.rev)'
  BY <1>0, <1>2, <1>3 DEF Posting
<1>5. \A m \in DOMAIN ops : ops[m] \in LowOps(d.rev) /\ ops[m] \in TimedOps(t)
  BY <1>1, <1>4, InRow
<1> HIDE DEF t
<1>6. ops \in Seq(OpTypes)
  <2>1. TimedOps(t) \subseteq OpTypes
    BY DEF TimedOps
  <2> QED BY <1>1, <2>1, Wider
<1>7. e \in SoundDocs /\ Frame(e, d)
  BY <1>0, <1>1, <1>6, AppliedFrame
<1>8. PICK s, open, open2 :
        s \in SoundDocs /\ s = story[d.rev] /\ open = Pending(d.ops) /\ open2 = Pending(d.ops)' /\ open \subseteq open2
  <2>1. Carries
    BY <1>0, PostRows
  <2> QED BY <1>2, <2>1, PendingStays
<1>9. \A i \in Ids : NoMore(d, s, open2, late, i)
  <2>1. open \union late \subseteq open2 \union late
    BY <1>8
  <2> QED BY <1>0, <1>8, <2>1, NoMoreFor
<1>10. ASSUME NEW k \in DOMAIN ops PROVE Excusable(ops[k], s, open2, late)
  <2> SUFFICES ASSUME ops[k].t = "add" PROVE ops[k].note.rev <= s.rev /\ ops[k].id \in open2
    BY DEF Excusable
  <2>1. ops[k] \in LowOps(d.rev) /\ ops[k] \in OpTypes /\ ops[k].id \in Ids
    BY <1>5, OpIs DEF LowOps
  <2>2. d.rev = s.rev /\ d.ops = s.ops
    BY <1>9, <2>1 DEF NoMore, Frame
  <2>3. PICK m \in DOMAIN outbox'[r] : outbox'[r][m].op = ops[k] /\ outbox'[r][m].id = used + k
    BY <1>0, PostRows
  <2>4. k \in Nat /\ k > 0 /\ used \in Nat
    BY <1>0, PostRows DEF ReplicasInv, Counts
  <2>5. used + k \notin d.ops
    <3> SUFFICES ASSUME used + k \in d.ops PROVE FALSE
      OBVIOUS
    <3>1. used + k \in story[d.rev].ops
      BY <1>8, <2>2
    <3>2. used + k <= used
      BY <1>0, <3>1, IdsAreOld
    <3> QED BY <2>4, <3>2
  <2>6. Adds(outbox'[r][m].op, ops[k].id) /\ outbox'[r][m].id \notin d.ops
    BY <2>3, <2>5 DEF Adds
  <2>7. ops[k].id \in Pending(d.ops)'
    BY <2>1, <2>6 DEF Pending
  <2> QED BY <1>8, <2>1, <2>2, <2>7 DEF LowOps
<1>11. \A i \in Ids : NoMore(e, s, open2, late, i)
  BY <1>0, <1>1, <1>6, <1>8, <1>9, <1>10, NoMoreApplied
<1>12. e.ops = d.ops /\ e.rev = d.rev
  BY <1>7 DEF Frame
<1>13. ShowsNoMore(e, story, late)'
  BY <1>8, <1>11, <1>12 DEF ShowsNoMore
<1> QED BY <1>0, <1>4, <1>5, <1>7, <1>12, <1>13 DEF t, Tame, Fit

\* What the log rules is the same while the log is.
LEMMA RuledStill ==
  ASSUME log' = log
  PROVE  Late' = Late /\ (\A g \in Guests : Excused(g)' = Excused(g)) /\ \A s, i : Ruled(s, i) => Ruled(s, i)'
<1>1. Late' = Late
  BY DEF Late, AddedLate, DeletedBefore
<1>2. ASSUME NEW s, NEW i, Ruled(s, i) PROVE Ruled(s, i)'
  BY <1>2 DEF Ruled, LastWord, Allows, DeletedBefore
<1> QED BY <1>1, <1>2 DEF Excused

\* A guest posts.
LEMMA PostStarts ==
  ASSUME ReplicasInv, ReplicasInv', BookInv, NEW story, Tale(story, log), NEW g \in Guests, NEW ops,
         Posting(g, ops), Starts(story, g, doc[g], down[g])
  PROVE  Starts(story, g, doc[g], down[g])'
<1>1. g \in Replicas /\ log' = log /\ down' = down
  BY DEF Posting, PostAll, Replicas
<1>2. PICK d, e, late : d = doc[g] /\ e = doc'[g] /\ late = Excused(g) /\ late = Excused(g)'
  BY <1>1, RuledStill
<1>3. /\ d \in SoundDocs /\ d.rev \in 0 .. Len(log) /\ LowRow(outbox[g], d.rev) /\ Feeds(down[g], log, d.rev)
      /\ Acting(story, g, ops, d.rev) /\ Tame(story, g, d, d.rev, late)
  BY <1>2 DEF Starts, Acting, Tame
<1>4. Tame(story, g, e, d.rev, late)' /\ Fit(g, ops, d.rev)
  <2>1. PICK n : n = d.rev
    OBVIOUS
  <2>2. Tame(story, g, e, n, late)' /\ Fit(g, ops, n)
    BY <1>1, <1>2, <1>3, <2>1, PostShows
  <2> QED BY <2>1, <2>2
<1>5. LowRow(outbox'[g], d.rev)
  <2> SUFFICES ASSUME NEW k \in DOMAIN outbox'[g] PROVE outbox'[g][k].op \in LowOps(d.rev)
    BY DEF LowRow
  <2>1. \/ \E m \in DOMAIN outbox[g] : outbox'[g][k] = outbox[g][m]
        \/ \E m \in DOMAIN ops : outbox'[g][k].op = ops[m]
    BY <1>1, PostRows
  <2> QED BY <1>3, <1>4, <2>1 DEF LowRow, Fit
<1>6. LowRow(outbox[g], e.rev)' /\ LowStacks(g, e.rev)'
  BY <1>2, <1>4, <1>5 DEF LowRow, LowStacks, Tame
<1>7. ShowsNoMore(doc[g], story, Excused(g))'
  BY <1>2, <1>4 DEF ShowsNoMore, Tame
<1> QED BY <1>1, <1>2, <1>3, <1>4, <1>6, <1>7 DEF Starts, Tame

\* What is posted is new: nobody has committed it.
LEMMA PostRepeats ==
  ASSUME ReplicasInv, BookInv, NEW story, Tale(story, log), NEW g \in Guests, NEW ops,
         Posting(g, ops), Repeats(story, g)
  PROVE  Repeats(story, g)'
<1>1. g \in Replicas /\ log' = log /\ now' = Later(now) /\ Late' = Late /\ Host \in Replicas
  BY RuledStill DEF Posting, PostAll, Replicas
<1>2. /\ outbox[g] \in Seq(Envelopes) /\ Clock(Host) \in Nat /\ ActClock(g) \in Nat /\ now \in Nat /\ used \in Nat
      /\ Later(now) \in Nat /\ Later(now) >= now /\ Ahead[g] \in Nat /\ Ahead[Host] \in Nat
  BY <1>1, Clocks, LaterIs DEF ReplicasInv, Posted, Counts
<1>3. Clock(Host)' = Later(now) + Ahead[Host] /\ Clock(Host)' >= Clock(Host) /\ Clock(Host)' \in Nat
  BY <1>1, <1>2 DEF Clock
<1> SUFFICES ASSUME Ahead[g] <= Ahead[Host], NEW k \in DOMAIN outbox'[g]
             PROVE  /\ outbox'[g][k].op.t = "add" => outbox'[g][k].op.note.back <= Clock(Host)' + 1
                    /\ \A n \in 0 .. Len(log) : outbox'[g][k].id \in story[n].ops =>
                         Repeatable(outbox'[g][k].op, story[n], Late)
  BY <1>1 DEF Repeats
<1>4. CASE \E m \in DOMAIN outbox[g] : outbox'[g][k] = outbox[g][m]
  <2>1. PICK m \in DOMAIN outbox[g] : outbox'[g][k] = outbox[g][m]
    BY <1>4
  <2>2. outbox[g][m].op.t = "add" => outbox[g][m].op.note.back \in Nat
    BY <1>2, EnvelopeIs, OpIs, NoteIs
  <2> QED BY <1>2, <1>3, <2>1, <2>2 DEF Repeats
<1>5. CASE \E m \in DOMAIN ops : outbox'[g][k].op = ops[m] /\ outbox'[g][k].id = used + m
  <2>1. PICK m \in DOMAIN ops : outbox'[g][k].op = ops[m] /\ outbox'[g][k].id = used + m
    BY <1>5
  <2>2. m \in Nat /\ m > 0
    BY <1>1, PostRows
  <2>3. ops[m] \in TimedOps(ActClock(g))
    BY InRow DEF Posting
  <2>4. ops[m].t = "add" => ops[m].note.back <= ActClock(g) + 1 /\ ops[m].note.back \in Nat
    BY <2>3, OpIs, NoteIs DEF TimedOps
  <2>5. ActClock(g) <= Clock(Host)'
    BY <1>2, <1>3 DEF ActClock
  <2>6. ASSUME NEW n \in 0 .. Len(log), used + m \in story[n].ops PROVE FALSE
    <3>1. used + m <= used
      BY <2>6, IdsAreOld
    <3> QED BY <1>2, <2>2, <3>1
  <2> QED BY <1>2, <1>3, <2>1, <2>4, <2>5, <2>6
<1>6. \/ \E m \in DOMAIN outbox[g] : outbox'[g][k] = outbox[g][m]
      \/ \E m \in DOMAIN ops : outbox'[g][k].op = ops[m] /\ outbox'[g][k].id = used + m
  BY <1>1, PostRows
<1> QED BY <1>4, <1>5, <1>6

\* The host posts.
LEMMA PostKeeps ==
  ASSUME ReplicasInv, ReplicasInv', BookInv, NEW story, NEW ops, Posting(Host, ops), Keeps(story)
  PROVE  Keeps(story)'
<1>1. /\ Host \in Replicas /\ log' = log /\ Late' = Late /\ (\A s, i : Ruled(s, i) => Ruled(s, i)')
      /\ kept \in [Replicas -> SoundDocs] /\ doc[Host] \in SoundDocs /\ Len(log) \in Nat
      /\ kept' = [kept EXCEPT ![Host] = Merge(@, doc'[Host])]
  BY RuledStill DEF Posting, PostAll, Replicas, ReplicasInv, Copies, Recordings
<1>2. PICK d, e, a, b, late, n :
        /\ d = doc[Host] /\ e = doc'[Host] /\ a = kept[Host] /\ b = Merge(a, e) /\ late = Late /\ n = Len(log)
        /\ n \in Nat /\ n \in 0 .. Len(log) /\ a \in SoundDocs /\ d \in SoundDocs
  BY <1>1
<1>3. /\ Tale(story, log) /\ d.rev = n /\ a.rev = n /\ LowStacks(Host, n)
      /\ ShowsNoMore(d, story, late) /\ \A i \in Ids : NoMore(a, story[n], Pending(a.ops), late, i)
  BY <1>2 DEF Keeps, ShowsNoMore
<1>4. /\ e \in SoundDocs /\ e.rev = n /\ LowStacks(Host, n)'
      /\ \A i \in Ids : NoMore(e, story[n], Pending(e.ops)', late, i)
  <2>1. Acting(story, Host, ops, n) /\ Tame(story, Host, d, n, late)
    BY <1>2, <1>3 DEF Acting, Tame
  <2>2. Tame(story, Host, e, n, late)'
    BY <1>1, <1>2, <2>1, PostShows
  <2> QED BY <2>2 DEF ShowsNoMore, Tame
<1>5. \A i \in Ids : NoMore(a, story[n], Pending(a.ops)', late, i)
  <2>1. Carries /\ late \subseteq late
    BY <1>1, PostRows
  <2>2. PICK s : s = story[n]
    OBVIOUS
  <2> QED BY <1>3, <2>1, <2>2, ShowsStill
<1>6. b \in SoundDocs /\ b.ops = a.ops \union e.ops /\ b.rev = n
  <2>1. a \in Docs /\ e \in Docs
    BY <1>2, <1>4 DEF SoundDocs
  <2>2. b \in SoundDocs
    BY <1>2, <2>1, MergeIsSound
  <2> QED BY <1>2, <1>3, <1>4, <2>2 DEF Merge, Higher
<1>7. kept'[Host] = b
  BY <1>1, <1>2
<1>8. ASSUME NEW i \in Ids PROVE NoMore(b, story[n], Pending(b.ops)', late, i)
  <2>1. story[n] \in SoundDocs
    BY <1>2, <1>3 DEF Tale
  <2>2. a.ops = story[n].ops /\ e.ops = story[n].ops
    BY <1>4, <1>5 DEF NoMore, Frame
  <2>3. a.ops = e.ops /\ b.ops = e.ops
    BY <1>6, <2>2
  <2>4. PICK s, open : s = story[n] /\ open = Pending(b.ops)' /\ open = Pending(a.ops)' /\ open = Pending(e.ops)'
    BY <2>3
  <2> QED BY <1>2, <1>4, <1>5, <2>1, <2>4, NoMoreMerged
<1>9. ShowsNoMore(doc[Host], story, Late)' /\ ShowsNoMore(kept[Host], story, Late)'
  <2>1. (\A i \in Ids : NoMore(e, story[e.rev], Pending(e.ops)', late, i))
        /\ \A i \in Ids : NoMore(b, story[b.rev], Pending(b.ops)', late, i)
    BY <1>4, <1>6, <1>8
  <2>2. ShowsNoMore(e, story, late)' /\ ShowsNoMore(b, story, late)'
    BY <2>1 DEF ShowsNoMore
  <2>3. late = Late' /\ e = doc'[Host] /\ b = kept'[Host]
    BY <1>1, <1>2, <1>7
  <2> QED BY <2>2, <2>3 DEF ShowsNoMore
<1>10. LowStacks(Host, Len(log))'
  BY <1>1, <1>2, <1>4 DEF LowStacks
<1>11. \A i \in Ids : Ruled(story[Len(log)], i)'
  BY <1>1 DEF Keeps
<1> QED BY <1>1, <1>2, <1>3, <1>4, <1>6, <1>7, <1>9, <1>10, <1>11 DEF Keeps

\* Posting keeps the invariant, for the host and for guests.
LEMMA ReturnPost ==
  ASSUME ReplicasInv, ReplicasInv', BookInv, ReturnInv, NEW r \in Replicas, NEW ops, Posting(r, ops)
  PROVE  ReturnInv'
<1>1. PICK story : Keeps(story) /\ \A g \in Guests : Sits(story, g) /\ Repeats(story, g)
  BY DEF ReturnInv
<1>2. /\ log' = log /\ link' = link /\ down' = down /\ now' = Later(now) /\ log \in Seq(Records)
      /\ \A m \in Replicas : m # r => /\ doc'[m] = doc[m] /\ outbox'[m] = outbox[m] /\ kept'[m] = kept[m]
                                      /\ past'[m] = past[m] /\ future'[m] = future[m]
      /\ InRoom(r) /\ Host \in Replicas
  BY DEF Posting, PostAll, Replicas, ReplicasInv, Copies, Posted, Recordings, Records
<1>3. Tale(story, log) /\ Carries
  BY <1>1, PostRows DEF Keeps
<1>4. Clock(Host)' \in Nat /\ Clock(Host)' >= Clock(Host)
  BY <1>2, Clocks, LaterIs DEF Clock, Replicas
<1>5. Keeps(story)'
  <2>1. CASE r = Host
    BY <1>1, <2>1, PostKeeps
  <2>2. CASE r # Host
    BY <1>1, <1>2, <1>3, <2>2, KeepsStill
  <2> QED BY <2>1, <2>2
<1>6. ASSUME NEW g \in Guests PROVE Sits(story, g)' /\ Repeats(story, g)'
  <2>0. g \in Replicas
    BY DEF Replicas
  <2>1. CASE g # r
    <3>1. Sits(story, g)'
      BY <1>1, <1>2, <1>3, <1>6, <2>0, <2>1, SitsStill
    <3>2. Repeats(story, g)'
      BY <1>1, <1>2, <1>4, <1>6, <2>0, <2>1, RepeatsStill
    <3> QED BY <3>1, <3>2
  <2>2. CASE g = r
    <3>1. g \in link /\ Starts(story, g, doc[g], down[g])
      BY <1>1, <1>2, <1>6, <2>2 DEF Sits, InRoom
    <3>2. Starts(story, g, doc[g], down[g])'
      BY <1>3, <1>6, <2>2, <3>1, PostStarts
    <3>3. Repeats(story, g)'
      BY <1>1, <1>3, <1>6, <2>2, PostRepeats
    <3> QED BY <1>2, <3>1, <3>2, <3>3 DEF Sits
  <2> QED BY <2>1, <2>2
<1> QED BY <1>5, <1>6 DEF ReturnInv

-----------------------------------------------------------------------------
(* The host serves an envelope. *)

\* Whatever is posted or recorded under id is what c commits.
Named(id, c) ==
  /\ \A r \in Replicas : \A k \in DOMAIN outbox[r] : outbox[r][k].id = id => Alike(outbox[r][k].op, c.op)
  /\ \A k \in DOMAIN log : log[k].id = id => Alike(log[k].commit.op, c.op)

\* Who hears of c has nothing less to expect but what c adds.
LEMMA PendingHeard ==
  ASSUME Carries, NEW ops, NEW id, NEW c, Named(id, c)
  PROVE  \A j \in Pending(ops) : j \in Pending(ops \union {id})' \/ Adds(c.op, j)
<1> SUFFICES ASSUME NEW j \in Pending(ops), ~Adds(c.op, j) PROVE j \in Pending(ops \union {id})'
  OBVIOUS
<1>1. PICK more : more = ops \union {id}
  OBVIOUS
<1>2. j \in Pending(more)
  <2>1. CASE \E r \in Replicas : \E k \in DOMAIN outbox[r] : outbox[r][k].id \notin ops /\ Adds(outbox[r][k].op, j)
    <3>1. PICK r \in Replicas : \E k \in DOMAIN outbox[r] : outbox[r][k].id \notin ops /\ Adds(outbox[r][k].op, j)
      BY <2>1
    <3>2. PICK k \in DOMAIN outbox[r] : outbox[r][k].id \notin ops /\ Adds(outbox[r][k].op, j)
      BY <3>1
    <3>3. outbox[r][k].id # id
      BY <3>2 DEF Named, Alike, Adds
    <3>4. outbox[r][k].id \notin more
      BY <1>1, <3>2, <3>3
    <3> QED BY <3>2, <3>4 DEF Pending
  <2>2. CASE \E k \in DOMAIN log : log[k].id \notin ops /\ Adds(log[k].commit.op, j)
    <3>1. PICK k \in DOMAIN log : log[k].id \notin ops /\ Adds(log[k].commit.op, j)
      BY <2>2
    <3>2. log[k].id # id
      BY <3>1 DEF Named, Alike, Adds
    <3>3. log[k].id \notin more
      BY <1>1, <3>1, <3>2
    <3> QED BY <3>1, <3>3 DEF Pending
  <2> QED BY <2>1, <2>2 DEF Pending
<1>3. Pending(more) \subseteq Pending(more)'
  BY PendingStays
<1>4. j \in Pending(more)'
  BY <1>2, <1>3
<1> QED BY <1>1, <1>4

\* An answer takes out of an outbox what the log has.
LEMMA AnswersCarry ==
  ASSUME ReplicasInv, NEW r \in Replicas, NEW id, outbox' = [outbox EXCEPT ![r] = Without(@, id)],
         NEW c, Named(id, c), log \in Seq(Records), Grows(log, log'),
         \E m \in DOMAIN log' : log'[m].id = id /\ log'[m].commit = c
  PROVE  Carries
<1>1. PICK row, w : row = outbox[r] /\ w = outbox'[r] /\ w = Without(row, id) /\ row \in Seq(Envelopes)
                    /\ \A x \in Replicas : x # r => outbox'[x] = outbox[x]
  BY DEF ReplicasInv, Posted
<1>2. \A k \in DOMAIN row : row[k].id # id => \E m \in DOMAIN w : w[m] = row[k]
  BY <1>1, WithoutIs
<1>3. PICK m \in DOMAIN log' : log'[m].id = id /\ log'[m].commit = c
  OBVIOUS
<1>4. \A k \in DOMAIN log : \E l \in DOMAIN log' : log'[l] = log[k]
  BY GrowsTo
<1>5. ASSUME NEW x \in Replicas, NEW k \in DOMAIN outbox[x]
      PROVE  \/ \E l \in DOMAIN outbox'[x] : outbox'[x][l] = outbox[x][k]
             \/ \E l \in DOMAIN log' : log'[l].id = outbox[x][k].id /\ Alike(outbox[x][k].op, log'[l].commit.op)
  <2>1. CASE x # r
    BY <1>1, <2>1
  <2>2. CASE x = r /\ row[k].id # id
    BY <1>1, <1>2, <2>2
  <2>3. CASE x = r /\ row[k].id = id
    <3>1. Alike(outbox[x][k].op, c.op)
      BY <1>1, <2>3 DEF Named
    <3> QED BY <1>1, <1>3, <2>3, <3>1
  <2> QED BY <2>1, <2>2, <2>3
<1> QED BY <1>4, <1>5 DEF Carries

\* Whatever else leaves the outboxes and the log as they are.
LEMMA CarriesOn ==
  ASSUME outbox' = outbox, log' = log
  PROVE  Carries
BY DEF Carries

\* What the host works with.
LoadedLow(story, n, loaded) ==
  /\ loaded \in SoundDocs /\ loaded.rev = n /\ loaded.ops = story[n].ops /\ loaded.clock = story[n].clock
  /\ story[n] \in SoundDocs /\ Sums(story, log, n)
  /\ \A i \in Ids : NoMore(loaded, story[n], Pending(loaded.ops), Late, i)

LEMMA HostLoadsLow ==
  ASSUME ReplicasInv, NEW story, Keeps(story), Ids # {}, NEW n \in Nat, n = Len(log),
         NEW loaded \in SoundDocs, loaded = Merge(kept[Host], doc[Host])
  PROVE  LoadedLow(story, n, loaded)
<1>1. PICK a, b, s, late : a = kept[Host] /\ b = doc[Host] /\ s = story[n] /\ late = Late
  OBVIOUS
<1>2. a \in SoundDocs /\ b \in SoundDocs /\ a.rev = n /\ b.rev = n /\ loaded = Merge(a, b)
  BY <1>1 DEF ReplicasInv, Copies, Replicas, Keeps
<1>3. n \in 0 .. Len(log)
  OBVIOUS
<1>4. s \in SoundDocs /\ Sums(story, log, n) /\ s.rev = n
  BY <1>1, <1>3 DEF Keeps, Tale, Sums
<1>5. \A i \in Ids : NoMore(a, s, Pending(a.ops), late, i) /\ NoMore(b, s, Pending(b.ops), late, i)
  BY <1>1, <1>2 DEF Keeps, ShowsNoMore
<1>6. PICK i \in Ids : TRUE
  OBVIOUS
<1>7. a.ops = s.ops /\ b.ops = s.ops /\ loaded.ops = a.ops \union b.ops
  BY <1>2, <1>5, <1>6 DEF NoMore, Frame, Merge
<1>8. PICK open : open = Pending(a.ops) /\ open = Pending(b.ops) /\ open = Pending(loaded.ops)
  <2>1. a.ops = b.ops /\ loaded.ops = a.ops
    BY <1>7
  <2> QED BY <2>1
<1>9. \A j \in Ids : NoMore(loaded, s, open, late, j)
  BY <1>2, <1>4, <1>5, <1>8, NoMoreMerged
<1>10. Frame(loaded, s)
  BY <1>6, <1>9 DEF NoMore
<1> QED BY <1>1, <1>4, <1>8, <1>9, <1>10 DEF LoadedLow, Frame

\* More may be put back later than before.
LEMMA LowRowLater ==
  ASSUME NEW row \in Seq(Envelopes), NEW m \in Nat, NEW n \in Nat, m <= n, LowRow(row, m)
  PROVE  LowRow(row, n)
BY Lower DEF LowRow

LEMMA LowStacksLater ==
  ASSUME NEW r, NEW m \in Nat, NEW n \in Nat, m <= n, LowStacks(r, m)
  PROVE  LowStacks(r, n)
<1>1. LowEntries(m) \subseteq LowEntries(n)
  BY Lower
<1> QED BY <1>1, Wider DEF LowStacks

\* What the host broadcasts.
Announces(message) ==
  /\ message.t = "commit" /\ message.commit.rev \in DOMAIN log'
  /\ log'[message.commit.rev] = [id |-> message.id, commit |-> message.commit]
  /\ log' = log \/ \E x \in Records : log' = Append(log, x) /\ message.commit.rev = Len(log) + 1

LEMMA TailMore ==
  ASSUME NEW S, NEW row \in Seq(S), row # <<>>, NEW x, NEW more, more = Append(row, x)
  PROVE  more # <<>> /\ more[1] = row[1] /\ Tail(more) = Append(Tail(row), x)
<1>0. PICK T : T = S \union {x}
  OBVIOUS
<1>1. x \in T /\ S \subseteq T
  BY <1>0
<1>2. row \in Seq(T)
  BY <1>1, Wider
<1>3. PICK l \in Nat : l = Len(row) /\ l > 0
  BY <1>2
<1>4. more \in Seq(T) /\ Len(more) = l + 1 /\ more[l + 1] = x /\ \A k \in 1 .. l : more[k] = row[k]
  BY <1>1, <1>2, <1>3
<1>5. Tail(row) \in Seq(T) /\ Len(Tail(row)) = l - 1 /\ \A k \in 1 .. (l - 1) : Tail(row)[k] = row[k + 1]
  BY <1>2, <1>3
<1>6. Tail(more) \in Seq(T) /\ Len(Tail(more)) = l /\ \A k \in 1 .. l : Tail(more)[k] = more[k + 1]
  BY <1>3, <1>4
<1>7. PICK a, b : a = Tail(more) /\ b = Append(Tail(row), x)
  OBVIOUS
<1>8. /\ b \in Seq(T) /\ Len(b) = (l - 1) + 1 /\ b[(l - 1) + 1] = x
      /\ \A k \in 1 .. (l - 1) : b[k] = Tail(row)[k]
  BY <1>1, <1>3, <1>5, <1>7
<1>9. (l - 1) + 1 = l
  BY <1>3
<1>10. ASSUME NEW k \in 1 .. l PROVE a[k] = b[k]
  <2>1. CASE k = l
    BY <1>4, <1>6, <1>7, <1>8, <1>9, <2>1
  <2>2. CASE k # l
    <3>1. k \in 1 .. (l - 1) /\ k + 1 \in 1 .. l
      BY <1>3, <2>2
    <3> QED BY <1>4, <1>5, <1>6, <1>7, <1>8, <3>1
  <2> QED BY <2>1, <2>2
<1>11. a = b
  BY <1>6, <1>7, <1>8, <1>9, <1>10
<1>12. 1 \in 1 .. l
  BY <1>3
<1> QED BY <1>3, <1>4, <1>7, <1>11, <1>12

\* A guest is told of the commit, or will get it with its snapshot.
LEMMA SitsServed ==
  ASSUME ReplicasInv, log \in Seq(Records), Grows(log, log'), Carries, NEW story, NEW more,
         \A k \in 0 .. Len(log) : more[k] = story[k], NEW g \in Guests, Sits(story, g),
         doc'[g] = doc[g], outbox'[g] = outbox[g], past'[g] = past[g], future'[g] = future[g], link' = link,
         NEW message, Announces(message), Broadcast(message)
  PROVE  Sits(more, g)'
<1>1. log' \in Seq(Records) /\ Len(log') \in Nat /\ Len(log) \in Nat /\ Len(log) <= Len(log')
  BY GrowsTo
<1>2. PICK S : down[g] \in Seq(S)
  BY DEF ReplicasInv, Deliveries
<1>3. ASSUME NEW d, NEW messages, messages \in Seq(S), Starts(story, g, d, messages)
      PROVE  Starts(more, g, d, Append(messages, message))'
  <2>1. d.rev \in Nat /\ Feeds(messages, log, d.rev)
    BY <1>1, <1>3 DEF Starts
  <2>2. PICK rec \in Seq(Records), feed \in Seq(Records), heard \in Nat : rec = log /\ feed = log' /\ heard = d.rev
    BY <1>1, <2>1
  <2>3. /\ message.t = "commit" /\ message.commit.rev \in DOMAIN feed
        /\ feed[message.commit.rev] = [id |-> message.id, commit |-> message.commit]
        /\ feed = rec \/ \E x \in Records : feed = Append(rec, x) /\ message.commit.rev = Len(rec) + 1
    BY <2>2 DEF Announces
  <2>4. Feeds(Append(messages, message), feed, heard)
    BY <1>3, <2>1, <2>2, <2>3, FeedsMore
  <2>5. PICK messages2 : messages2 = Append(messages, message)
    OBVIOUS
  <2>6. Starts(more, g, d, messages2)'
    BY <1>3, <2>2, <2>4, <2>5, StartsStill
  <2> QED BY <2>5, <2>6
<1>4. CASE g \notin link
  <2>1. LowRow(outbox[g], Len(log)) /\ doc[g] = None /\ past[g] = <<>> /\ future[g] = <<>>
    BY <1>4 DEF Sits
  <2>2. outbox[g] \in Seq(Envelopes)
    BY DEF ReplicasInv, Posted, Replicas
  <2>3. LowRow(outbox[g], Len(log'))
    BY <1>1, <2>1, <2>2, LowRowLater
  <2> QED BY <1>4, <2>1, <2>3 DEF Sits, LowRow
<1>5. CASE g \in link
  <2>0. down'[g] = Append(down[g], message)
    BY <1>5 DEF Broadcast
  <2>1. CASE Starts(story, g, doc[g], down[g])
    <3>1. PICK d, messages : d = doc[g] /\ messages = down[g]
      OBVIOUS
    <3>2. Starts(more, g, d, Append(messages, message))'
      BY <1>2, <1>3, <2>1, <3>1
    <3>3. Starts(more, g, doc[g], down[g])'
      BY <2>0, <3>1, <3>2
    <3> QED BY <1>5, <3>3 DEF Sits
  <2>2. CASE /\ doc[g] = None /\ down[g] # <<>> /\ down[g][1].t = "doc"
             /\ Starts(story, g, down[g][1].doc, Tail(down[g]))
    <3>1. PICK d, messages : d = down[g][1].doc /\ messages = Tail(down[g])
      OBVIOUS
    <3>2. messages \in Seq(S)
      BY <1>2, <2>2, <3>1
    <3>3. Starts(more, g, d, Append(messages, message))'
      BY <1>3, <2>2, <3>1, <3>2
    <3>4. /\ down'[g] # <<>> /\ down'[g][1] = down[g][1]
          /\ Tail(down'[g]) = Append(messages, message)
      <4>1. PICK row, long : row = down[g] /\ long = down'[g] /\ row \in Seq(S) /\ row # <<>> /\ long = Append(row, message)
        BY <1>2, <2>0, <2>2
      <4> QED BY <3>1, <4>1, TailMore
    <3>5. Starts(more, g, down[g][1].doc, Tail(down[g]))'
      BY <3>1, <3>3, <3>4
    <3> QED BY <1>5, <2>2, <3>4, <3>5 DEF Sits
  <2> QED BY <1>5, <2>1, <2>2 DEF Sits
<1> QED BY <1>4, <1>5
\* Whatever is posted or recorded under the id of a commit is what it commits.
LEMMA NamedInLog ==
  ASSUME ReplicasInv, BookInv, NEW story, Tale(story, log), NEW k \in DOMAIN log, NEW id, NEW c,
         log[k].id = id, log[k].commit = c
  PROVE  Named(id, c)
<1>1. PICK rec \in Seq(Records) : rec = log
  BY DEF ReplicasInv, Recordings, Records
<1>2. ASSUME NEW m \in DOMAIN log, log[m].id = id PROVE Alike(log[m].commit.op, c.op)
  <2>1. m < k => rec[m].id # rec[k].id
    BY <1>1, InOrder
  <2>2. k < m => rec[k].id # rec[m].id
    BY <1>1, InOrder
  <2>3. m \in Nat /\ k \in Nat
    BY <1>1
  <2>4. m = k
    BY <1>1, <1>2, <2>1, <2>2, <2>3
  <2> QED BY <2>4 DEF Alike
<1>3. ASSUME NEW r \in Replicas, NEW j \in DOMAIN outbox[r], outbox[r][j].id = id
      PROVE  Alike(outbox[r][j].op, c.op)
  BY <1>3, TheSameOp
<1> QED BY <1>2, <1>3 DEF Named

\* The host serves an envelope it has served before: nothing is committed.
LEMMA ReturnAgain ==
  ASSUME ReplicasInv, ReplicasInv', BookInv, ReturnInv, NEW r \in Replicas, NEW e \in Envelopes,
         NEW loaded \in SoundDocs, NEW c \in Commits, Serving(r, e, loaded, c), Again(e, loaded, c)
  PROVE  ReturnInv'
<1>1. PICK story : Keeps(story) /\ \A g \in Guests : Sits(story, g) /\ Repeats(story, g)
  BY DEF ReturnInv
<1>2. /\ e.id \in OpIds /\ e.op \in OpTypes /\ Host \in Replicas /\ loaded = Merge(kept[Host], doc[Host])
      /\ doc \in [Replicas -> SoundDocs \union {None}] /\ outbox \in [Replicas -> Seq(Envelopes)]
      /\ kept \in [Replicas -> SoundDocs] /\ log \in Seq(Records) /\ down \in [Guests -> Seq(SoundDowns)]
      /\ Len(log) \in Nat
  BY DEF Serving, Envelopes, Replicas, ReplicasInv, Copies, Posted, Recordings, Deliveries, Records
<1>3. /\ doc'[Host] = loaded /\ kept'[Host] = loaded /\ outbox' = [outbox EXCEPT ![Host] = Without(@, e.id)]
      /\ \A m \in Replicas : m # Host => doc'[m] = doc[m] /\ outbox'[m] = outbox[m]
      /\ log' = log /\ now' = now /\ past' = past /\ future' = future /\ link' = link
  BY <1>2 DEF Serving, Again
<1>4. PICK n \in Nat : n = Len(log)
  BY <1>2
<1>5. LoadedLow(story, n, loaded)
  <2>1. Ids # {}
    BY <1>2, OpIs
  <2> QED BY <1>1, <1>2, <1>4, <2>1, HostLoadsLow
<1>6. PICK k \in DOMAIN log : log[k].id = e.id /\ log[k].commit = c
  BY DEF Again
<1>7. Named(e.id, c) /\ Tale(story, log)
  <2>1. Tale(story, log)
    BY <1>1 DEF Keeps
  <2> QED BY <1>6, <2>1, NamedInLog
<1>8. Grows(log, log') /\ Carries
  <2>1. Grows(log, log')
    BY <1>2, <1>3 DEF Grows
  <2>2. \E m \in DOMAIN log' : log'[m].id = e.id /\ log'[m].commit = c
    BY <1>3, <1>6
  <2> QED BY <1>2, <1>3, <1>7, <2>1, <2>2, AnswersCarry
<1>9. Keeps(story)'
  <2>1. PICK late, s : late = Late /\ late = Late' /\ s = story[n] /\ late \subseteq late
    BY <1>3, RuledStill
  <2>2. \A i \in Ids : NoMore(loaded, s, Pending(loaded.ops), late, i)
    BY <1>5, <2>1 DEF LoadedLow
  <2>3. \A i \in Ids : NoMore(loaded, s, Pending(loaded.ops)', late, i)
    BY <1>8, <2>1, <2>2, ShowsStill
  <2>4. loaded.rev = n
    BY <1>5 DEF LoadedLow
  <2>5. ShowsNoMore(doc[Host], story, Late)' /\ ShowsNoMore(kept[Host], story, Late)'
    BY <1>3, <2>1, <2>3, <2>4 DEF ShowsNoMore
  <2>6. \A i \in Ids : Ruled(story[Len(log)], i)'
    BY <1>1, <1>3, RuledStill DEF Keeps
  <2>7. LowStacks(Host, Len(log))'
    BY <1>1, <1>3 DEF Keeps, LowStacks
  <2> QED BY <1>3, <1>4, <1>7, <2>4, <2>5, <2>6, <2>7 DEF Keeps
<1>10. ASSUME NEW g \in Guests PROVE Sits(story, g)' /\ Repeats(story, g)'
  <2>1. g \in Replicas /\ g # Host
    BY DEF Replicas
  <2>2. PICK message : message = [t |-> "commit", id |-> e.id, commit |-> c]
    OBVIOUS
  <2>3. c.rev = k
    BY <1>2, <1>6, <1>7 DEF Tale, Told
  <2>4. Announces(message)
    <3>1. log[k] \in Records
      BY <1>2, InRow
    <3>2. log[k] = [id |-> e.id, commit |-> c]
      BY <1>6, <3>1 DEF Records
    <3> QED BY <1>3, <2>2, <2>3, <3>2 DEF Announces
  <2>5. Broadcast(message)
    BY <2>2 DEF Serving
  <2>6. Sits(story, g)'
    BY <1>1, <1>2, <1>3, <1>8, <1>10, <2>1, <2>4, <2>5, SitsServed
  <2>7. Repeats(story, g)'
    <3>1. Clock(Host)' = Clock(Host) /\ Clock(Host) \in Nat
      BY <1>2, <1>3, Clocks DEF Clock
    <3> QED BY <1>1, <1>3, <1>10, <2>1, <3>1, RepeatsStill
  <2> QED BY <2>6, <2>7
<1> QED BY <1>9, <1>10 DEF ReturnInv

\* A new commit.  What the guests may do again is still harmless.
LEMMA RepeatsServed ==
  ASSUME ReplicasInv, BookInv, NEW story, NEW n \in Nat, n = Len(log), NEW s \in SoundDocs, s = story[n],
         NEW c \in Commits, NEW id \in OpIds, Nexts(s, c, id), Named(id, c), c.clock >= Clock(Host),
         log \in Seq(Records), log' = Append(log, [id |-> id, commit |-> c]), Allowing(s, c, Late'), Late \subseteq Late',
         NEW f, f = ApplyCommit(s, c, id), NEW more, Longer(more, story, n, f),
         NEW g \in Guests, Repeats(story, g), outbox'[g] = outbox[g], now' = now
  PROVE  Repeats(more, g)'
<1>1. /\ Clock(Host)' = Clock(Host) /\ Clock(Host) \in Nat /\ c.clock \in Nat /\ g \in Replicas
      /\ outbox[g] \in Seq(Envelopes) /\ Len(log') = n + 1
  BY Clocks DEF Clock, Replicas, Commits, ReplicasInv, Posted, Records
<1>2. \A k \in 0 .. n : more[k] = story[k]
  BY DEF Longer
<1>3. more[n + 1] = f
  BY DEF Longer
<1> SUFFICES ASSUME Ahead[g] <= Ahead[Host], NEW k \in DOMAIN outbox[g]
             PROVE  /\ outbox[g][k].op.t = "add" => outbox[g][k].op.note.back <= Clock(Host) + 1
                    /\ \A m \in 0 .. Len(log') : outbox[g][k].id \in more[m].ops =>
                         Repeatable(outbox[g][k].op, more[m], Late')
  BY <1>1 DEF Repeats
<1>4. PICK op, late, late2 : op = outbox[g][k].op /\ late = Late /\ late2 = Late' /\ late \subseteq late2
  OBVIOUS
<1>5. /\ op \in OpTypes /\ (op.t = "add" => op.note.back <= Clock(Host) + 1 /\ op.note.back \in Nat)
      /\ \A m \in 0 .. n : outbox[g][k].id \in story[m].ops => Repeatable(op, story[m], late)
  <2>1. op \in OpTypes
    BY <1>1, <1>4, EnvelopeIs
  <2> QED BY <1>4, <2>1, OpIs, NoteIs DEF Repeats
<1>6. ASSUME NEW m \in 0 .. n, outbox[g][k].id \in more[m].ops PROVE Repeatable(op, more[m], late2)
  <2>1. Repeatable(op, story[m], late) /\ more[m] = story[m]
    BY <1>2, <1>5, <1>6
  <2> QED BY <1>4, <2>1 DEF Repeatable
<1>7. ASSUME outbox[g][k].id \in f.ops PROVE Repeatable(op, f, late2)
  <2>0. Allowing(s, c, late2)
    BY <1>4
  <2>1. f.ops = s.ops \union {id}
    <3>1. PICK i \in Ids : TRUE
      BY OpIs DEF Commits
    <3> QED BY <2>0, <3>1, NextAt
  <2>2. CASE outbox[g][k].id \in s.ops
    <3>1. Repeatable(op, s, late)
      BY <1>5, <2>2
    <3> QED BY <1>4, <1>5, <2>0, <3>1, RepeatableStill
  <2>3. CASE outbox[g][k].id = id
    <3>1. Alike(op, c.op)
      BY <1>1, <1>4, <2>3 DEF Named
    <3>2. op.t = "add" => op.note.back <= c.clock + 1
      BY <1>1, <1>5
    <3> QED BY <1>5, <2>0, <3>1, <3>2, RepeatableNew
  <2> QED BY <1>7, <2>1, <2>2, <2>3
<1>8. ASSUME NEW m \in 0 .. Len(log'), outbox[g][k].id \in more[m].ops PROVE Repeatable(op, more[m], late2)
  <2>1. m \in 0 .. n \/ m = n + 1
    BY <1>1
  <2> QED BY <1>3, <1>6, <1>7, <1>8, <2>1
<1> QED BY <1>4, <1>5, <1>8

\* ShowsNoMore of a document of the story that is given.
Under(d, s, late) == \A i \in Ids : NoMore(d, s, Pending(d.ops), late, i)

\* The host's document takes the commit.
LEMMA LoadedCommit ==
  ASSUME NEW story, NEW n \in Nat, NEW loaded, LoadedLow(story, n, loaded), NEW s, s = story[n],
         NEW c \in Commits, NEW id \in OpIds, Follow(loaded, s, c, id), Carries, Named(id, c), Late \subseteq Late',
         NEW e, e = ApplyCommit(loaded, c, id), NEW f, f = ApplyCommit(s, c, id)
  PROVE  e \in SoundDocs /\ f \in SoundDocs /\ e.rev = n + 1 /\ Under(e, f, Late)'
<1>1. /\ loaded \in SoundDocs /\ s \in SoundDocs /\ loaded.ops = s.ops /\ s.rev = n
      /\ \A i \in Ids : NoMore(loaded, s, Pending(loaded.ops), Late, i) /\ Past(s, i)
  BY DEF LoadedLow, Sums
<1>2. PICK ops : ops = loaded.ops \union {id}
  OBVIOUS
<1>3. PICK open, open2, late, late2 :
        /\ open = Pending(loaded.ops) /\ open2 = Pending(ops)' /\ late = Late /\ late2 = Late'
        /\ late \subseteq late2 /\ Drops(open, open2, c.op)
  BY <1>2, PendingHeard DEF Drops
<1>4. NoMores(loaded, s, open, late)
  BY <1>1, <1>3 DEF NoMores
<1>5. e \in SoundDocs /\ f \in SoundDocs
  BY <1>1, CommitIsSound
<1>6. \A i \in Ids : NoMore(e, f, open2, late2, i)
  BY <1>1, <1>3, <1>4, NoMoreCommit
<1>7. PICK i \in Ids : TRUE
  BY OpIs DEF Commits
<1>8. Nexts(s, c, id)
  BY <1>1 DEF Follow, Nexts
<1>9. f.ops = s.ops \union {id} /\ f.rev = n + 1
  <2>1. c.op.id \in Ids /\ c.rev \in Nat
    BY OpIs DEF Commits
  <2>2. Past(s, c.op.id) /\ c.rev = n + 1 /\ Stamped(c) /\ id \notin s.ops
    BY <1>1, <1>8, <2>1 DEF Nexts
  <2>3. c.op.id \in Shown(s) => s.notes[c.op.id].rev \in Nat
    BY <1>1, DocIs, NoteIs DEF SoundDocs
  <2>4. c.op.id \in Shown(s) => s.notes[c.op.id].rev < c.rev
    BY <1>1, <2>1, <2>2, <2>3 DEF Past
  <2>5. f.ops = s.ops \union {id} /\ f.rev = Higher(s.rev, c.rev)
    BY <1>1, <1>7, <2>2, <2>4, CommitAt
  <2>6. Higher(n, n + 1) = n + 1
    BY DEF Higher
  <2> QED BY <1>1, <2>2, <2>5, <2>6
<1>10. Frame(e, f)
  BY <1>6, <1>7 DEF NoMore
<1>11. e.ops = ops /\ e.rev = n + 1
  BY <1>1, <1>2, <1>9, <1>10 DEF Frame
<1>12. Under(e, f, Late)'
  BY <1>3, <1>6, <1>11 DEF Under
<1> QED BY <1>5, <1>11, <1>12

\* The host serves a new envelope: the story has one more document.
LEMMA ReturnAnew ==
  ASSUME ReplicasInv, ReplicasInv', BookInv, ReturnInv, NEW r \in Replicas, NEW e \in Envelopes,
         NEW loaded \in SoundDocs, NEW c \in Commits, Serving(r, e, loaded, c), Anew(e, loaded, c)
  PROVE  ReturnInv'
<1>1. PICK story : Keeps(story) /\ \A g \in Guests : Sits(story, g) /\ Repeats(story, g)
  BY DEF ReturnInv
<1>2. /\ e.id \in OpIds /\ e.op \in OpTypes /\ Host \in Replicas /\ loaded = Merge(kept[Host], doc[Host])
      /\ doc \in [Replicas -> SoundDocs \union {None}] /\ outbox \in [Replicas -> Seq(Envelopes)]
      /\ kept \in [Replicas -> SoundDocs] /\ log \in Seq(Records) /\ down \in [Guests -> Seq(SoundDowns)]
      /\ up \in [Replicas -> Seq(Envelopes)]
  BY DEF Serving, Envelopes, Replicas, ReplicasInv, Copies, Posted, Recordings, Deliveries, Records
<1>3. PICK next, x, id : next = ApplyCommit(loaded, c, id) /\ x = [id |-> id, commit |-> c] /\ id = e.id /\ id \in OpIds
  BY <1>2
<1>4. /\ doc'[Host] = next /\ kept'[Host] = next /\ outbox' = [outbox EXCEPT ![Host] = Without(@, id)]
      /\ \A m \in Replicas : m # Host => doc'[m] = doc[m] /\ outbox'[m] = outbox[m]
      /\ log' = Append(log, x) /\ now' = now /\ past' = past /\ future' = future /\ link' = link
  BY <1>2, <1>3 DEF Serving, Anew
<1>5. x \in Records /\ x.id = id /\ x.commit = c
  BY <1>2, <1>3 DEF Records
<1>23. PICK n \in Nat : n = Len(log)
  BY <1>2
<1>6. PICK s : n = Len(log) /\ s = story[n]
  BY <1>23
<1>7. LoadedLow(story, n, loaded) /\ Tale(story, log)
  <2>1. Ids # {}
    BY <1>2, OpIs
  <2> QED BY <1>1, <1>2, <1>6, <2>1, HostLoadsLow DEF Keeps
<1>8. /\ Stamped(c) /\ Alike(e.op, c.op) /\ c.rev = n + 1 /\ c.clock \in Nat /\ Clock(Host) \in Nat
      /\ c.clock >= Clock(Host) /\ c.clock > loaded.clock
  <2>1. loaded \in Docs /\ c = Prepare(loaded, e.op, Clock(Host)) /\ Clock(Host) \in Nat /\ c.clock \in Nat
    BY <1>2, Clocks DEF SoundDocs, Anew, Commits
  <2> QED BY <1>2, <1>7, <2>1, PreparedIs DEF LoadedLow
<1>9. /\ s \in SoundDocs /\ s.rev = n /\ loaded.ops = s.ops /\ loaded.clock = s.clock
      /\ (\A k \in OpIds : k \in s.ops <=> \E j \in 1 .. n : log[j].id = k) /\ \A j \in Ids : Past(s, j)
  BY <1>6, <1>7 DEF LoadedLow, Sums
<1>10. id \notin s.ops
  <2>1. \A k \in 1 .. n : k \in DOMAIN log
    BY <1>2, <1>6
  <2> QED BY <1>2, <1>3, <1>9, <2>1 DEF Anew
<1>11. Follow(loaded, s, c, id) /\ Nexts(s, c, id)
  BY <1>8, <1>9, <1>10 DEF Follow, Nexts
<1>12. Named(id, c)
  <2>1. up[r] \in Seq(Envelopes) /\ 1 \in DOMAIN up[r] /\ up[r][1] = e
    BY <1>2 DEF Serving
  <2>2. ASSUME NEW m \in Replicas, NEW k \in DOMAIN outbox[m], outbox[m][k].id = id PROVE Alike(outbox[m][k].op, c.op)
    <3>1. up[r][1].id = outbox[m][k].id
      BY <1>3, <2>1, <2>2
    <3>2. up[r][1].op = outbox[m][k].op
      BY <2>1, <2>2, <3>1, OnePost
    <3> QED BY <1>8, <2>1, <3>2
  <2>3. \A k \in DOMAIN log : log[k].id # id
    BY <1>3 DEF Anew
  <2> QED BY <2>2, <2>3 DEF Named
<1>13. Grows(log, log') /\ Len(log') = n + 1 /\ log'[n + 1] = x /\ n + 1 \in DOMAIN log'
  BY <1>2, <1>4, <1>5, <1>6 DEF Grows
<1>14. Carries
  <2>1. \E m \in DOMAIN log' : log'[m].id = id /\ log'[m].commit = c
    BY <1>5, <1>13
  <2> QED BY <1>2, <1>4, <1>12, <1>13, <2>1, AnswersCarry
<1>15. Late \subseteq Late'
  BY <1>2, <1>13, LateGrows
<1>16. PICK f, more : f = ApplyCommit(s, c, id) /\ more = [k \in 0 .. (n + 1) |-> IF k <= n THEN story[k] ELSE f]
  OBVIOUS
<1>17. Longer(more, story, n, f) /\ more[n + 1] = f /\ \A k \in 0 .. n : more[k] = story[k]
  BY <1>16 DEF Longer
<1>18. Tale(more, log')
  <2>1. PICK rec \in Seq(Records) : rec = log
    BY <1>2
  <2>2. c.clock > story[n].clock /\ id \notin story[n].ops /\ Longer(more, story, n, ApplyCommit(story[n], c, id))
    BY <1>6, <1>11, <1>16, <1>17 DEF Nexts
  <2>3. Tale(more, Append(rec, [id |-> id, commit |-> c]))
    BY <1>3, <1>6, <1>7, <1>8, <2>1, <2>2, TaleGrows
  <2> QED BY <1>3, <1>4, <2>1, <2>3
<1>19. next \in SoundDocs /\ f \in SoundDocs /\ next.rev = n + 1 /\ Under(next, f, Late)'
  <2>1. LoadedLow(story, n, loaded) /\ s = story[n] /\ Follow(loaded, s, c, id) /\ Named(id, c) /\ id \in OpIds
    BY <1>3, <1>6, <1>7, <1>11, <1>12
  <2>2. next = ApplyCommit(loaded, c, id) /\ f = ApplyCommit(s, c, id)
    BY <1>3, <1>16
  <2> QED BY <1>23, <2>1, <1>14, <1>15, <2>2, LoadedCommit
<1>20. log' = Append(log, [id |-> id, commit |-> c]) /\ \A i \in Ids : Ruled(s, i)
  BY <1>1, <1>3, <1>4, <1>6 DEF Keeps
<1>21. Keeps(more)'
  <2>1. ASSUME NEW i \in Ids PROVE Ruled(f, i)'
    <3>1. log \in Seq([id : OpIds, commit : Commits]) /\ Ruled(s, i)
      BY <1>2, <1>20 DEF Records
    <3> QED BY <1>3, <1>8, <1>9, <1>11, <1>16, <1>19, <1>20, <3>1, RuledCommit DEF Nexts
  <2>2. ShowsNoMore(doc[Host], more, Late)' /\ ShowsNoMore(kept[Host], more, Late)'
    BY <1>4, <1>17, <1>19 DEF ShowsNoMore, Under
  <2>3. LowStacks(Host, Len(log))'
    <3>1. LowStacks(Host, n) /\ n <= n + 1 /\ n + 1 \in Nat
      BY <1>1, <1>6 DEF Keeps
    <3>2. LowStacks(Host, n + 1)
      BY <3>1, LowStacksLater
    <3> QED BY <1>4, <1>13, <3>2 DEF LowStacks
  <2> QED BY <1>4, <1>13, <1>17, <1>18, <1>19, <2>1, <2>2, <2>3 DEF Keeps
<1>22. ASSUME NEW g \in Guests PROVE Sits(more, g)' /\ Repeats(more, g)'
  <2>1. g \in Replicas /\ g # Host /\ doc'[g] = doc[g] /\ outbox'[g] = outbox[g]
    BY <1>4 DEF Replicas
  <2>2. PICK message : message = [t |-> "commit", id |-> id, commit |-> c]
    OBVIOUS
  <2>3. message.t = "commit" /\ message.id = id /\ message.commit = c /\ message.commit.rev = n + 1
    BY <1>8, <2>2
  <2>4. Announces(message)
    BY <1>3, <1>4, <1>5, <1>6, <1>13, <2>3 DEF Announces
  <2>5. Broadcast(message)
    BY <1>3, <2>2 DEF Serving
  <2>6. Sits(more, g)'
    <3>1. \A k \in 0 .. Len(log) : more[k] = story[k]
      BY <1>6, <1>17
    <3> QED BY <1>1, <1>2, <1>4, <1>13, <1>14, <1>22, <2>1, <2>4, <2>5, <3>1, SitsServed
  <2>7. Repeats(more, g)'
    <3>1. PICK late2 : late2 = Late'
      OBVIOUS
    <3>2. Allowing(s, c, Late')
      BY <1>2, <1>3, <1>9, <1>20, LateCommit
    <3> QED BY <1>1, <1>2, <1>3, <1>4, <1>6, <1>8, <1>9, <1>11, <1>12, <1>15, <1>16, <1>17, <1>20, <1>22, <2>1, <3>2, RepeatsServed
  <2> QED BY <2>6, <2>7
<1> QED BY <1>21, <1>22 DEF ReturnInv

\* The host serves an envelope.
LEMMA ReturnServed ==
  ASSUME ReplicasInv, ReplicasInv', BookInv, ReturnInv, NEW r \in Replicas, HostCommits(r)
  PROVE  ReturnInv'
BY Served, ReturnAgain, ReturnAnew
-----------------------------------------------------------------------------
(* A guest hears, adopts, leaves and returns. *)

\* What a guest does by itself leaves the host and the others where they are.
LEMMA ReturnElsewhere ==
  ASSUME ReplicasInv, NEW story, Keeps(story), NEW g \in Guests, Carries, log' = log,
         \A x \in Guests : Sits(story, x) /\ Repeats(story, x), Clock(Host)' \in Nat, Clock(Host)' >= Clock(Host),
         \A m \in Replicas : m # g => /\ doc'[m] = doc[m] /\ outbox'[m] = outbox[m] /\ kept'[m] = kept[m]
                                      /\ past'[m] = past[m] /\ future'[m] = future[m],
         \A m \in Guests : m # g => down'[m] = down[m] /\ (m \in link <=> m \in link'),
         Sits(story, g)', Repeats(story, g)'
  PROVE  ReturnInv'
<1>1. Host \in Replicas /\ Host # g /\ log \in Seq(Records)
  BY DEF Replicas, ReplicasInv, Recordings, Records
<1>2. Keeps(story)'
  BY <1>1, KeepsStill
<1>3. ASSUME NEW x \in Guests PROVE Sits(story, x)' /\ Repeats(story, x)'
  <2>1. CASE x = g
    BY <2>1
  <2>2. CASE x # g
    <3>1. x \in Replicas
      BY DEF Replicas
    <3>2. Sits(story, x)'
      BY <1>1, <1>3, <2>2, <3>1, SitsStill
    <3>3. Repeats(story, x)'
      BY <1>3, <2>2, <3>1, RepeatsStill
    <3> QED BY <3>2, <3>3
  <2> QED BY <2>1, <2>2
<1> QED BY <1>2, <1>3 DEF ReturnInv

\* A guest hears the next commit, or one it knows.
LEMMA HearsStarts ==
  ASSUME ReplicasInv, ReplicasInv', BookInv, NEW story, Tale(story, log), NEW g \in Guests,
         Starts(story, g, doc[g], down[g]), GuestHears(g)
  PROVE  Starts(story, g, doc[g], down[g])' /\ Carries
<1>1. /\ g \in Replicas /\ g # Host /\ Host \in Replicas /\ log \in Seq(Records)
      /\ doc \in [Replicas -> SoundDocs \union {None}] /\ outbox \in [Replicas -> Seq(Envelopes)]
      /\ down \in [Guests -> Seq(SoundDowns)]
  BY DEF Replicas, ReplicasInv, Copies, Posted, Recordings, Deliveries, Records
<1>2. PICK n \in Nat, heard \in Nat : n = Len(log) /\ heard = doc[g].rev /\ heard \in 0 .. n /\ DOMAIN log = 1 .. n
  BY <1>1, DocIs DEF Starts, SoundDocs
<1>3. PICK message, k : message = down[g][1] /\ k = message.commit.rev
  OBVIOUS
<1>4. down[g] # <<>> /\ down[g] \in Seq(SoundDowns) /\ Feeds(down[g], log, heard)
  BY <1>1, <1>2 DEF GuestHears, Starts
<1>5. /\ message.t = "commit" /\ k \in 1 .. n /\ k <= heard + 1 /\ log[k] = [id |-> message.id, commit |-> message.commit]
      /\ \A after \in Nat : after >= heard /\ after >= k => Feeds(Tail(down[g]), log, after)
  BY <1>1, <1>2, <1>3, <1>4, FeedsTail
<1>6. PICK c \in Commits, id \in OpIds : c = message.commit /\ id = message.id /\ log[k].id = id /\ log[k].commit = c
  <2>1. log[k].id \in OpIds /\ log[k].commit \in Commits
    BY <1>1, <1>2, <1>5, RecordIs DEF Records
  <2>2. log[k].id = message.id /\ log[k].commit = message.commit
    BY <1>5
  <2> QED BY <2>1, <2>2
<1>7. /\ doc'[g] = ApplyCommit(doc[g], c, id) /\ outbox' = [outbox EXCEPT ![g] = Without(@, id)]
      /\ down'[g] = Tail(down[g]) /\ past' = past /\ future' = future /\ log' = log
  <2>1. Head(down[g]) = message
    BY <1>3, <1>4
  <2> QED BY <1>1, <1>6, <2>1 DEF GuestHears
<1>8. \A j \in 0 .. n : story[j] \in SoundDocs /\ Sums(story, log, j)
  BY <1>2 DEF Tale
<1>9. PICK s, d, late : s = story[heard] /\ d = doc[g] /\ late = Excused(g) /\ s \in SoundDocs
  BY <1>2, <1>8
<1>10. /\ d \in SoundDocs /\ LowRow(outbox[g], heard) /\ LowStacks(g, heard)
       /\ s.rev = heard /\ \A i \in Ids : NoMore(d, s, Pending(d.ops), late, i) /\ Past(s, i)
  BY <1>2, <1>8, <1>9 DEF Starts, ShowsNoMore, Sums
<1>11. k \in DOMAIN log /\ Told(story, log, k) /\ Named(id, c)
  <2>1. k \in DOMAIN log
    BY <1>2, <1>5
  <2>2. Named(id, c)
    BY <1>6, <2>1, NamedInLog
  <2> QED BY <1>2, <2>1, <2>2 DEF Tale
<1>12. Carries
  <2>1. Grows(log, log')
    BY <1>1, <1>7 DEF Grows
  <2>2. \E m \in DOMAIN log' : log'[m].id = id /\ log'[m].commit = c
    BY <1>6, <1>7, <1>11
  <2> QED BY <1>1, <1>7, <1>11, <2>1, <2>2, AnswersCarry
<1>13. late = Excused(g)'
  BY <1>7, <1>9, RuledStill
<1>14. d.ops = s.ops
  <2>1. PICK i \in Ids : TRUE
    BY OpIs DEF Commits
  <2> QED BY <1>10, <2>1 DEF NoMore, Frame
<1>15. LowRow(outbox'[g], heard) /\ outbox'[g] \in Seq(Envelopes)
  <2>1. PICK row, w : row = outbox[g] /\ w = outbox'[g] /\ w = Without(row, id) /\ row \in Seq(Envelopes)
    BY <1>1, <1>7
  <2>2. \A m \in DOMAIN w : \E j \in DOMAIN row : w[m] = row[j]
    BY <2>1, WithoutIs
  <2>3. w \in Seq(Envelopes)
    BY <2>1, WithoutIsPart
  <2> QED BY <1>10, <2>1, <2>2, <2>3 DEF LowRow
<1>16. CASE k <= heard
  <2>1. id \in s.ops
    BY <1>2, <1>5, <1>6, <1>8, <1>9, <1>16 DEF Sums
  <2>2. doc'[g] = d
    <3>1. id \in d.ops
      BY <1>14, <2>1
    <3> QED BY <1>7, <1>9, <3>1 DEF ApplyCommit
  <2>3. late \subseteq late /\ \A i \in Ids : NoMore(d, s, Pending(d.ops), late, i)
    BY <1>10
  <2>4. \A i \in Ids : NoMore(d, s, Pending(d.ops)', late, i)
    BY <1>12, <2>3, ShowsStill
  <2>5. ShowsNoMore(doc[g], story, Excused(g))'
    BY <1>2, <1>9, <1>13, <2>2, <2>4 DEF ShowsNoMore
  <2>6. Feeds(Tail(down[g]), log, heard)
    BY <1>5, <1>16
  <2> QED BY <1>2, <1>7, <1>9, <1>10, <1>12, <1>15, <2>2, <2>5, <2>6 DEF Starts, LowRow, LowStacks
<1>17. CASE k = heard + 1
  <2>1. story[k - 1] = s /\ k - 1 = heard /\ k \in 0 .. n /\ k \in Nat
    <3>1. k - 1 = heard
      BY <1>17
    <3> QED BY <1>2, <1>5, <1>9, <1>17, <3>1
  <2>2. PICK f, e : f = story[k] /\ f = ApplyCommit(s, c, id) /\ e = ApplyCommit(d, c, id) /\ f.rev = k
    BY <1>6, <1>8, <1>11, <2>1 DEF Told, Sums
  <2>3. Follow(d, s, c, id)
    BY <1>6, <1>10, <1>11, <1>14, <1>17, <2>1 DEF Follow, Told
  <2>4. PICK ops : ops = d.ops \union {id}
    OBVIOUS
  <2>5. PICK open, open2 : open = Pending(d.ops) /\ open2 = Pending(ops)' /\ Drops(open, open2, c.op)
    BY <1>11, <1>12, <2>4, PendingHeard DEF Drops
  <2>6. NoMores(d, s, open, late) /\ late \subseteq late
    BY <1>10, <2>5 DEF NoMores
  <2>7. \A i \in Ids : e \in SoundDocs /\ NoMore(e, f, open2, late, i)
    BY <1>9, <1>10, <2>2, <2>3, <2>5, <2>6, NoMoreCommit
  <2>8. PICK i \in Ids : TRUE
    BY OpIs DEF Commits
  <2>9. e \in SoundDocs /\ e.rev = k /\ e.ops = f.ops
    BY <2>2, <2>7, <2>8 DEF NoMore, Frame
  <2>10. f.ops = ops
    <3>1. c.op.id \in Ids /\ c.rev \in Nat /\ c.rev = k /\ Stamped(c) /\ id \notin s.ops
      BY <1>10, <1>14, <1>17, <2>3, OpIs DEF Commits, Follow
    <3>2. c.op.id \in Shown(s) => s.notes[c.op.id].rev \in Nat
      BY <1>9, DocIs, NoteIs DEF SoundDocs
    <3>3. Past(s, c.op.id)
      BY <1>10, <3>1
    <3>4. c.op.id \in Shown(s) => s.notes[c.op.id].rev < c.rev
      BY <1>10, <1>17, <3>1, <3>2, <3>3 DEF Past
    <3>5. f.ops = s.ops \union {id}
      BY <1>9, <2>2, <2>8, <3>1, <3>4, CommitAt
    <3> QED BY <1>14, <2>4, <3>5
  <2>11. ShowsNoMore(doc[g], story, Excused(g))'
    <3>1. doc'[g] = e
      BY <1>7, <1>9, <2>2
    <3>2. \A j \in Ids : NoMore(e, story[e.rev], Pending(e.ops)', late, j)
      <4>1. e.ops = ops /\ story[e.rev] = f
        BY <2>2, <2>9, <2>10
      <4>2. Pending(e.ops)' = open2
        BY <2>5, <4>1
      <4> QED BY <2>7, <4>1, <4>2
    <3>3. ShowsNoMore(e, story, late)'
      BY <3>2 DEF ShowsNoMore
    <3> QED BY <1>13, <3>1, <3>3
  <2>12. LowRow(outbox'[g], k) /\ LowStacks(g, k)
    <3>1. heard <= k
      BY <1>17
    <3> QED BY <1>10, <1>15, <2>1, <3>1, LowRowLater, LowStacksLater
  <2>13. Feeds(Tail(down[g]), log, k)
    BY <1>2, <1>5, <1>17, <2>1
  <2> QED BY <1>2, <1>7, <1>9, <1>12, <2>1, <2>2, <2>9, <2>11, <2>12, <2>13 DEF Starts, LowRow, LowStacks
<1>18. k <= heard \/ k = heard + 1
  BY <1>2, <1>5
<1> QED BY <1>16, <1>17, <1>18

LEMMA ReturnHears ==
  ASSUME ReplicasInv, ReplicasInv', BookInv, ReturnInv, NEW g \in Guests, GuestHears(g)
  PROVE  ReturnInv'
<1>1. PICK story : Keeps(story) /\ \A x \in Guests : Sits(story, x) /\ Repeats(story, x)
  BY DEF ReturnInv
<1>2. /\ now' = now /\ log' = log /\ link' = link /\ past' = past /\ future' = future
      /\ \A m \in Replicas : m # g => doc'[m] = doc[m] /\ outbox'[m] = outbox[m] /\ kept'[m] = kept[m]
      /\ \A m \in Guests : m # g => down'[m] = down[m]
      /\ g \in Replicas /\ Host \in Replicas /\ down[g] # <<>> /\ down[g][1].t = "commit"
  <2>1. down[g] \in Seq(SoundDowns)
    BY DEF ReplicasInv, Deliveries
  <2>2. Head(down[g]) = down[g][1]
    BY <2>1 DEF GuestHears
  <2> QED BY <2>2 DEF GuestHears, ReplicasInv, Copies, Posted, Deliveries, Replicas
<1>3. Tale(story, log) /\ g \in link
  BY <1>1, <1>2 DEF Keeps, ReplicasInv, Seated
<1>4. Starts(story, g, doc[g], down[g])
  BY <1>1, <1>2, <1>3 DEF Sits
<1>5. Starts(story, g, doc[g], down[g])' /\ Carries
  BY <1>3, <1>4, HearsStarts
<1>6. Sits(story, g)'
  BY <1>2, <1>3, <1>5 DEF Sits
<1>7. Clock(Host)' = Clock(Host) /\ Clock(Host) \in Nat
  BY <1>2, Clocks DEF Clock
<1>8. Repeats(story, g)'
  <2>1. PICK id : outbox'[g] = Without(outbox[g], id)
    BY <1>2 DEF GuestHears, ReplicasInv, Posted
  <2>2. outbox[g] \in Seq(Envelopes)
    BY <1>2 DEF ReplicasInv, Posted
  <2>3. \A m \in DOMAIN outbox'[g] : \E k \in DOMAIN outbox[g] : outbox'[g][m] = outbox[g][k]
    BY <2>1, <2>2, WithoutIs
  <2> QED BY <1>1, <1>2, <1>7, <2>3, RepeatsStill
<1> QED BY <1>1, <1>2, <1>5, <1>6, <1>7, <1>8, ReturnElsewhere
\* Doing again what is in the outbox brings nothing back.
LEMMA OutboxIsExcusable ==
  ASSUME ReplicasInv, NEW story, Tale(story, log), NEW g \in Guests, Repeats(story, g), NEW n \in 0 .. Len(log),
         NEW d, LowRow(outbox[g], n), \A i \in Ids : NoMore(d, story[n], Pending(d.ops), Excused(g), i),
         NEW k \in DOMAIN outbox[g]
  PROVE  Excusable(outbox[g][k].op, story[n], Pending(d.ops), Excused(g))
<1> SUFFICES ASSUME outbox[g][k].op.t = "add"
             PROVE  /\ outbox[g][k].op.note.rev <= story[n].rev
                    /\ \/ outbox[g][k].op.id \in Pending(d.ops) \union Excused(g)
                       \/ outbox[g][k].op.id \in Shown(story[n]) /\ outbox[g][k].op.note.back <= story[n].clock + 1
                       \/ Hid(GoneAt(story[n].gone, outbox[g][k].op.id), outbox[g][k].op.note.back)
  BY DEF Excusable
<1>1. g \in Replicas /\ outbox[g] \in Seq(Envelopes)
  BY DEF Replicas, ReplicasInv, Posted
<1>2. PICK op, id, s : op = outbox[g][k].op /\ id = outbox[g][k].id /\ s = story[n]
  OBVIOUS
<1>3. op \in OpTypes /\ op.id \in Ids /\ op.t = "add"
  BY <1>1, <1>2, EnvelopeIs, OpIs
<1>4. op.note.rev <= s.rev
  <2>1. s.rev = n
    BY <1>2 DEF Tale, Sums
  <2>2. op \in LowOps(n)
    BY <1>2 DEF LowRow
  <2> QED BY <1>3, <2>1, <2>2 DEF LowOps
<1>5. d.ops = s.ops
  BY <1>2, <1>3 DEF NoMore, Frame
<1>6. CASE id \notin d.ops
  <2>1. op.id \in Pending(d.ops)
    BY <1>1, <1>2, <1>3, <1>6 DEF Pending, Adds
  <2> QED BY <1>2, <1>4, <2>1
<1>7. CASE id \in d.ops
  <2>1. CASE Ahead[g] <= Ahead[Host]
    <3>1. Repeatable(op, s, Late) /\ Excused(g) = Late
      BY <1>2, <1>5, <1>7, <2>1 DEF Repeats, Excused
    <3> QED BY <1>2, <1>3, <1>4, <3>1 DEF Repeatable
  <2>2. CASE ~(Ahead[g] <= Ahead[Host])
    BY <1>2, <1>3, <1>4, <2>2 DEF Excused
  <2> QED BY <2>1, <2>2
<1> QED BY <1>6, <1>7

\* A guest that adopts the snapshot does the operations of its outbox on it.
LEMMA AdoptsStarts ==
  ASSUME ReplicasInv, ReplicasInv', NEW story, Tale(story, log), NEW g \in Guests, Repeats(story, g),
         GuestAdopts(g), NEW d, d = down[g][1].doc, Starts(story, g, d, Tail(down[g]))
  PROVE  Starts(story, g, doc[g], down[g])' /\ Carries
<1>1. /\ g \in Replicas /\ outbox[g] \in Seq(Envelopes) /\ down[g] \in Seq(SoundDowns) /\ Clock(g) \in Nat
      /\ doc \in [Replicas -> SoundDocs \union {None}] /\ down \in [Guests -> Seq(SoundDowns)]
  BY Clocks DEF Replicas, ReplicasInv, Copies, Posted, Deliveries
<1>0. PICK t \in Nat : t = Clock(g)
  BY <1>1
<1>2. PICK e, ops, late : e = ApplyAll(d, ops, t) /\ ops = OpsOf(outbox[g]) /\ late = Excused(g) /\ t = Clock(g)
  BY <1>0
<1>3. /\ doc'[g] = e /\ down'[g] = Tail(down[g]) /\ outbox' = outbox /\ log' = log /\ past' = past /\ future' = future
  <2>1. Head(down[g]) = down[g][1]
    BY <1>1 DEF GuestAdopts
  <2> QED BY <1>1, <1>2, <2>1 DEF GuestAdopts
<1>4. Carries /\ late = Excused(g)'
  BY <1>2, <1>3, CarriesOn, RuledStill
<1>5. PICK n, s : n = d.rev /\ s = story[n] /\ n \in 0 .. Len(log) /\ d \in SoundDocs /\ s \in SoundDocs
                  /\ LowRow(outbox[g], n) /\ \A i \in Ids : NoMore(d, s, Pending(d.ops), late, i)
  BY <1>2 DEF Starts, ShowsNoMore, Tale
<1>6. PICK open, open2 : open = Pending(d.ops) /\ open2 = Pending(d.ops)' /\ open \subseteq open2
  BY <1>4, PendingStays
<1>7. ops \in Seq(OpTypes) /\ \A k \in DOMAIN ops : k \in DOMAIN outbox[g] /\ ops[k] = outbox[g][k].op
  <2>1. ops \in Seq(OpTypes)
    BY <1>1, <1>2, OpsOfIsOps
  <2> QED BY <1>2, <2>1 DEF OpsOf
<1>8. ASSUME NEW k \in DOMAIN ops PROVE Excusable(ops[k], s, open, late)
  <2>1. k \in DOMAIN outbox[g] /\ ops[k] = outbox[g][k].op
    BY <1>7
  <2>2. \A i \in Ids : NoMore(d, story[n], Pending(d.ops), Excused(g), i)
    BY <1>2, <1>5
  <2>3. Excusable(outbox[g][k].op, story[n], Pending(d.ops), Excused(g))
    BY <1>5, <2>1, <2>2, OutboxIsExcusable
  <2> QED BY <1>2, <1>5, <1>6, <2>1, <2>3
<1>9. \A i \in Ids : NoMore(d, s, open, late, i)
  BY <1>5, <1>6
<1>10. e \in SoundDocs /\ \A i \in Ids : NoMore(e, s, open, late, i)
  BY <1>2, <1>5, <1>7, <1>8, <1>9, NoMoreApplied
<1>11. e.rev = d.rev /\ e.ops = d.ops
  <2>1. OpTypes \subseteq OpTypes
    OBVIOUS
  <2>2. Frame(ApplyAll(d, ops, t), d)
    BY <1>5, <1>7, <2>1, AppliedFrame
  <2> QED BY <1>2, <2>2 DEF Frame
<1>12. \A i \in Ids : NoMore(e, s, open2, late, i)
  <2>1. open \union late \subseteq open2 \union late
    BY <1>6
  <2> QED BY <1>10, <2>1, NoMoreFor
<1>13. ShowsNoMore(doc[g], story, Excused(g))'
  <2>1. Pending(e.ops)' = open2 /\ story[e.rev] = s
    BY <1>5, <1>6, <1>11
  <2>2. ShowsNoMore(e, story, late)'
    BY <1>12, <2>1 DEF ShowsNoMore
  <2> QED BY <1>3, <1>4, <2>2
<1> QED BY <1>3, <1>4, <1>5, <1>10, <1>11, <1>13 DEF Starts, LowRow, LowStacks

LEMMA ReturnAdopts ==
  ASSUME ReplicasInv, ReplicasInv', BookInv, ReturnInv, NEW g \in Guests, GuestAdopts(g)
  PROVE  ReturnInv'
<1>1. PICK story : Keeps(story) /\ \A x \in Guests : Sits(story, x) /\ Repeats(story, x)
  BY DEF ReturnInv
<1>2. /\ now' = Later(now) /\ log' = log /\ link' = link /\ past' = past /\ future' = future /\ outbox' = outbox
      /\ \A m \in Replicas : m # g => doc'[m] = doc[m] /\ kept'[m] = kept[m]
      /\ \A m \in Guests : m # g => down'[m] = down[m]
      /\ g \in Replicas /\ Host \in Replicas /\ down[g] # <<>> /\ down[g][1].t = "doc" /\ 1 \in DOMAIN down[g]
  <2>1. down[g] \in Seq(SoundDowns)
    BY DEF ReplicasInv, Deliveries
  <2>2. Head(down[g]) = down[g][1] /\ 1 \in DOMAIN down[g]
    BY <2>1 DEF GuestAdopts
  <2> QED BY <2>2 DEF GuestAdopts, ReplicasInv, Copies, Posted, Deliveries, Replicas
<1>3. Tale(story, log) /\ g \in link
  BY <1>1, <1>2 DEF Keeps, ReplicasInv, Seated
<1>4. PICK d : d = down[g][1].doc /\ Starts(story, g, d, Tail(down[g]))
  <2>1. ~Starts(story, g, doc[g], down[g])
    BY <1>2 DEF Starts, Feeds
  <2> QED BY <1>1, <1>3, <2>1 DEF Sits
<1>5. Starts(story, g, doc[g], down[g])' /\ Carries
  BY <1>1, <1>3, <1>4, AdoptsStarts
<1>6. Sits(story, g)'
  BY <1>2, <1>3, <1>5 DEF Sits
<1>7. Clock(Host)' \in Nat /\ Clock(Host)' >= Clock(Host)
  BY <1>2, Clocks, LaterIs DEF Clock, Replicas
<1>8. Repeats(story, g)'
  <2>1. \A m \in DOMAIN outbox'[g] : \E k \in DOMAIN outbox[g] : outbox'[g][m] = outbox[g][k]
    BY <1>2
  <2> QED BY <1>1, <1>2, <1>7, <2>1, RepeatsStill
<1> QED BY <1>1, <1>2, <1>5, <1>6, <1>7, <1>8, ReturnElsewhere

LEMMA ReturnBreaks ==
  ASSUME ReplicasInv, ReplicasInv', BookInv, ReturnInv, NEW g \in Guests, LinkBreaks(g)
  PROVE  ReturnInv'
<1>1. PICK story : Keeps(story) /\ \A x \in Guests : Sits(story, x) /\ Repeats(story, x)
  BY DEF ReturnInv
<1>2. /\ now' = now /\ log' = log /\ link' = link \ {g} /\ outbox' = outbox /\ kept' = kept
      /\ doc'[g] = None /\ past'[g] = <<>> /\ future'[g] = <<>>
      /\ \A m \in Replicas : m # g => doc'[m] = doc[m] /\ past'[m] = past[m] /\ future'[m] = future[m]
      /\ \A m \in Guests : m # g => down'[m] = down[m] /\ (m \in link <=> m \in link')
      /\ g \in Replicas /\ Host \in Replicas /\ g \in link /\ InRoom(g)
  BY DEF LinkBreaks, ReplicasInv, Copies, Posted, Deliveries, Stacks, Replicas
<1>3. Starts(story, g, doc[g], down[g])
  BY <1>1, <1>2 DEF Sits, InRoom
<1>4. LowRow(outbox[g], Len(log))
  <2>1. doc[g].rev \in Nat /\ Len(log) \in Nat /\ doc[g].rev <= Len(log) /\ LowRow(outbox[g], doc[g].rev)
    BY <1>3 DEF Starts, ReplicasInv, Recordings
  <2>2. outbox[g] \in Seq(Envelopes)
    BY <1>2 DEF ReplicasInv, Posted
  <2> QED BY <2>1, <2>2, LowRowLater
<1>5. Sits(story, g)'
  BY <1>2, <1>4 DEF Sits, LowRow
<1>6. Clock(Host)' = Clock(Host) /\ Clock(Host) \in Nat
  BY <1>2, Clocks DEF Clock
<1>7. Repeats(story, g)' /\ Carries
  <2>1. \A m \in DOMAIN outbox'[g] : \E k \in DOMAIN outbox[g] : outbox'[g][m] = outbox[g][k]
    BY <1>2
  <2> QED BY <1>1, <1>2, <1>6, <2>1, RepeatsStill, CarriesOn
<1> QED BY <1>1, <1>2, <1>5, <1>6, <1>7, ReturnElsewhere

LEMMA ReturnJoins ==
  ASSUME ReplicasInv, ReplicasInv', BookInv, ReturnInv, NEW g \in Guests, GuestJoins(g)
  PROVE  ReturnInv'
<1>1. PICK story : Keeps(story) /\ \A x \in Guests : Sits(story, x) /\ Repeats(story, x)
  BY DEF ReturnInv
<1>2. /\ now' = Later(now) /\ log' = log /\ link' = link \union {g} /\ outbox' = outbox /\ kept' = kept /\ doc' = doc
      /\ past' = past /\ future' = future
      /\ \A m \in Guests : m # g => down'[m] = down[m] /\ (m \in link <=> m \in link')
      /\ g \in Replicas /\ Host \in Replicas /\ g \notin link /\ down'[g] = <<[t |-> "doc", doc |-> doc[Host]]>>
  BY DEF GuestJoins, ReplicasInv, Deliveries, Replicas
<1>3. doc[g] = None /\ past[g] = <<>> /\ future[g] = <<>> /\ LowRow(outbox[g], Len(log))
  BY <1>1, <1>2 DEF Sits
<1>4. Carries
  BY <1>2, CarriesOn
<1>5. PICK d, n : d = doc[Host] /\ n = Len(log) /\ d \in SoundDocs /\ d.rev = n /\ n \in 0 .. Len(log) /\ n \in Nat
  <2>1. Len(log) \in Nat
    BY DEF ReplicasInv, Recordings
  <2> QED BY <1>1, <2>1 DEF Keeps, ReplicasInv, Copies
<1>6. ShowsNoMore(d, story, Excused(g))'
  <2>1. PICK late, late2, s : late = Late /\ late2 = Excused(g)' /\ s = story[n] /\ late \subseteq late2
    BY <1>2, RuledStill DEF Excused, Late
  <2>2. \A i \in Ids : NoMore(d, s, Pending(d.ops), late, i)
    BY <1>1, <1>5, <2>1 DEF Keeps, ShowsNoMore
  <2>3. \A i \in Ids : NoMore(d, s, Pending(d.ops)', late2, i)
    BY <1>4, <2>1, <2>2, ShowsStill
  <2>4. ShowsNoMore(d, story, late2)'
    BY <1>5, <2>1, <2>3 DEF ShowsNoMore
  <2> QED BY <2>1, <2>4
<1>7. PICK messages : messages = down'[g]
  OBVIOUS
<1>8. messages # <<>> /\ messages[1].t = "doc" /\ messages[1].doc = d /\ Tail(messages) = <<>>
  BY <1>2, <1>5, <1>7
<1>9. Feeds(<<>>, log', n)
  BY <1>2, <1>5 DEF Feeds
<1>10. LowRow(outbox[g], n)' /\ LowStacks(g, n)'
  BY <1>2, <1>3, <1>5, NoneOf DEF LowRow, LowStacks
<1>11. Starts(story, g, d, <<>>)'
  BY <1>2, <1>5, <1>6, <1>9, <1>10 DEF Starts
<1>12. Starts(story, g, down[g][1].doc, Tail(down[g]))'
  BY <1>7, <1>8, <1>11
<1>13. Sits(story, g)'
  BY <1>2, <1>3, <1>7, <1>8, <1>12 DEF Sits
<1>14. Clock(Host)' \in Nat /\ Clock(Host)' >= Clock(Host)
  BY <1>2, Clocks, LaterIs DEF Clock, Replicas
<1>15. Repeats(story, g)'
  <2>1. \A m \in DOMAIN outbox'[g] : \E k \in DOMAIN outbox[g] : outbox'[g][m] = outbox[g][k]
    BY <1>2
  <2> QED BY <1>1, <1>2, <1>14, <2>1, RepeatsStill
<1> QED BY <1>1, <1>2, <1>4, <1>13, <1>14, <1>15, ReturnElsewhere

LEMMA ReturnStutter ==
  ASSUME ReplicasInv, ReturnInv, UNCHANGED vars
  PROVE  ReturnInv'
<1>1. PICK story : Keeps(story) /\ \A x \in Guests : Sits(story, x) /\ Repeats(story, x)
  BY DEF ReturnInv
<1>2. /\ now' = now /\ log' = log /\ link' = link /\ outbox' = outbox /\ kept' = kept /\ doc' = doc
      /\ past' = past /\ future' = future /\ down' = down /\ Host \in Replicas
  BY DEF vars, Replicas
<1>3. Carries
  BY <1>2, CarriesOn
<1>4. Clock(Host)' = Clock(Host) /\ Clock(Host) \in Nat
  BY <1>2, Clocks DEF Clock
<1>5. log \in Seq(Records)
  BY DEF ReplicasInv, Recordings, Records
<1>6. Keeps(story)'
  BY <1>1, <1>2, <1>3, KeepsStill
<1>7. ASSUME NEW x \in Guests PROVE Sits(story, x)' /\ Repeats(story, x)'
  <2>1. Sits(story, x)'
    BY <1>1, <1>2, <1>3, <1>5, <1>7, SitsStill
  <2>2. Repeats(story, x)'
    BY <1>1, <1>2, <1>4, <1>7, RepeatsStill
  <2> QED BY <2>1, <2>2
<1> QED BY <1>6, <1>7 DEF ReturnInv

\* At the start the story has one document, and everybody shows it.
LEMMA ReturnBegin == Init => ReturnInv
<1> SUFFICES ASSUME Init PROVE ReturnInv
  OBVIOUS
<1> DEFINE story == [k \in 0 .. 0 |-> FirstDoc]
<1>1. ReplicasInv
  BY ReplicasBegin
<1>2. /\ doc = [r \in Replicas |-> FirstDoc] /\ kept = doc
      /\ past = [r \in Replicas |-> <<>>] /\ future = past
      /\ outbox = [r \in Replicas |-> <<>>] /\ link = Guests /\ down = [g \in Guests |-> <<>>] /\ log = <<>>
  BY DEF Init
<1>3. Host \in Replicas /\ \A r \in Replicas : doc[r] = FirstDoc /\ kept[r] = FirstDoc /\ outbox[r] = <<>>
                                            /\ past[r] = <<>> /\ future[r] = <<>>
  BY <1>2 DEF Replicas
<1>4. FirstDoc \in SoundDocs
  BY <1>1, <1>3 DEF ReplicasInv, Copies
<1>5. FirstDoc.rev = 0 /\ FirstDoc.clock = 0 /\ FirstDoc.ops = {} /\ FirstDoc.gone = [i \in Ids |-> 0]
      /\ FirstDoc.notes = [i \in Ids |-> IF i \in First THEN NewNote(Min(Bodies), 1) ELSE None]
  BY DEF FirstDoc
<1>6. NewNote(Min(Bodies), 1) # None /\ NewNote(Min(Bodies), 1).back = 0 /\ NewNote(Min(Bodies), 1).rev = 0
  <2>1. NewNote(Min(Bodies), 1) \in Notes
    BY FirstBody, NewNoteIs
  <2> QED BY <2>1 DEF NewNote
<1>7. ASSUME NEW i \in Ids PROVE GoneAt(FirstDoc.gone, i) = 0 /\ (i \in Shown(FirstDoc) <=> i \in First) /\ Past(FirstDoc, i)
  <2>1. GoneAt(FirstDoc.gone, i) = 0
    BY <1>5 DEF GoneAt, Higher
  <2>2. i \in Shown(FirstDoc) <=> i \in First
    BY <1>5, <1>6 DEF Shown
  <2>3. i \in First => FirstDoc.notes[i] = NewNote(Min(Bodies), 1)
    BY <1>5
  <2> QED BY <1>5, <1>6, <2>1, <2>2, <2>3 DEF Past
<1>8. Len(log) = 0 /\ DOMAIN log = {} /\ story[0] = FirstDoc /\ story \in [0 .. 0 -> SoundDocs]
  BY <1>2, <1>4
<1>9. Tale(story, log)
  <2>1. Sums(story, log, 0)
    <3>1. \A i \in Ids : Past(FirstDoc, i)
      BY <1>7
    <3> QED BY <1>5, <1>8, <3>1 DEF Sums
  <2>2. \A k \in 0 .. 0 : k = 0
    OBVIOUS
  <2> QED BY <1>8, <2>1, <2>2 DEF Tale
<1>10. ASSUME NEW late PROVE ShowsNoMore(FirstDoc, story, late)
  <2>1. \A i \in Ids : NoMore(FirstDoc, FirstDoc, Pending(FirstDoc.ops), late, i)
    BY <1>4, <1>7, NoMoreItself
  <2>2. story[FirstDoc.rev] = FirstDoc
    BY <1>5, <1>8
  <2> HIDE DEF story, FirstDoc
  <2> QED BY <2>1, <2>2 DEF ShowsNoMore
<1>11. ASSUME NEW r \in Replicas PROVE LowStacks(r, 0)
  BY <1>3, NoneOf DEF LowStacks
<1> HIDE DEF story
<1>12. Keeps(story)
  <2>1. \A i \in Ids : Ruled(FirstDoc, i)
    BY <1>7, <1>8 DEF Ruled
  <2> QED BY <1>3, <1>5, <1>8, <1>9, <1>10, <1>11, <2>1 DEF Keeps
<1>13. ASSUME NEW g \in Guests PROVE Sits(story, g) /\ Repeats(story, g)
  <2>1. g \in Replicas /\ g \in link /\ down[g] = <<>> /\ doc[g] = FirstDoc /\ DOMAIN outbox[g] = {}
    BY <1>2, <1>3 DEF Replicas
  <2>2. Feeds(<<>>, log, 0) /\ LowRow(outbox[g], 0)
    BY <1>8, <2>1 DEF Feeds, LowRow
  <2>3. Starts(story, g, FirstDoc, <<>>)
    BY <1>4, <1>5, <1>8, <1>10, <1>11, <2>1, <2>2 DEF Starts
  <2> QED BY <2>1, <2>3 DEF Sits, Repeats
<1> QED BY <1>12, <1>13 DEF ReturnInv

LEMMA ReturnStep == ReplicasInv /\ ReplicasInv' /\ BookInv /\ ReturnInv /\ [Next]_vars => ReturnInv'
<1> SUFFICES ASSUME ReplicasInv, ReplicasInv', BookInv, ReturnInv, [Next]_vars PROVE ReturnInv'
  OBVIOUS
<1>1. ASSUME NEW r \in Replicas, Posts(r) PROVE ReturnInv'
  BY <1>1, PostsArePostings, ReturnPost
<1>2. ASSUME NEW r \in Replicas, HostCommits(r) PROVE ReturnInv'
  BY <1>2, ReturnServed
<1>3. ASSUME NEW g \in Guests, GuestHears(g) PROVE ReturnInv'
  BY <1>3, ReturnHears
<1>4. ASSUME NEW g \in Guests, GuestAdopts(g) PROVE ReturnInv'
  BY <1>4, ReturnAdopts
<1>5. ASSUME NEW g \in Guests, LinkBreaks(g) PROVE ReturnInv'
  BY <1>5, ReturnBreaks
<1>6. ASSUME NEW g \in Guests, GuestJoins(g) PROVE ReturnInv'
  BY <1>6, ReturnJoins
<1>7. CASE UNCHANGED vars
  BY <1>7, ReturnStutter
<1> QED BY <1>1, <1>2, <1>3, <1>4, <1>5, <1>6, <1>7 DEF Next

LEMMA ReturnAlways == Spec => []ReturnInv
<1>1. Init => ReturnInv
  BY ReturnBegin
<1>2. ReplicasInv /\ ReplicasInv' /\ BookInv /\ ReturnInv /\ [Next]_vars => ReturnInv'
  BY ReturnStep
<1> QED BY <1>1, <1>2, ReplicasAlways, BookAlways, PTL DEF Spec

\* Of the commits that concern a comment, one is the last.
LEMMA SomeLastWord ==
  ASSUME log \in Seq(Records), NEW i \in Ids, NEW j \in DOMAIN log, Concerns(log[j].commit.op, i)
  PROVE  \E k \in DOMAIN log : LastWord(k, i)
<1> DEFINE T == {k \in DOMAIN log : Concerns(log[k].commit.op, i)}
<1>1. PICK n \in Nat : n = Len(log) /\ DOMAIN log = 1 .. n
  OBVIOUS
<1>2. T \subseteq 1 .. n /\ T \subseteq Nat /\ T # {}
  BY <1>1
<1>3. IsFiniteSet(T)
  <2>1. IsFiniteSet(1 .. n)
    BY FS_Interval
  <2> HIDE DEF T
  <2> QED BY <1>2, <2>1, FS_Subset
<1>4. PICK k : k \in T /\ \A m \in T : k >= m
  <2> HIDE DEF T
  <2> QED BY <1>2, <1>3, GreatestOf
<1>5. \A m \in T : m <= k
  <2>1. \A m \in T : m \in Nat
    BY <1>2
  <2> HIDE DEF T
  <2> QED BY <1>4, <2>1
<1> QED BY <1>4, <1>5 DEF LastWord

\* What the log says of a comment is said once.
LEMMA RuledOnce ==
  ASSUME log \in Seq(Records), NEW i \in Ids, NEW s, Ruled(s, i), NEW z, Ruled(z, i)
  PROVE  i \in Shown(s) <=> i \in Shown(z)
<1>1. CASE \A k \in DOMAIN log : ~Concerns(log[k].commit.op, i)
  BY <1>1 DEF Ruled
<1>2. CASE \E k \in DOMAIN log : Concerns(log[k].commit.op, i)
  <2>1. PICK k \in DOMAIN log : LastWord(k, i)
    BY <1>2, SomeLastWord
  <2> QED BY <2>1 DEF Ruled
<1> QED BY <1>1, <1>2

\* A guest shows nothing that was deleted, however often it lost the connection and
\* did again what it had done before (adoptSnapshot in hooks/use-co-review.ts and
\* applyCommit of lib/review-delivery.ts): when all is answered, its comments are
\* among the host's, but for those whose add was committed after their deletion.
THEOREM NothingReturns == Spec => []NothingComesBack
<1>1. ReplicasInv /\ StoryInv /\ ReturnInv => NothingComesBack
  <2> SUFFICES ASSUME ReplicasInv, StoryInv, ReturnInv, Settled, NEW g \in Guests, Ahead[g] <= Ahead[Host],
                      NEW i \in Shown(doc[g])
               PROVE  i \in Shown(doc[Host]) \/ AddedLate(i)
    BY DEF NothingComesBack
  <2>1. PICK story : Keeps(story) /\ Sits(story, g)
    BY DEF ReturnInv
  <2>2. /\ i \in Ids /\ log \in Seq(Records) /\ Host \in Replicas /\ g \in Replicas /\ outbox[Host] = <<>>
        /\ down[g] = <<>> /\ g \in link /\ \A r \in Replicas : outbox[r] = <<>>
    BY DEF Settled, Replicas, Shown, ReplicasInv, Recordings, Records
  <2>3. PICK n \in Nat : n = Len(log) /\ DOMAIN log = 1 .. n
    BY <2>2
  <2>4. PICK d : d = doc[g]
    OBVIOUS
  <2>5. Starts(story, g, d, <<>>)
    BY <2>1, <2>2, <2>4 DEF Sits
  <2>6. d.rev = n
    <3>1. d.rev \in 0 .. n /\ Feeds(<<>>, log, d.rev)
      BY <2>3, <2>5 DEF Starts
    <3>2. \A j \in (d.rev + 1) .. n : FALSE
      BY <2>3, <3>1 DEF Feeds
    <3>3. n \notin (d.rev + 1) .. n
      BY <3>2
    <3> QED BY <3>1, <3>3
  <2>7. NoMore(d, story[n], Pending(d.ops), Late, i)
    BY <2>2, <2>5, <2>6 DEF Starts, ShowsNoMore, Excused
  <2>8. Pending(d.ops) = {}
    <3>1. \A k \in DOMAIN log : log[k].id \in d.ops
      <4>1. d.ops = story[n].ops
        BY <2>7 DEF NoMore, Frame
      <4>2. Sums(story, log, n)
        <5>1. n \in 0 .. Len(log)
          BY <2>3
        <5> QED BY <2>1, <5>1 DEF Keeps, Tale
      <4>3. \A k \in DOMAIN log : log[k].id \in OpIds
        BY <2>2, RecordIs DEF Records
      <4> QED BY <2>3, <4>1, <4>2, <4>3 DEF Sums
    <3>2. \A r \in Replicas : DOMAIN outbox[r] = {}
      BY <2>2
    <3> QED BY <3>1, <3>2 DEF Pending
  <2>9. i \in Late \/ i \in Shown(story[n])
    BY <2>4, <2>7, <2>8 DEF NoMore
  <2>10. i \in Shown(story[n]) => i \in Shown(doc[Host])
    <3>1. PICK tale : Tells(tale) /\ \A r \in Replicas : Hears(tale, r)
      BY DEF StoryInv
    <3>2. Follows(tale, Host)
      BY <2>2, <3>1 DEF Hears, Steady
    <3>3. Near(doc[Host], tale[n], <<>>, log, Bound, i) /\ Ruled(tale[n], i)
      BY <2>2, <2>3, <3>1, <3>2 DEF Tells, Follows
    <3>4. i \in Shown(doc[Host]) <=> i \in Shown(tale[n])
      BY <3>3, NothingOpen
    <3>5. Ruled(story[n], i)
      BY <2>1, <2>2, <2>3 DEF Keeps
    <3>6. i \in Shown(story[n]) <=> i \in Shown(tale[n])
      BY <2>2, <3>3, <3>5, RuledOnce
    <3> QED BY <3>4, <3>6
  <2> QED BY <2>9, <2>10 DEF Late
<1> QED BY <1>1, ReplicasAlways, StoryAlways, ReturnAlways, PTL

-----------------------------------------------------------------------------
(* Files.  What a machine keeps is merged with what it shows; a guest that left keeps
   what the story said when it left, and what it finds when it returns comes later. *)

\* Two documents say the same of a comment.
Same(e, d, i) ==
  /\ GoneAt(e.gone, i) = GoneAt(d.gone, i)
  /\ i \in Shown(e) <=> i \in Shown(d)
  /\ i \in Shown(e) => Reads(e.notes[i], d.notes[i])

LEMMA SameItself ==
  ASSUME NEW d, NEW i
  PROVE  Same(d, d, i)
BY DEF Same, Reads

LEMMA SameBoth ==
  ASSUME NEW d, NEW e, NEW s, NEW i, Same(d, e, i), Same(e, s, i)
  PROVE  Same(d, s, i)
BY DEF Same, Reads

LEMMA SameBack ==
  ASSUME NEW d, NEW e, NEW i, Same(d, e, i)
  PROVE  Same(e, d, i)
BY DEF Same, Reads

LEMMA SameSays ==
  ASSUME NEW d, NEW e, NEW i, Same(d, e, i)
  PROVE  Says(d, i) = Says(e, i)
BY DEF Same, Reads, Says

\* Who matches the story with nothing open says the same.
LEMMA MatchSame ==
  ASSUME NEW d, NEW s, NEW i, Match(d, s, {}, i)
  PROVE  Same(d, s, i)
<1>1. ~HasDel({}, i) /\ ~HasWord({}, i) /\ \A t : ~Has({}, t, i)
  BY DEF HasDel, HasWord, Has
<1> QED BY <1>1 DEF Match, SameReading, Same, Reads

\* A sound document shows what it has not deleted.
LEMMA SoundShows ==
  ASSUME NEW d \in SoundDocs, NEW i \in Ids, i \in Shown(d)
  PROVE  ~Hid(GoneAt(d.gone, i), d.notes[i].back)
BY DEF SoundDocs, SoundDoc, Buried, Hid

\* Of a comment that both have the merge takes the one of the later revision.
LEMMA MergePicks ==
  ASSUME NEW local \in Docs, NEW incoming \in Docs, NEW i \in Ids, NEW e, e = Merge(local, incoming),
         i \in Shown(local), i \in Shown(incoming), local.notes[i].rev < incoming.notes[i].rev
  PROVE  /\ i \in Shown(e) <=> ~Hid(GoneAt(e.gone, i), incoming.notes[i].back)
         /\ i \in Shown(e) => Reads(e.notes[i], incoming.notes[i])
<1> DEFINE gone == [j \in Ids |-> Higher(local.gone[j], incoming.gone[j])]
           both(j) == IF j \notin Shown(incoming) THEN local.notes[j]
                      ELSE IF j \notin Shown(local) THEN incoming.notes[j]
                      ELSE MergeNote(incoming.notes[j], local.notes[j])
           notes == [j \in Ids |-> IF both(j) # None /\ Buried(gone, j, both(j)) THEN None ELSE both(j)]
<1>1. e = [notes |-> notes, gone |-> gone, clock |-> Higher(local.clock, incoming.clock),
           rev |-> Higher(local.rev, incoming.rev), ops |-> local.ops \union incoming.ops]
  BY DEF Merge
<1>2. notes[i] = IF both(i) # None /\ Buried(gone, i, both(i)) THEN None ELSE both(i)
  OBVIOUS
<1>3. both(i) = MergeNote(incoming.notes[i], local.notes[i])
  OBVIOUS
<1> HIDE DEF gone, notes, both
<1>4. e.notes = notes /\ e.gone = gone
  BY <1>1
<1> DEFINE a == incoming.notes[i]
           b == local.notes[i]
<1>5. a \in Notes /\ b \in Notes /\ b.rev < a.rev
  BY DocIs
<1> HIDE DEF a, b
<1>6. MergeNote(a, b) \in Notes
  BY <1>5, MergedNote
<1>7. Reads(MergeNote(a, b), a)
  <2> DEFINE newer == \/ b.rev > a.rev
                      \/ b.rev = a.rev /\ b.back > a.back
                      \/ b.rev = a.rev /\ b.back = a.back /\ b.at > a.at
             heard == [r \in Replicas |-> Newer(a.heard[r], b.heard[r])]
             fans == {r \in Replicas : IF heard[r] = None THEN r \in a.fans \union b.fans
                                                          ELSE heard[r].on}
             winner == IF newer THEN b ELSE a
  <2>1. MergeNote(a, b) = [winner EXCEPT !.fans = fans, !.heard = heard]
    BY Zenon DEF MergeNote
  <2>2. winner = a
    <3>1. a.rev \in Nat /\ b.rev \in Nat
      BY <1>5, NoteIs
    <3> QED BY <1>5, <3>1
  <2> HIDE DEF fans, heard, winner
  <2>3. Reads([a EXCEPT !.fans = fans, !.heard = heard], a)
    BY <1>5 DEF Notes, Reads
  <2> QED BY <2>1, <2>2, <2>3
<1>8. both(i) \in Notes /\ Reads(both(i), a)
  BY <1>3, <1>6, <1>7 DEF a, b
<1>9. both(i) # None
  BY <1>8
<1>10. Buried(gone, i, both(i)) <=> Hid(GoneAt(e.gone, i), a.back)
  BY <1>4, <1>8 DEF Buried, Hid, Reads
<1>11. i \in Shown(e) <=> ~Hid(GoneAt(e.gone, i), a.back)
  BY <1>2, <1>4, <1>9, <1>10 DEF Shown
<1>12. i \in Shown(e) => Reads(e.notes[i], a)
  BY <1>2, <1>4, <1>8 DEF Shown
<1> QED BY <1>11, <1>12 DEF a

\* Merging two documents that say the same changes nothing.
LEMMA MergeSame ==
  ASSUME NEW kp \in SoundDocs, NEW d \in SoundDocs, NEW i \in Ids, Same(kp, d, i), NEW e, e = Merge(kp, d)
  PROVE  Same(e, d, i)
<1>1. kp \in Docs /\ d \in Docs
  BY DEF SoundDocs
<1>2. GoneAt(kp.gone, i) = GoneAt(d.gone, i) /\ GoneAt(d.gone, i) \in Nat
  BY <1>1, DocIs, Gone DEF Same
<1>3. GoneAt(e.gone, i) = GoneAt(d.gone, i)
  BY <1>1, <1>2, MergeAt DEF Higher
<1>4. i \notin Shown(d) => i \notin Shown(e)
  BY <1>1, MergeAt DEF Same
<1>5. ASSUME i \in Shown(d) PROVE i \in Shown(e) /\ Reads(e.notes[i], d.notes[i])
  <2>1. PICK x \in {kp, d} : /\ i \in Shown(e) <=> ~Hid(GoneAt(e.gone, i), x.notes[i].back)
                             /\ i \in Shown(e) => Reads(e.notes[i], x.notes[i])
    BY <1>1, <1>5, MergeAt
  <2>2. Reads(x.notes[i], d.notes[i])
    BY <1>5 DEF Same, Reads
  <2>3. ~Hid(GoneAt(d.gone, i), d.notes[i].back)
    BY <1>5, SoundShows
  <2> QED BY <1>3, <2>1, <2>2, <2>3 DEF Reads
<1> QED BY <1>3, <1>4, <1>5 DEF Same

\* z comes after s: what s shows is shown, changed or deleted since.
Since(s, z, i) ==
  /\ GoneAt(s.gone, i) <= GoneAt(z.gone, i)
  /\ i \in Shown(s) => GoneAt(z.gone, i) > s.clock \/ i \in Shown(z)
  /\ i \in Shown(s) /\ i \in Shown(z) => z.notes[i].rev > s.rev \/ Reads(z.notes[i], s.notes[i])

\* A file that says what s says adds nothing to a document that says what comes later.
LEMMA MergeLater ==
  ASSUME NEW kp \in SoundDocs, NEW d \in SoundDocs, NEW s \in SoundDocs, NEW z \in SoundDocs, NEW i \in Ids,
         Same(kp, s, i), Same(d, z, i), Since(s, z, i), Past(s, i), NEW e, e = Merge(kp, d)
  PROVE  Same(e, d, i)
<1>1. kp \in Docs /\ d \in Docs
  BY DEF SoundDocs
<1>2. /\ GoneAt(kp.gone, i) = GoneAt(s.gone, i) /\ GoneAt(d.gone, i) = GoneAt(z.gone, i)
      /\ GoneAt(kp.gone, i) \in Nat /\ GoneAt(d.gone, i) \in Nat /\ GoneAt(kp.gone, i) <= GoneAt(d.gone, i)
  BY <1>1, DocIs, Gone DEF Same, Since
<1>3. GoneAt(e.gone, i) = GoneAt(d.gone, i)
  BY <1>1, <1>2, MergeAt DEF Higher
<1>4. i \in Shown(kp) => /\ i \in Shown(s) /\ Reads(kp.notes[i], s.notes[i]) /\ s.clock \in Nat /\ s.rev \in Nat
                        /\ kp.notes[i].back \in Nat /\ kp.notes[i].rev \in Nat
                        /\ kp.notes[i].back <= s.clock /\ kp.notes[i].rev <= s.rev
  <2>1. s \in Docs
    BY DEF SoundDocs
  <2> QED BY <1>1, <2>1, DocIs, NoteIs DEF Same, Past, Reads
<1>5. ASSUME i \notin Shown(d) PROVE i \notin Shown(e)
  <2>1. CASE i \notin Shown(kp)
    BY <1>1, <1>5, <2>1, MergeAt
  <2>2. CASE i \in Shown(kp)
    <3>1. i \in Shown(e) <=> ~Hid(GoneAt(e.gone, i), kp.notes[i].back)
      BY <1>1, <1>5, <2>2, MergeAt
    <3>2. GoneAt(d.gone, i) > s.clock
      BY <1>2, <1>4, <1>5, <2>2 DEF Same, Since
    <3> QED BY <1>2, <1>3, <1>4, <2>2, <3>1, <3>2 DEF Hid
  <2> QED BY <2>1, <2>2
<1>6. ASSUME i \in Shown(d) PROVE i \in Shown(e) /\ Reads(e.notes[i], d.notes[i])
  <2>1. ~Hid(GoneAt(e.gone, i), d.notes[i].back)
    BY <1>3, <1>6, SoundShows
  <2>2. PICK x \in {kp, d} : /\ i \in Shown(x)
                             /\ i \in Shown(e) <=> ~Hid(GoneAt(e.gone, i), x.notes[i].back)
                             /\ i \in Shown(e) => Reads(e.notes[i], x.notes[i])
    BY <1>1, <1>6, MergeAt
  <2>3. CASE x = d
    BY <2>1, <2>2, <2>3
  <2>4. CASE x = kp
    <3>1. i \in Shown(kp) /\ i \in Shown(s) /\ i \in Shown(z) /\ Reads(kp.notes[i], s.notes[i])
          /\ Reads(d.notes[i], z.notes[i])
      BY <1>4, <1>6, <2>2, <2>4 DEF Same
    <3>2. CASE Reads(z.notes[i], s.notes[i])
      <4>1. Reads(kp.notes[i], d.notes[i])
        BY <3>1, <3>2 DEF Reads
      <4> QED BY <2>1, <2>2, <2>4, <4>1 DEF Reads
    <3>3. CASE z.notes[i].rev > s.rev
      <4>1. d.notes[i].rev \in Nat /\ kp.notes[i].rev < d.notes[i].rev
        BY <1>1, <1>4, <1>6, <3>1, <3>3, DocIs, NoteIs DEF Reads
      <4> QED BY <1>1, <1>6, <2>1, <3>1, <4>1, MergePicks
    <3> QED BY <3>1, <3>2, <3>3 DEF Since
  <2> QED BY <2>2, <2>3, <2>4
<1> QED BY <1>3, <1>5, <1>6 DEF Same

LEMMA SinceItself ==
  ASSUME NEW s \in SoundDocs, NEW i \in Ids
  PROVE  Since(s, s, i)
<1>1. GoneAt(s.gone, i) \in Nat
  BY DocIs, Gone DEF SoundDocs
<1> QED BY <1>1 DEF Since, Reads

\* The commits go on.  A comment that was shown again before it was added is lost then,
\* and no tombstone says so: that is one of late.
LEMMA SinceCommit ==
  ASSUME NEW s \in SoundDocs, NEW w \in SoundDocs, NEW c \in Commits, NEW id \in OpIds, Nexts(w, c, id),
         NEW late, Allowing(w, c, late), s.clock <= w.clock, s.rev <= w.rev, NEW i \in Ids, i \notin late,
         Since(s, w, i), NEW f, f = ApplyCommit(w, c, id)
  PROVE  Since(s, f, i)
<1>1. c.op \in OpTypes /\ c.op.id \in Ids /\ c.clock \in Nat /\ c.rev \in Nat
  BY OpIs DEF Commits
<1>2. /\ s \in Docs /\ w \in Docs /\ s.rev \in Nat /\ s.clock \in Nat /\ w.rev \in Nat /\ w.clock \in Nat
      /\ GoneAt(s.gone, i) \in Nat /\ \A j \in Shown(w) : w.notes[j].rev \in Nat
  BY DocIs, NoteIs, Gone DEF SoundDocs
<1>3. Stamped(c) /\ id \notin w.ops /\ c.rev = w.rev + 1 /\ c.clock > w.clock /\ Past(w, c.op.id)
  BY <1>1 DEF Nexts
<1>4. c.op.id \in Shown(w) => w.notes[c.op.id].rev < c.rev
  BY <1>1, <1>2, <1>3 DEF Past
<1>5. /\ GoneAt(w.gone, i) \in Nat /\ GoneAt(f.gone, i) \in Nat /\ GoneAt(w.gone, i) <= GoneAt(f.gone, i)
      /\ Adds(c.op, i) => i \in Shown(f)
      /\ i \in Shown(w) => i \in Shown(f) \/ GoneAt(f.gone, i) >= c.clock
  BY NextAt
<1>6. /\ Deletes(c.op, i) /\ i \in Shown(f) =>
                             /\ i \in Shown(w) /\ f.notes[i].back = w.notes[i].back /\ f.notes[i].body = w.notes[i].body
                             /\ f.notes[i].resolved = w.notes[i].resolved
                             /\ f.notes[i].rev \in {w.notes[i].rev, c.rev}
      /\ c.op.t = "add" /\ c.op.id = i /\ i \in Shown(f) => f.notes[i] = c.op.note
      /\ ~Concerns(c.op, i) =>
           /\ Stays(f, w, c.op, i)
           /\ i \in Shown(w) => f.notes[i].rev \in {w.notes[i].rev, c.rev} /\ Ranked(f, w, c, i)
  BY <1>3, <1>4, CommitAt
<1>7. ASSUME i \in Shown(s) PROVE GoneAt(f.gone, i) > s.clock \/ i \in Shown(f)
  BY <1>2, <1>1, <1>3, <1>5, <1>7 DEF Since
<1>8. ASSUME i \in Shown(w), i \in Shown(f) PROVE f.notes[i].rev = c.rev \/ Reads(f.notes[i], w.notes[i])
  <2>1. CASE Deletes(c.op, i)
    BY <1>6, <1>8, <2>1 DEF Reads
  <2>2. CASE c.op.t = "add" /\ c.op.id = i
    BY <1>1, <1>3, <1>6, <1>8, <2>2 DEF Stamped
  <2>3. CASE ~Concerns(c.op, i)
    <3>1. CASE c.op.id = i
      BY <1>6, <1>8, <2>3, <3>1 DEF Ranked
    <3>2. CASE c.op.id # i
      BY <1>6, <1>8, <2>3, <3>2 DEF Ranked, Stays, Reads
    <3> QED BY <3>1, <3>2
  <2> QED BY <2>1, <2>2, <2>3 DEF Concerns
<1>9. ASSUME i \in Shown(s), i \in Shown(f) PROVE f.notes[i].rev > s.rev \/ Reads(f.notes[i], s.notes[i])
  <2>1. c.rev > s.rev
    BY <1>1, <1>2, <1>3
  <2>2. CASE i \in Shown(w)
    <3>1. CASE f.notes[i].rev = c.rev
      BY <2>1, <3>1
    <3>2. CASE Reads(f.notes[i], w.notes[i])
      BY <1>9, <2>2, <3>2 DEF Since, Reads
    <3> QED BY <1>8, <1>9, <2>2, <3>1, <3>2
  <2>3. CASE i \notin Shown(w)
    <3>1. c.op.t = "add" /\ c.op.id = i
      BY <1>6, <1>9, <2>3 DEF Concerns, Stays
    <3>2. f.notes[i].rev = c.rev
      BY <1>1, <1>3, <1>6, <1>9, <3>1 DEF Stamped
    <3> QED BY <2>1, <3>2
  <2> QED BY <2>2, <2>3
<1>10. GoneAt(s.gone, i) <= GoneAt(f.gone, i)
  BY <1>2, <1>5 DEF Since
<1> QED BY <1>7, <1>9, <1>10 DEF Since

\* A step of a story.
LEMMA TaleStep ==
  ASSUME NEW rec \in Seq(Records), NEW story, Tale(story, rec), NEW k \in 1 .. Len(rec)
  PROVE  /\ rec[k].commit \in Commits /\ rec[k].id \in OpIds /\ k - 1 \in 0 .. Len(rec) /\ k \in 0 .. Len(rec)
         /\ story[k - 1] \in SoundDocs /\ story[k] \in SoundDocs /\ story[k - 1].rev = k - 1 /\ story[k].rev = k
         /\ story[k] = ApplyCommit(story[k - 1], rec[k].commit, rec[k].id)
         /\ Nexts(story[k - 1], rec[k].commit, rec[k].id)
<1>1. PICK n \in Nat : n = Len(rec)
  OBVIOUS
<1>2. k \in 1 .. n /\ k - 1 \in 0 .. n /\ k \in 0 .. n /\ k = (k - 1) + 1 /\ k \in DOMAIN rec
  BY <1>1
<1>3. rec[k].commit \in Commits /\ rec[k].id \in OpIds
  BY <1>2, RecordIs DEF Records
<1>4. /\ Told(story, rec, k) /\ Sums(story, rec, k - 1) /\ Sums(story, rec, k)
      /\ story \in [0 .. n -> SoundDocs]
  BY <1>1, <1>2 DEF Tale
<1>5. Nexts(story[k - 1], rec[k].commit, rec[k].id)
  <2>1. story[k - 1].rev = k - 1 /\ \A j \in Ids : Past(story[k - 1], j)
    BY <1>4 DEF Sums
  <2> QED BY <1>2, <1>4, <2>1 DEF Told, Nexts
<1>6. story[k] = ApplyCommit(story[k - 1], rec[k].commit, rec[k].id)
  BY <1>4 DEF Told
<1>7. story[k - 1].rev = k - 1 /\ story[k].rev = k
  BY <1>4 DEF Sums
<1>8. story[k - 1] \in SoundDocs /\ story[k] \in SoundDocs
  BY <1>2, <1>4
<1> QED BY <1>1, <1>2, <1>3, <1>5, <1>6, <1>7, <1>8

\* A log has one story.
LEMMA TaleOnce ==
  ASSUME NEW rec \in Seq(Records), NEW a, Tale(a, rec), NEW b, Tale(b, rec)
  PROVE  \A k \in 0 .. Len(rec) : a[k] = b[k]
<1> DEFINE S == {x \in SoundDocs \X SoundDocs : x[1] = x[2]}
           f == [k \in 0 .. Len(rec) |-> <<a[k], b[k]>>]
<1>1. PICK n \in Nat : n = Len(rec)
  OBVIOUS
<1>2. /\ a \in [0 .. n -> SoundDocs] /\ a[0] = FirstDoc /\ b \in [0 .. n -> SoundDocs] /\ b[0] = FirstDoc
      /\ 0 \in 0 .. n
  BY <1>1 DEF Tale
<1>3. \A k \in 0 .. n : f[k] = <<a[k], b[k]>> /\ f[k] \in SoundDocs \X SoundDocs /\ (f[k] \in S <=> a[k] = b[k])
  BY <1>1, <1>2
<1> HIDE DEF S, f
<1>4. f[0] \in S
  BY <1>2, <1>3
<1>5. ASSUME NEW k \in 1 .. n, f[k - 1] \in S PROVE f[k] \in S
  <2>1. /\ k - 1 \in 0 .. n /\ k \in 0 .. n
        /\ a[k] = ApplyCommit(a[k - 1], rec[k].commit, rec[k].id)
        /\ b[k] = ApplyCommit(b[k - 1], rec[k].commit, rec[k].id)
    BY <1>1, TaleStep
  <2>2. a[k - 1] = b[k - 1]
    BY <1>3, <1>5, <2>1
  <2> QED BY <1>3, <2>1, <2>2
<1>6. \A k \in 0 .. n : f[k] \in S
  BY <1>4, <1>5, StaysIn
<1> QED BY <1>1, <1>3, <1>6

\* What was told before the last commit is the story of what was recorded before it.
LEMMA TalePrefix ==
  ASSUME NEW rec \in Seq(Records), NEW x \in Records, NEW more, Tale(more, Append(rec, x)),
         NEW story, story = [k \in 0 .. Len(rec) |-> more[k]]
  PROVE  Tale(story, rec)
<1>1. PICK n \in Nat : n = Len(rec)
  OBVIOUS
<1>2. PICK rec2 : rec2 = Append(rec, x)
  OBVIOUS
<1>3. /\ Len(rec2) = n + 1 /\ \A k \in 1 .. n : rec2[k] = rec[k]
  BY <1>1, <1>2
<1>4. /\ more \in [0 .. (n + 1) -> SoundDocs] /\ more[0] = FirstDoc
      /\ (\A k \in 1 .. (n + 1) : Told(more, rec2, k)) /\ (\A k \in 0 .. (n + 1) : Sums(more, rec2, k))
  BY <1>2, <1>3 DEF Tale
<1>5. story \in [0 .. n -> SoundDocs] /\ (\A k \in 0 .. n : story[k] = more[k]) /\ 0 \in 0 .. n
  BY <1>1, <1>4
<1>6. ASSUME NEW k \in 1 .. n PROVE Told(story, rec, k)
  <2>1. story[k] = more[k] /\ story[k - 1] = more[k - 1] /\ rec2[k] = rec[k] /\ Told(more, rec2, k)
    BY <1>3, <1>4, <1>5
  <2> QED BY <2>1 DEF Told
<1>7. ASSUME NEW k \in 0 .. n PROVE Sums(story, rec, k)
  <2>1. story[k] = more[k] /\ Sums(more, rec2, k) /\ \A j \in 1 .. k : rec2[j] = rec[j]
    BY <1>3, <1>4, <1>5
  <2> QED BY <2>1 DEF Sums
<1>8. story[0] = FirstDoc
  BY <1>4, <1>5
<1> QED BY <1>1, <1>5, <1>6, <1>7, <1>8 DEF Tale

\* Nothing is deleted but by a commit.
LEMMA TaleDeletes ==
  ASSUME NEW rec \in Seq(Records), NEW story, Tale(story, rec), NEW i \in Ids, NEW k \in 0 .. Len(rec),
         GoneAt(story[k].gone, i) # 0
  PROVE  \E j \in 1 .. k : Deletes(rec[j].commit.op, i)
<1> DEFINE Accounted(m, s) == GoneAt(s.gone, i) # 0 => \E j \in 1 .. m : Deletes(rec[j].commit.op, i)
           S == {x \in Nat \X SoundDocs : Accounted(x[1], x[2])}
           f == [m \in 0 .. Len(rec) |-> <<m, story[m]>>]
<1>1. PICK n \in Nat : n = Len(rec)
  OBVIOUS
<1>2. story \in [0 .. n -> SoundDocs] /\ story[0] = FirstDoc /\ 0 \in 0 .. n
  BY <1>1 DEF Tale
<1>3. \A m \in 0 .. n : f[m] = <<m, story[m]>> /\ m \in Nat /\ (f[m] \in S <=> Accounted(m, story[m]))
  BY <1>1, <1>2
<1> HIDE DEF S, f
<1>4. f[0] \in S
  <2>1. FirstDoc.gone = [j \in Ids |-> 0]
    BY DEF FirstDoc
  <2>2. GoneAt(FirstDoc.gone, i) = 0
    BY <2>1 DEF GoneAt, Higher
  <2> QED BY <1>2, <1>3, <2>2
<1>5. ASSUME NEW m \in 1 .. n, f[m - 1] \in S PROVE f[m] \in S
  <2>1. PICK s \in SoundDocs, c \in Commits, id \in OpIds :
          /\ s = story[m - 1] /\ c = rec[m].commit /\ id = rec[m].id /\ m - 1 \in 0 .. n /\ m \in 0 .. n
          /\ s \in SoundDocs /\ story[m] = ApplyCommit(s, c, id) /\ Nexts(s, c, id)
    BY <1>1, TaleStep
  <2>2. c.op.id \in Shown(s) => s.notes[c.op.id].rev < c.rev
    <3>1. s.rev \in Nat /\ c.rev = s.rev + 1 /\ (c.op.id \in Shown(s) => s.notes[c.op.id].rev \in Nat)
      BY <2>1, DocIs, NoteIs DEF SoundDocs, Nexts
    <3>2. Past(s, c.op.id)
      BY <2>1, OpIs DEF Nexts, Commits
    <3> QED BY <3>1, <3>2 DEF Past
  <2>3. GoneAt(story[m].gone, i) = IF Deletes(c.op, i) THEN Higher(GoneAt(s.gone, i), c.clock) ELSE GoneAt(s.gone, i)
    BY <2>1, <2>2, CommitAt DEF Nexts
  <2>4. Accounted(m - 1, s)
    BY <1>3, <1>5, <2>1
  <2>5. Accounted(m, story[m])
    BY <2>1, <2>3, <2>4
  <2> QED BY <1>3, <2>1, <2>5
<1>6. \A m \in 0 .. n : f[m] \in S
  BY <1>4, <1>5, StaysIn
<1> QED BY <1>1, <1>3, <1>6

\* An add that is committed after a deletion of the comment is a late one.
LEMMA TaleAllows ==
  ASSUME log \in Seq(Records), NEW story, Tale(story, log), NEW k \in 1 .. Len(log)
  PROVE  Allowing(story[k - 1], log[k].commit, Late)
<1> SUFFICES ASSUME NEW c, c = log[k].commit, c.op.t = "add", c.op.note.back = 0,
                    GoneAt(story[k - 1].gone, c.op.id) # 0
             PROVE  c.op.id \in Late
  BY DEF Allowing
<1>1. k - 1 \in 0 .. Len(log) /\ c \in Commits /\ k \in DOMAIN log
  BY TaleStep
<1>2. c.op.id \in Ids
  BY <1>1, OpIs DEF Commits
<1>3. \E j \in 1 .. (k - 1) : Deletes(log[j].commit.op, c.op.id)
  BY <1>1, <1>2, TaleDeletes
<1> QED BY <1>1, <1>2, <1>3 DEF Late, AddedLate, DeletedBefore

\* Each document of the story comes after the earlier ones.
LEMMA SinceStory ==
  ASSUME log \in Seq(Records), NEW story, Tale(story, log), NEW i \in Ids, i \notin Late,
         NEW m \in 0 .. Len(log), NEW k \in 0 .. m
  PROVE  Since(story[k], story[m], i)
<1>1. PICK n \in Nat : n = m - k /\ n + k = m
  OBVIOUS
<1>2. PICK s : s = story[k]
  OBVIOUS
<1> DEFINE After(w) == Since(s, w, i) /\ s.clock <= w.clock /\ s.rev <= w.rev
           S == {w \in SoundDocs : After(w)}
           f == [j \in 0 .. n |-> story[j + k]]
<1>3. s \in SoundDocs /\ s.clock \in Nat /\ s.rev \in Nat
  <2>1. s \in SoundDocs
    BY <1>2 DEF Tale
  <2> QED BY <2>1, DocIs DEF SoundDocs
<1>4. f[0] = s /\ f[n] = story[m] /\ 0 \in 0 .. n /\ n \in 0 .. n
  BY <1>1, <1>2
<1>5. s \in S
  BY <1>3, SinceItself
<1>6. ASSUME NEW j \in 1 .. n, f[j - 1] \in S PROVE f[j] \in S
  <2>1. PICK p : p = j + k /\ p \in 1 .. Len(log) /\ f[j] = story[p] /\ f[j - 1] = story[p - 1]
    <3>1. j + k \in 1 .. Len(log) /\ j \in 0 .. n /\ j - 1 \in 0 .. n /\ (j - 1) + k = (j + k) - 1
      BY <1>1
    <3> QED BY <3>1
  <2>2. PICK w \in SoundDocs, c \in Commits, id \in OpIds :
          /\ w = story[p - 1] /\ c = log[p].commit /\ id = log[p].id
          /\ w \in SoundDocs /\ story[p] \in SoundDocs /\ story[p] = ApplyCommit(w, c, id) /\ Nexts(w, c, id)
          /\ w.rev = p - 1 /\ story[p].rev = p
    BY <2>1, TaleStep
  <2>3. Allowing(w, c, Late)
    BY <2>1, <2>2, TaleAllows
  <2>4. Since(s, w, i) /\ s.clock <= w.clock /\ s.rev <= w.rev
    BY <1>6, <2>1, <2>2
  <2> HIDE DEF S, f
  <2>5. Since(s, story[p], i)
    BY <1>3, <2>2, <2>3, <2>4, SinceCommit
  <2>6. story[p].clock = c.clock /\ c.clock \in Nat /\ w.clock \in Nat /\ c.clock > w.clock
    <3>1. story[p].clock = c.clock /\ c.clock \in Nat /\ w.clock \in Nat
      BY <2>2, <2>3, NextAt
    <3> QED BY <2>2, <3>1 DEF Nexts
  <2>7. w.rev \in Nat /\ p \in Nat
    BY <2>1, <2>2, DocIs DEF SoundDocs
  <2>8. After(story[p])
    BY <1>3, <2>2, <2>4, <2>5, <2>6, <2>7
  <2> QED BY <2>1, <2>2, <2>8 DEF S
<1> HIDE DEF S, f
<1>7. \A j \in 0 .. n : f[j] \in S
  BY <1>1, <1>4, <1>5, <1>6, StaysIn
<1>8. story[m] \in S
  BY <1>4, <1>7
<1> QED BY <1>2, <1>8 DEF S

Sames(e, d) == \A i \in Ids \ Late : Same(e, d, i)

\* The next that g hears is a snapshot.
Awaits(g) == down[g] # <<>> /\ down[g][1].t = "doc"

\* The file of g says what the story did after one of the first n commits.
Left(story, g, n) == \E k \in 0 .. n : Sames(kept[g], story[k])

\* There is a commit to come, and the guest that gets it has left once.
Still(g, messages) == breaks[g] = 1 /\ (messages # <<>> \/ outbox[Host] # <<>>)

\* The file of g is from before the snapshot d, and the messages are to follow.
Older(story, g, d, messages) ==
  /\ d.rev \in 0 .. Len(log) /\ Left(story, g, d.rev)
  /\ Sames(d, story[d.rev]) \/ Still(g, messages)

Filed(story, g) ==
  IF g \notin link THEN Left(story, g, Len(log))
  ELSE IF Awaits(g) THEN Older(story, g, down[g][1].doc, Tail(down[g]))
  ELSE Sames(kept[g], doc[g]) \/ Still(g, down[g])

Quiet(g) == breaks[g] <= 1 /\ Ahead[g] <= Ahead[Host] /\ outbox[g] = <<>>

HostFile == outbox[Host] = <<>> => \A i \in Ids : Same(kept[Host], doc[Host], i)
GuestFile(g) == Quiet(g) => \A story : Tale(story, log) => Filed(story, g)

\* The files of all that have nothing left to be answered.
FileInv == HostFile /\ \A g \in Guests : GuestFile(g)

LEMMA SamesStill ==
  ASSUME Late \subseteq Late', NEW e, NEW d, Sames(e, d)
  PROVE  Sames(e, d)'
BY DEF Sames

LEMMA LateStays ==
  ASSUME log' = log
  PROVE  Late' = Late
<1>1. \A i \in Ids : AddedLate(i)' <=> AddedLate(i)
  BY DEF AddedLate, DeletedBefore
<1> QED BY <1>1 DEF Late

\* What others do is not in the file of g.
LEMMA FiledStill ==
  ASSUME NEW g \in Guests, log' = log, GuestFile(g), outbox[Host] # <<>> => outbox'[Host] # <<>>,
         kept'[g] = kept[g], doc'[g] = doc[g], down'[g] = down[g], g \in link <=> g \in link',
         outbox'[g] = outbox[g], breaks'[g] = breaks[g]
  PROVE  GuestFile(g)'
<1>1. Quiet(g)' <=> Quiet(g)
  BY DEF Quiet
<1> SUFFICES ASSUME Quiet(g), NEW story, Tale(story, log) PROVE Filed(story, g)'
  BY <1>1 DEF GuestFile
<1>2. Filed(story, g)
  BY DEF GuestFile
<1>3. Late' = Late
  BY LateStays
<1>4. \A n : Left(story, g, n) => Left(story, g, n)'
  BY <1>3 DEF Left, Sames
<1>5. \A messages : Still(g, messages) => Still(g, messages)'
  BY DEF Still
<1>6. \A d, messages : Older(story, g, d, messages) => Older(story, g, d, messages)'
  BY <1>3, <1>4, <1>5 DEF Older, Sames
<1>7. CASE g \notin link
  BY <1>2, <1>4, <1>7 DEF Filed
<1>8. CASE g \in link /\ Awaits(g)
  BY <1>2, <1>6, <1>8 DEF Filed, Awaits
<1>9. CASE g \in link /\ ~Awaits(g)
  <2>1. g \in link' /\ ~Awaits(g)'
    BY <1>9 DEF Awaits
  <2>2. Sames(kept[g], doc[g]) \/ Still(g, down[g])
    BY <1>2, <1>9 DEF Filed
  <2>3. (Sames(kept[g], doc[g]) \/ Still(g, down[g]))'
    BY <1>3, <1>5, <2>2 DEF Sames
  <2> QED BY <2>1, <2>3 DEF Filed
<1> QED BY <1>7, <1>8, <1>9

\* Whoever is fed commits awaits none.
LEMMA FedCommits ==
  ASSUME NEW messages \in Seq(SoundDowns), NEW rec, NEW heard, Feeds(messages, rec, heard), messages # <<>>
  PROVE  messages[1].t = "commit"
<1>1. 1 \in DOMAIN messages
  OBVIOUS
<1> QED BY <1>1 DEF Feeds

LEMMA NoneAwaited ==
  ASSUME ReplicasInv, ReturnInv, NEW g \in Guests, InRoom(g)
  PROVE  g \in link /\ ~Awaits(g) /\ doc[g] \in SoundDocs
<1>1. PICK story : Sits(story, g)
  BY DEF ReturnInv
<1>2. g \in link /\ Starts(story, g, doc[g], down[g])
  BY <1>1 DEF Sits, InRoom
<1>3. down[g] \in Seq(SoundDowns)
  BY DEF ReplicasInv, Deliveries
<1>4. down[g] # <<>> => down[g][1].t = "commit"
  BY <1>2, <1>3, FedCommits DEF Starts
<1> QED BY <1>2, <1>4 DEF Awaits, Starts

LEMMA AppliesNone ==
  ASSUME NEW d, NEW t
  PROVE  ApplyAll(d, <<>>, t) = d
<1>1. <<>> \in Seq({}) /\ DOMAIN <<>> = {}
  OBVIOUS
<1>2. ApplyAll(d, <<>>, t) \in {d}
  BY <1>1, AppliesWithin
<1> QED BY <1>2

\* A post that leaves nothing to be answered posts nothing.
LEMMA PostsNone ==
  ASSUME ReplicasInv, NEW r \in Replicas, NEW ops, Posting(r, ops), outbox'[r] = <<>>
  PROVE  outbox[r] = <<>> /\ doc'[r] = doc[r] /\ kept'[r] = Merge(kept[r], doc[r])
<1> DEFINE envelopes == [k \in DOMAIN ops |-> [id |-> used + k, op |-> ops[k]]]
<1>1. /\ doc \in [Replicas -> SoundDocs \union {None}] /\ kept \in [Replicas -> SoundDocs]
      /\ outbox \in [Replicas -> Seq(Envelopes)]
  BY DEF ReplicasInv, Copies, Posted
<1>2. /\ doc'[r] = ApplyAll(doc[r], ops, ActClock(r)) /\ kept'[r] = Merge(kept[r], doc'[r])
      /\ outbox'[r] = outbox[r] \o envelopes
  BY <1>1 DEF Posting, PostAll
<1>3. PICK S : ops \in Seq(S)
  BY DEF Posting
<1>4. envelopes \in Seq({envelopes[k] : k \in DOMAIN ops}) /\ DOMAIN envelopes = DOMAIN ops
  BY <1>3
<1>5. outbox[r] \in Seq(Envelopes)
  BY <1>1
<1>6. Len(outbox[r]) = 0 /\ Len(ops) = 0
  <2>1. Len(outbox'[r]) = 0
    OBVIOUS
  <2>2. Len(envelopes) = Len(ops) /\ Len(envelopes) \in Nat
    BY <1>3, <1>4
  <2>3. Len(outbox[r] \o envelopes) = Len(outbox[r]) + Len(envelopes) /\ Len(outbox[r]) \in Nat
    <3> HIDE DEF envelopes
    <3> QED BY <1>4, <1>5
  <2> HIDE DEF envelopes
  <2> QED BY <1>2, <2>1, <2>2, <2>3
<1>7. outbox[r] = <<>> /\ ops = <<>>
  BY <1>3, <1>5, <1>6
<1> QED BY <1>2, <1>7, AppliesNone

LEMMA FilePost ==
  ASSUME ReplicasInv, ReturnInv, FileInv, NEW r \in Replicas, NEW ops, Posting(r, ops)
  PROVE  FileInv'
<1>1. /\ \A m \in Replicas : m # r => doc'[m] = doc[m] /\ outbox'[m] = outbox[m] /\ kept'[m] = kept[m]
      /\ link' = link /\ down' = down /\ log' = log /\ breaks' = breaks /\ Host \in Replicas
      /\ InRoom(r) /\ kept[r] \in SoundDocs /\ \A g \in Guests : g \in Replicas /\ g # Host
  BY DEF Posting, PostAll, ReplicasInv, Copies, Posted, Replicas
<1>2. outbox[Host] # <<>> => outbox'[Host] # <<>>
  BY <1>1, PostsNone
<1>3. HostFile'
  <2>1. CASE r # Host
    BY <1>1, <2>1 DEF FileInv, HostFile
  <2>2. CASE r = Host
    <3> SUFFICES ASSUME outbox'[Host] = <<>>, NEW i \in Ids PROVE Same(kept'[Host], doc'[Host], i)
      BY DEF HostFile
    <3>1. outbox[Host] = <<>> /\ doc'[Host] = doc[Host] /\ kept'[Host] = Merge(kept[Host], doc[Host])
      BY <2>2, PostsNone
    <3>2. Same(kept[Host], doc[Host], i) /\ doc[Host] \in SoundDocs /\ kept[Host] \in SoundDocs
      BY <1>1, <2>2, <3>1 DEF FileInv, HostFile, ReplicasInv, Copies
    <3> QED BY <3>1, <3>2, MergeSame
  <2> QED BY <2>1, <2>2
<1>4. ASSUME NEW g \in Guests PROVE GuestFile(g)'
  <2>1. CASE g # r
    BY <1>1, <1>2, <2>1, FiledStill DEF FileInv
  <2>2. CASE g = r
    <3> SUFFICES ASSUME Quiet(g)', NEW story, Tale(story, log) PROVE Filed(story, g)'
      BY <1>1 DEF GuestFile
    <3>1. outbox[g] = <<>> /\ doc'[g] = doc[g] /\ kept'[g] = Merge(kept[g], doc[g])
      BY <1>1, <2>2, PostsNone DEF Quiet
    <3>2. g \in link /\ ~Awaits(g) /\ doc[g] \in SoundDocs
      BY <1>1, <2>2, NoneAwaited
    <3>3. Filed(story, g)
      <4>1. Quiet(g)
        BY <1>1, <3>1 DEF Quiet
      <4> QED BY <4>1 DEF FileInv, GuestFile
    <3>4. Sames(kept[g], doc[g]) => Sames(kept[g], doc[g])'
      <4> SUFFICES ASSUME Sames(kept[g], doc[g]), NEW i \in Ids \ Late' PROVE Same(kept'[g], doc'[g], i)
        BY DEF Sames
      <4>1. i \in Ids /\ Same(kept[g], doc[g], i)
        BY <1>1, LateStays DEF Sames
      <4> QED BY <1>1, <2>2, <3>1, <3>2, <4>1, MergeSame
    <3>5. Still(g, down[g]) => Still(g, down[g])'
      BY <1>1, <1>2 DEF Still
    <3>6. g \in link' /\ ~Awaits(g)'
      BY <1>1, <3>2 DEF Awaits
    <3> QED BY <3>2, <3>3, <3>4, <3>5, <3>6 DEF Filed
  <2> QED BY <2>1, <2>2
<1> QED BY <1>3, <1>4 DEF FileInv

\* The host serves an envelope: everybody in the room has a commit to come.
LEMMA FileServed ==
  ASSUME ReplicasInv, ReplicasInv', FileInv, NEW r \in Replicas, HostCommits(r)
  PROVE  FileInv'
<1>1. PICK e \in Envelopes, loaded \in SoundDocs, c \in Commits :
        Serving(r, e, loaded, c) /\ (Again(e, loaded, c) \/ Anew(e, loaded, c))
  BY Served
<1>2. PICK message : message = [t |-> "commit", id |-> e.id, commit |-> c]
  OBVIOUS
<1>3. /\ down' = [g \in Guests |-> IF g \in link THEN Append(down[g], message) ELSE down[g]]
      /\ link' = link /\ breaks' = breaks /\ outbox' = [outbox EXCEPT ![Host] = Without(@, e.id)]
      /\ outbox \in [Replicas -> Seq(Envelopes)] /\ doc \in [Replicas -> SoundDocs \union {None}]
      /\ kept \in [Replicas -> SoundDocs] /\ down \in [Guests -> Seq(SoundDowns)] /\ log \in Seq(Records)
      /\ Host \in Replicas /\ \A g \in Guests : g \in Replicas /\ g # Host
  BY <1>1, <1>2 DEF Serving, Broadcast, ReplicasInv, Posted, Copies, Deliveries, Recordings, Records, Replicas
<1>4. /\ doc'[Host] = kept'[Host]
      /\ \A g \in Guests : doc'[g] = doc[g] /\ kept'[g] = kept[g] /\ outbox'[g] = outbox[g]
      /\ log' = log \/ \E x \in Records : log' = Append(log, x)
  <2>1. [id |-> e.id, commit |-> c] \in Records
    BY DEF Envelopes, Records
  <2>2. CASE Again(e, loaded, c)
    BY <1>3, <2>2 DEF Again
  <2>3. CASE Anew(e, loaded, c)
    BY <1>3, <2>1, <2>3 DEF Anew
  <2> QED BY <1>1, <2>2, <2>3
<1>5. HostFile'
  BY <1>4, SameItself DEF HostFile
<1>6. PICK n \in Nat : n = Len(log)
  BY <1>3
<1>7. Late \subseteq Late' /\ Len(log') \in Nat /\ n <= Len(log')
  <2>1. Grows(log, log')
    BY <1>3, <1>4 DEF Grows
  <2> QED BY <1>3, <1>6, <2>1, LateGrows, GrowsTo
<1>8. ASSUME NEW g \in Guests PROVE GuestFile(g)'
  <2> SUFFICES ASSUME Quiet(g)', NEW more, Tale(more, log') PROVE Filed(more, g)'
    BY DEF GuestFile
  <2>1. PICK story : Tale(story, log) /\ \A k \in 0 .. n : story[k] = more[k]
    <3>1. CASE log' = log
      BY <3>1
    <3>2. CASE \E x \in Records : log' = Append(log, x)
      <4>1. PICK x \in Records : log' = Append(log, x)
        BY <3>2
      <4>2. PICK story : story = [k \in 0 .. n |-> more[k]]
        OBVIOUS
      <4>3. Tale(story, log)
        BY <1>3, <1>6, <4>1, <4>2, TalePrefix
      <4> QED BY <4>2, <4>3
    <3> QED BY <1>4, <3>1, <3>2
  <2>2. Filed(story, g)
    <3>1. Quiet(g)
      BY <1>3, <1>4 DEF Quiet
    <3> QED BY <2>1, <3>1 DEF FileInv, GuestFile
  <2>3. ASSUME NEW m \in 0 .. n, Left(story, g, m) PROVE Left(more, g, m)'
    <3>1. PICK k \in 0 .. m : Sames(kept[g], story[k])
      BY <2>3 DEF Left
    <3>2. k \in 0 .. n /\ story[k] = more[k]
      BY <2>1, <2>3, <3>1
    <3>3. PICK a, b : a = kept[g] /\ b = more[k]
      OBVIOUS
    <3>4. Sames(a, b)'
      BY <1>7, <3>1, <3>2, <3>3, SamesStill
    <3> QED BY <1>4, <3>3, <3>4 DEF Left
  <2>4. CASE g \notin link
    <3>1. Left(more, g, n)'
      BY <1>6, <2>2, <2>3, <2>4 DEF Filed
    <3>2. Left(more, g, Len(log))'
      BY <1>6, <1>7, <3>1 DEF Left
    <3> QED BY <1>3, <2>4, <3>2 DEF Filed
  <2>5. CASE g \in link /\ Awaits(g)
    <3>1. PICK d : d = down[g][1].doc
      OBVIOUS
    <3>2. Older(story, g, d, Tail(down[g]))
      BY <2>2, <2>5, <3>1 DEF Filed
    <3>3. down'[g] # <<>> /\ down'[g][1] = down[g][1] /\ Tail(down'[g]) # <<>>
      <4>1. PICK row \in Seq(SoundDowns) : row = down[g] /\ row # <<>> /\ down'[g] = Append(row, message)
        BY <1>3, <2>5 DEF Awaits
      <4>2. Append(row, message)[1] = row[1]
        BY <4>1
      <4>3. Len(Append(row, message)) = Len(row) + 1 /\ Len(row) \in Nat /\ Len(row) # 0
            /\ Append(row, message) \in Seq(SoundDowns \union {message})
        BY <4>1
      <4>4. Len(Tail(Append(row, message))) # 0
        BY <4>3
      <4> QED BY <4>1, <4>2, <4>3, <4>4
    <3>4. Awaits(g)' /\ g \in link'
      BY <1>3, <2>5, <3>3 DEF Awaits
    <3>5. d.rev \in 0 .. n /\ Left(story, g, d.rev)
      BY <1>6, <3>2 DEF Older
    <3>6. Sames(d, story[d.rev]) => Sames(d, more[d.rev])'
      <4>1. PICK b : b = story[d.rev] /\ b = more[d.rev]
        BY <2>1, <3>5
      <4> QED BY <1>7, <4>1, SamesStill
    <3>7. Sames(d, more[d.rev])' \/ Still(g, Tail(down[g]))'
      BY <1>3, <3>2, <3>3, <3>6 DEF Older, Still
    <3>8. d.rev \in 0 .. Len(log') /\ Left(more, g, d.rev)'
      BY <1>6, <1>7, <2>3, <3>5
    <3>9. Older(more, g, d, Tail(down[g]))'
      BY <3>7, <3>8 DEF Older
    <3> QED BY <3>1, <3>3, <3>4, <3>9 DEF Filed
  <2>6. CASE g \in link /\ ~Awaits(g)
    <3>1. down'[g] # <<>> /\ ~Awaits(g)'
      <4>1. PICK row \in Seq(SoundDowns) : row = down[g] /\ down'[g] = Append(row, message)
        BY <1>3, <2>6
      <4>2. Append(row, message) # <<>> /\ (row = <<>> => Append(row, message)[1] = message)
            /\ (row # <<>> => Append(row, message)[1] = row[1])
        BY <4>1
      <4>3. message.t = "commit"
        BY <1>2
      <4> QED BY <2>6, <4>1, <4>2, <4>3 DEF Awaits
    <3>2. Sames(kept[g], doc[g]) => Sames(kept[g], doc[g])'
      <4>1. PICK a, b : a = kept[g] /\ b = doc[g]
        OBVIOUS
      <4> QED BY <1>4, <1>7, <4>1, SamesStill
    <3>3. Still(g, down[g]) => Still(g, down[g])'
      BY <1>3, <3>1 DEF Still
    <3> QED BY <1>3, <2>2, <2>6, <3>1, <3>2, <3>3 DEF Filed
  <2> QED BY <2>4, <2>5, <2>6
<1> QED BY <1>5, <1>8 DEF FileInv

\* What one guest does with the host and the log left as they are.
LEMMA FileElsewhere ==
  ASSUME ReplicasInv, FileInv, NEW g \in Guests, log' = log, outbox'[Host] = outbox[Host],
         \A m \in Replicas : m # g => doc'[m] = doc[m] /\ outbox'[m] = outbox[m] /\ kept'[m] = kept[m],
         \A m \in Guests : m # g => down'[m] = down[m] /\ breaks'[m] = breaks[m] /\ (m \in link <=> m \in link'),
         GuestFile(g)'
  PROVE  FileInv'
<1>1. Host \in Replicas /\ Host # g /\ \A m \in Guests : m \in Replicas
  BY DEF Replicas
<1>2. HostFile'
  BY <1>1 DEF FileInv, HostFile
<1>3. ASSUME NEW m \in Guests PROVE GuestFile(m)'
  <2>1. CASE m = g
    BY <2>1
  <2>2. CASE m # g
    BY <1>1, <2>2, FiledStill DEF FileInv
  <2> QED BY <2>1, <2>2
<1> QED BY <1>2, <1>3 DEF FileInv

\* What it hears of a guest shows and keeps at once.
LEMMA FileHears ==
  ASSUME ReplicasInv, ReplicasInv', BookInv, ReturnInv, FileInv, NEW g \in Guests, GuestHears(g)
  PROVE  FileInv'
<1>1. /\ link' = link /\ log' = log /\ breaks' = breaks /\ kept'[g] = doc'[g] /\ outbox'[Host] = outbox[Host]
      /\ \A m \in Replicas : m # g => doc'[m] = doc[m] /\ outbox'[m] = outbox[m] /\ kept'[m] = kept[m]
      /\ \A m \in Guests : m # g => down'[m] = down[m]
      /\ g \in Replicas /\ Host \in Replicas /\ g # Host
  BY DEF GuestHears, ReplicasInv, Copies, Posted, Deliveries, Replicas
<1>2. PICK story : Keeps(story) /\ Sits(story, g)
  BY DEF ReturnInv
<1>3. down[g] # <<>> /\ down[g][1].t = "commit" /\ down[g] \in Seq(SoundDowns) /\ down'[g] \in Seq(SoundDowns)
  <2>1. down[g] \in Seq(SoundDowns) /\ down'[g] \in Seq(SoundDowns)
    BY DEF ReplicasInv, Deliveries
  <2>2. Head(down[g]) = down[g][1]
    BY <2>1 DEF GuestHears
  <2> QED BY <2>1, <2>2 DEF GuestHears
<1>4. g \in link
  BY <1>3 DEF ReplicasInv, Seated
<1>5. Starts(story, g, doc[g], down[g])
  BY <1>2, <1>3, <1>4 DEF Sits
<1>6. Starts(story, g, doc[g], down[g])'
  BY <1>2, <1>5, HearsStarts DEF Keeps
<1>7. ~Awaits(g)'
  <2>1. PICK row, rec, heard : row = down'[g] /\ rec = log' /\ heard = doc'[g].rev
    OBVIOUS
  <2>2. Feeds(row, rec, heard)
    BY <1>6, <2>1 DEF Starts
  <2>3. row # <<>> => row[1].t = "commit"
    BY <1>3, <2>1, <2>2, FedCommits
  <2> QED BY <2>1, <2>3 DEF Awaits
<1>8. GuestFile(g)'
  <2>1. Sames(kept[g], doc[g])'
    BY <1>1, SameItself DEF Sames
  <2> QED BY <1>1, <1>4, <1>7, <2>1 DEF GuestFile, Filed
<1> QED BY <1>1, <1>8, FileElsewhere

\* A guest that has nothing to do again takes the snapshot, and its older file adds nothing.
LEMMA FileAdopts ==
  ASSUME ReplicasInv, ReplicasInv', ReturnInv, FileInv, NEW g \in Guests, GuestAdopts(g)
  PROVE  FileInv'
<1>1. /\ link' = link /\ log' = log /\ breaks' = breaks /\ outbox' = outbox
      /\ \A m \in Replicas : m # g => doc'[m] = doc[m] /\ kept'[m] = kept[m]
      /\ \A m \in Guests : m # g => down'[m] = down[m]
      /\ g \in Replicas /\ Host \in Replicas /\ g # Host /\ log \in Seq(Records) /\ kept[g] \in SoundDocs
  BY DEF GuestAdopts, ReplicasInv, Copies, Deliveries, Recordings, Records, Replicas
<1>2. /\ down[g] # <<>> /\ down[g] \in Seq(SoundDowns) /\ Head(down[g]) = down[g][1] /\ down[g][1].t = "doc"
      /\ down'[g] = Tail(down[g]) /\ Tail(down[g]) \in Seq(SoundDowns)
  <2>1. down[g] \in Seq(SoundDowns) /\ down'[g] = Tail(down[g]) /\ down[g] # <<>>
    BY DEF GuestAdopts, ReplicasInv, Deliveries
  <2>2. Head(down[g]) = down[g][1] /\ Tail(down[g]) \in Seq(SoundDowns)
    BY <2>1
  <2> QED BY <2>1, <2>2 DEF GuestAdopts
<1>3. Awaits(g) /\ g \in link
  BY <1>2 DEF Awaits, ReplicasInv, Seated
<1>4. PICK d : d = down[g][1].doc
  OBVIOUS
<1>5. d \in SoundDocs /\ ~Awaits(g)'
  <2>1. PICK story : Sits(story, g)
    BY DEF ReturnInv
  <2>2. Starts(story, g, doc[g], down[g]) => FALSE
    <3>1. Starts(story, g, doc[g], down[g]) => down[g][1].t = "commit"
      BY <1>2, FedCommits DEF Starts
    <3> QED BY <1>2, <3>1
  <2>3. Starts(story, g, d, Tail(down[g]))
    BY <1>3, <1>4, <2>1, <2>2 DEF Sits
  <2>4. Tail(down[g]) # <<>> => Tail(down[g])[1].t = "commit"
    BY <1>2, <2>3, FedCommits DEF Starts
  <2> QED BY <1>2, <2>3, <2>4 DEF Awaits, Starts
<1>6. GuestFile(g)'
  <2> SUFFICES ASSUME Quiet(g)', NEW story, Tale(story, log)
               PROVE  (Sames(kept[g], doc[g]) \/ Still(g, down[g]))'
    BY <1>1, <1>3, <1>5 DEF GuestFile, Filed
  <2>1. Quiet(g) /\ outbox[g] = <<>>
    BY <1>1 DEF Quiet
  <2>2. Older(story, g, d, Tail(down[g]))
    BY <1>3, <1>4, <2>1 DEF FileInv, GuestFile, Filed
  <2>3. doc'[g] = d /\ kept'[g] = Merge(kept[g], d)
    <3>1. OpsOf(<<>>) = <<>>
      BY DEF OpsOf
    <3>2. doc'[g] = ApplyAll(d, <<>>, Clock(g)) /\ kept'[g] = Merge(kept[g], doc'[g])
      BY <1>1, <1>2, <1>4, <2>1, <3>1 DEF GuestAdopts, ReplicasInv, Copies
    <3> QED BY <3>2, AppliesNone
  <2>4. CASE Still(g, Tail(down[g]))
    BY <1>1, <1>2, <2>4 DEF Still
  <2>5. CASE Sames(d, story[d.rev])
    <3>0. PICK m \in 0 .. Len(log) : m = d.rev /\ Left(story, g, m)
      BY <2>2 DEF Older
    <3>1. PICK k \in 0 .. m : m = d.rev /\ Sames(kept[g], story[k])
      BY <3>0 DEF Left
    <3>2. PICK s \in SoundDocs, z \in SoundDocs : s = story[k] /\ z = story[m] /\ Sums(story, log, k)
      <4>1. k \in 0 .. Len(log) /\ m \in 0 .. Len(log)
        BY <1>1, <3>1
      <4> QED BY <4>1 DEF Tale
    <3>3. ASSUME NEW i \in Ids \ Late PROVE Same(Merge(kept[g], d), d, i)
      <4>1. i \in Ids /\ i \notin Late /\ Same(kept[g], s, i) /\ Same(d, z, i) /\ Past(s, i)
        BY <2>5, <3>1, <3>2 DEF Sames, Sums
      <4>2. Since(s, z, i)
        BY <1>1, <3>1, <3>2, <4>1, SinceStory
      <4> QED BY <1>1, <1>5, <4>1, <4>2, MergeLater
    <3>4. Late' = Late
      BY <1>1, LateStays
    <3> QED BY <2>3, <3>3, <3>4 DEF Sames
  <2> QED BY <2>2, <2>4, <2>5 DEF Older
<1> QED BY <1>1, <1>6, FileElsewhere

\* The file of a guest that leaves with everything answered is a document of the story.
LEMMA FileBreaks ==
  ASSUME ReplicasInv, StoryInv, ReturnInv, FileInv, NEW g \in Guests, LinkBreaks(g)
  PROVE  FileInv'
<1>1. /\ log' = log /\ link' = link \ {g} /\ outbox' = outbox /\ kept' = kept /\ breaks'[g] = breaks[g] + 1
      /\ \A m \in Replicas : m # g => doc'[m] = doc[m]
      /\ \A m \in Guests : m # g => down'[m] = down[m] /\ breaks'[m] = breaks[m] /\ (m \in link <=> m \in link')
      /\ g \in Replicas /\ InRoom(g) /\ breaks[g] \in Nat /\ log \in Seq(Records)
  BY DEF LinkBreaks, ReplicasInv, Counts, Copies, Deliveries, Recordings, Records, Replicas
<1>2. g \in link /\ ~Awaits(g)
  BY <1>1, NoneAwaited
<1>3. GuestFile(g)'
  <2> SUFFICES ASSUME Quiet(g)', NEW story, Tale(story, log) PROVE Left(story, g, Len(log))'
    BY <1>1 DEF GuestFile, Filed
  <2>1. Quiet(g) /\ Steady(g) /\ breaks[g] = 0 /\ outbox[g] = <<>>
    BY <1>1 DEF Quiet, Steady
  <2>2. Sames(kept[g], doc[g])
    BY <1>2, <2>1 DEF FileInv, GuestFile, Filed, Still
  <2>3. PICK other : Tells(other) /\ Hears(other, g)
    BY <1>1 DEF StoryInv
  <2>4. PICK k, s : k = doc[g].rev /\ s = story[k] /\ k \in 0 .. Len(log) /\ s = other[k]
    <3>1. doc[g].rev \in 0 .. Len(log)
      BY <2>1, <2>3 DEF Hears, Follows
    <3> QED BY <1>1, <2>3, <3>1, TaleOnce DEF Tells
  <2>5. ASSUME NEW i \in Ids PROVE Same(doc[g], s, i)
    <3>1. Near(doc[g], s, <<>>, log, Bound, i)
      BY <2>1, <2>3, <2>4 DEF Hears, Follows
    <3>2. Open(<<>>, doc[g].ops) = {}
      BY DEF Open
    <3> QED BY <3>1, <3>2, MatchSame DEF Near
  <2>6. Sames(kept[g], s)
    BY <2>2, <2>5, SameBoth DEF Sames
  <2>7. Late' = Late
    BY <1>1, LateStays
  <2>8. Sames(kept[g], story[k])'
    BY <1>1, <2>4, <2>6, <2>7 DEF Sames
  <2>9. k \in 0 .. Len(log)'
    BY <1>1, <2>4
  <2> QED BY <2>8, <2>9 DEF Left
<1> QED BY <1>1, <1>3, FileElsewhere

\* The snapshot is the last document of the story, or the host has an answer to come.
LEMMA FileJoins ==
  ASSUME ReplicasInv, StoryInv, FileInv, NEW g \in Guests, GuestJoins(g)
  PROVE  FileInv'
<1>1. /\ log' = log /\ link' = link \union {g} /\ outbox' = outbox /\ kept' = kept /\ doc' = doc /\ breaks' = breaks
      /\ \A m \in Guests : m # g => down'[m] = down[m] /\ (m \in link <=> m \in link')
      /\ g \in Replicas /\ Host \in Replicas /\ g \notin link /\ breaks[g] \in Nat /\ log \in Seq(Records)
      /\ down'[g] = <<[t |-> "doc", doc |-> doc[Host]]>>
  BY DEF GuestJoins, ReplicasInv, Counts, Deliveries, Recordings, Records, Replicas
<1>2. PICK messages : messages = down'[g]
  OBVIOUS
<1>3. messages # <<>> /\ messages[1].t = "doc" /\ messages[1].doc = doc[Host] /\ Tail(messages) = <<>>
  BY <1>1, <1>2
<1>4. Awaits(g)' /\ g \in link'
  BY <1>1, <1>2, <1>3 DEF Awaits
<1>5. GuestFile(g)'
  <2> SUFFICES ASSUME Quiet(g)', NEW story, Tale(story, log) PROVE Older(story, g, doc[Host], <<>>)'
    BY <1>1, <1>2, <1>3, <1>4 DEF GuestFile, Filed
  <2>1. Quiet(g)
    BY <1>1 DEF Quiet
  <2>2. Left(story, g, Len(log))
    BY <1>1, <2>1 DEF FileInv, GuestFile, Filed
  <2>3. PICK other : Tells(other) /\ Hears(other, Host) /\ Hears(other, g)
    BY <1>1 DEF StoryInv
  <2>4. PICK n, s : n = Len(log) /\ n = doc[Host].rev /\ s = story[n] /\ s = other[n] /\ n \in 0 .. n
    <3>1. Len(log) \in Nat /\ Len(log) \in 0 .. Len(log) /\ doc[Host].rev = Len(log)
      BY <1>1, <2>3 DEF Tells
    <3> QED BY <1>1, <2>3, <3>1, TaleOnce DEF Tells
  <2>5. breaks[g] = 1
    BY <1>1, <2>1, <2>3 DEF Hears, Steady, Fed, Quiet
  <2>6. Late' = Late
    BY <1>1, LateStays
  <2>7. ASSUME outbox[Host] = <<>> PROVE Sames(doc[Host], s)
    <3> SUFFICES ASSUME NEW i \in Ids PROVE Same(doc[Host], s, i)
      BY DEF Sames
    <3>1. Near(doc[Host], s, <<>>, log, Bound, i)
      BY <2>3, <2>4, <2>7 DEF Hears, Follows, Steady
    <3>2. Open(<<>>, doc[Host].ops) = {}
      BY DEF Open
    <3> QED BY <3>1, <3>2, MatchSame DEF Near
  <2>8. (Sames(doc[Host], s) \/ Still(g, <<>>))'
    BY <1>1, <2>5, <2>6, <2>7 DEF Sames, Still
  <2>9. Left(story, g, n)'
    BY <1>1, <2>2, <2>4, <2>6 DEF Left, Sames
  <2> QED BY <1>1, <2>4, <2>8, <2>9 DEF Older
<1> QED BY <1>1, <1>5, FileElsewhere

LEMMA FileStutter ==
  ASSUME FileInv, UNCHANGED vars
  PROVE  FileInv'
<1>1. /\ log' = log /\ kept' = kept /\ doc' = doc /\ down' = down /\ link' = link /\ outbox' = outbox
      /\ breaks' = breaks
  BY DEF vars
<1>2. HostFile'
  BY <1>1 DEF FileInv, HostFile
<1>3. ASSUME NEW g \in Guests PROVE GuestFile(g)'
  BY <1>1, FiledStill DEF FileInv
<1> QED BY <1>2, <1>3 DEF FileInv

LEMMA FileBegin == Init => FileInv
<1> SUFFICES ASSUME Init PROVE FileInv
  OBVIOUS
<1>1. /\ kept = doc /\ link = Guests /\ down = [g \in Guests |-> <<>>]
  BY DEF Init
<1>2. HostFile
  BY <1>1, SameItself DEF HostFile
<1>3. ASSUME NEW g \in Guests PROVE GuestFile(g)
  <2>1. g \in link /\ ~Awaits(g)
    BY <1>1 DEF Awaits
  <2>2. Sames(kept[g], doc[g])
    BY <1>1, SameItself DEF Sames
  <2> QED BY <2>1, <2>2 DEF GuestFile, Filed
<1> QED BY <1>2, <1>3 DEF FileInv

LEMMA FileStep ==
  ReplicasInv /\ ReplicasInv' /\ BookInv /\ StoryInv /\ ReturnInv /\ FileInv /\ [Next]_vars => FileInv'
<1> SUFFICES ASSUME ReplicasInv, ReplicasInv', BookInv, StoryInv, ReturnInv, FileInv, [Next]_vars PROVE FileInv'
  OBVIOUS
<1>1. ASSUME NEW r \in Replicas, Posts(r) PROVE FileInv'
  BY <1>1, PostsArePostings, FilePost
<1>2. ASSUME NEW r \in Replicas, HostCommits(r) PROVE FileInv'
  BY <1>2, FileServed
<1>3. ASSUME NEW g \in Guests, GuestHears(g) PROVE FileInv'
  BY <1>3, FileHears
<1>4. ASSUME NEW g \in Guests, GuestAdopts(g) PROVE FileInv'
  BY <1>4, FileAdopts
<1>5. ASSUME NEW g \in Guests, LinkBreaks(g) PROVE FileInv'
  BY <1>5, FileBreaks
<1>6. ASSUME NEW g \in Guests, GuestJoins(g) PROVE FileInv'
  BY <1>6, FileJoins
<1>7. CASE UNCHANGED vars
  BY <1>7, FileStutter
<1> QED BY <1>1, <1>2, <1>3, <1>4, <1>5, <1>6, <1>7 DEF Next

LEMMA FileAlways == Spec => []FileInv
<1>1. Init => FileInv
  BY FileBegin
<1>2. ReplicasInv /\ ReplicasInv' /\ BookInv /\ StoryInv /\ ReturnInv /\ FileInv /\ [Next]_vars => FileInv'
  BY FileStep
<1> QED BY <1>1, <1>2, ReplicasAlways, BookAlways, StoryAlways, ReturnAlways, PTL DEF Spec

\* What a machine shows is what it keeps when all is answered (persistReviewDoc in
\* hooks/use-co-review.ts and mergeReviewDoc of lib/review.ts): the host always, and a
\* guest that returned once at most, whose old file is merged with a snapshot from
\* later, but for comments whose add was committed after their deletion.
THEOREM TheFilesAgree == Spec => []KeptIsShown
<1>1. StoryInv /\ FileInv => KeptIsShown
  <2> SUFFICES ASSUME StoryInv, FileInv, Settled, NEW r \in Replicas,
                      r = Host \/ (breaks[r] <= 1 /\ Ahead[r] <= Ahead[Host]), NEW i \in Ids
               PROVE  Says(kept[r], i) = Says(doc[r], i) \/ (r # Host /\ AddedLate(i))
    BY DEF KeptIsShown
  <2>1. CASE r = Host
    BY <2>1, SameSays DEF FileInv, HostFile, Settled
  <2>2. CASE r # Host
    <3>1. r \in Guests /\ Quiet(r) /\ r \in link /\ ~Awaits(r) /\ down[r] = <<>> /\ outbox[Host] = <<>>
      BY <2>2 DEF Settled, Quiet, Awaits, Replicas
    <3>2. PICK story : Tale(story, log)
      BY DEF StoryInv, Tells
    <3>3. Sames(kept[r], doc[r])
      BY <3>1, <3>2 DEF FileInv, GuestFile, Filed, Still
    <3>4. i \in Late => AddedLate(i)
      BY DEF Late
    <3>5. i \notin Late => Same(kept[r], doc[r], i)
      BY <3>3 DEF Sames
    <3> QED BY <2>2, <3>4, <3>5, SameSays
  <2> QED BY <2>1, <2>2
<1> QED BY <1>1, StoryAlways, FileAlways, PTL
===============================================================================
