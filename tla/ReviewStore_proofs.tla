------------------------- MODULE ReviewStore_proofs -------------------------
(* What the store attested stays, no failing write forgets an edit, and an
   empty document replaces nothing unread: for any number of reviews, notes and
   chained flushes.  The first two need a first render that waits for the
   hydration (BootGate), the first and the last an index that can be read. *)
EXTENDS ReviewStore, FiniteSetTheorems, TLAPS

Full == {k \in Keys : docs[k] # None}

\* What a pass holds at each of its places.
PassInv ==
  /\ pass.at \in {"idle", "dir", "pick"} <=> pass.key = None
  /\ pass.key # None => pass.doc # None /\ pass.key \in Full \ pass.keys
  /\ pass.at = "idle" => pass = Idle
  /\ pass.at # "idle" => flushes # <<>> /\ indexReady
  /\ dirty \subseteq Full /\ pass.keys \subseteq Full

\* What a pass has written is what the file says and what the index lists.
WrittenInv ==
  \A w \in pass.written :
    /\ w[2] = files[w[1]] /\ index[w[1]] # None
    /\ w[1] \in Full \ pass.keys /\ w[1] # pass.key

\* The index is read once, before any pass, and its entries have their file.
IndexInv ==
  /\ indexReady <=> boot \in {"bodies", "done"}
  /\ \A k \in Keys : index[k] # None => files[k] # None
  /\ \A k \in Keys : listed[k] # None => files[k] # None

\* An index that could be read lists at least what the file of it does.
ListedInv == indexReady => \A k \in Keys : listed[k] # None => index[k] # None

\* What is about to be written over an indexed file with nothing was read back.
GuardInv ==
  /\ pass.at = "bak" => pass.key \in readBack
  /\ pass.at = "write" /\ NoteIn(pass.doc) = {} /\ index[pass.key] # None =>
       pass.key \in readBack

\* Before the first render nothing is edited and nothing is flushed, so what
\* hydration installs is what the file says.
QuietBoot ==
  /\ boot # "done" =>
       /\ dirty = {} /\ flushes = <<>> /\ pass = Idle /\ ended = {} /\ ~timer
       /\ \A k \in Keys : docs[k] \in {None, files[k]} /\ persisted[k] = docs[k]
  /\ boot \in {"cold", "index"} => \A k \in Keys : docs[k] = None /\ body[k].st = "off"
  /\ boot = "done" => \A k \in Keys : body[k].st = "off"
  /\ \A k \in Keys : body[k].st = "read" => body[k].doc \in {None, files[k]}

\* A document picked by a pass is the one on screen, or has been edited since.
PickedInv == pass.key # None => pass.doc = docs[pass.key] \/ pass.key \in dirty

\* Every indexed file the cloud never took is on screen when hydration is done,
\* and from there on file, picked document and screen only gain notes.
GrowsInv ==
  /\ boot = "bodies" => index = listed
  /\ \A k \in Keys \ clouded :
       /\ k \notin evicted
       /\ body[k].st = "read" => body[k].doc = files[k]
       /\ indexReady /\ index[k] # None /\ body[k].st = "off" =>
            docs[k] # None /\ NoteIn(files[k]) \subseteq NoteIn(docs[k])
       /\ pass.key = k =>
            /\ NoteIn(pass.doc) \subseteq NoteIn(docs[k])
            /\ index[k] # None => NoteIn(files[k]) \subseteq NoteIn(pass.doc)
       /\ body[k].st # "off" => index[k] # None
       /\ persisted[k] # None => listed[k] # None /\ NoteIn(persisted[k]) \subseteq NoteIn(files[k])

\* Always inductive; UnsavedIsQueued and SavedNotesSurvive need the boot gate too.
BaseInv == TypeOK /\ PassInv /\ WrittenInv /\ IndexInv
GatedInv == QuietBoot /\ PickedInv /\ UnsavedIsQueued
KeptInv == ListedInv /\ GrowsInv /\ SavedNotesSurvive

-----------------------------------------------------------------------------
USE StoreAssumption
USE DEF MaybeDocs, Idle, PassStates, diskVars, memVars, bootVars, flushVars, histVars

LEMMA SizeIsNat == \A d \in Docs : Size(d) \in Nat
BY FS_Subset, FS_CardinalityType DEF Size, Docs

LEMMA NotesAreNotes == \A d \in MaybeDocs : NoteIn(d) \in SUBSET Notes
BY DEF NoteIn, Docs

LEMMA ShellIsDoc == Shell \in Docs /\ NoteIn(Shell) = {}
BY DEF Shell, Docs, NoteIn

LEMMA CurrentIsDoc == ASSUME TypeOK, NEW k \in Keys
  PROVE Current(k) \in Docs /\ NoteIn(docs[k]) \subseteq NoteIn(Current(k))
BY ShellIsDoc DEF Current, TypeOK, NoteIn

LEMMA AppendedIsNotEmpty == ASSUME TypeOK, NEW x \in Keys \union {None}
  PROVE Append(flushes, x) # <<>>
<1>1. Len(Append(flushes, x)) > 0
  BY DEF TypeOK
<1>2. Len(<<>>) = 0
  OBVIOUS
<1>3. ASSUME Append(flushes, x) = <<>> PROVE FALSE
  <2>1. Len(Append(flushes, x)) = Len(<<>>)
    BY <1>3, Zenon
  <2> HIDE <1>3
  <2> QED BY <1>1, <1>2, <2>1
<1> QED BY <1>3, Zenon

LEMMA AddedIsDoc == ASSUME TypeOK, NEW k \in Keys, NEW n \in Notes,
    NEW d, d = [Current(k) EXCEPT !.live = @ \union {n}]
  PROVE d \in Docs /\ NoteIn(d) = NoteIn(Current(k)) \union {n}
BY CurrentIsDoc DEF NoteIn, Docs

LEMMA DeletedIsDoc == ASSUME TypeOK, NEW k \in Keys, NEW n \in Current(k).live,
    NEW d, d = [live |-> Current(k).live \ {n}, gone |-> Current(k).gone \union {n}]
  PROVE d \in Docs /\ NoteIn(d) = NoteIn(Current(k))
<1>1. Current(k) \in Docs /\ Current(k) # None
  BY CurrentIsDoc
<1>2. n \in Notes /\ d \in Docs
  BY <1>1 DEF Docs
<1> QED BY <1>1, <1>2 DEF NoteIn

LEMMA WrittenFacts ==
  ASSUME TypeOK, WrittenInv, NEW k \in WrittenKeys
  PROVE  k \in Keys /\ WrittenDoc(k) = files[k] /\ WrittenDoc(k) \in Docs /\ index[k] # None
<1>1. PICK w \in pass.written : w[1] = k
  BY DEF WrittenKeys
<1>2. (CHOOSE v \in pass.written : v[1] = k) \in pass.written
      /\ (CHOOSE v \in pass.written : v[1] = k)[1] = k
  BY <1>1
<1>3. pass.written \subseteq Keys \X Docs
  BY DEF TypeOK
<1> QED BY <1>2, <1>3 DEF WrittenDoc, WrittenInv

DiskOK ==
  /\ files \in [Keys -> MaybeDocs] /\ bak \in [Keys -> MaybeDocs]
  /\ legacy \in [Keys -> MaybeDocs] /\ evicted \in SUBSET Keys
  /\ listed \in [Keys -> Nat \union {None}]
MemoryOK ==
  /\ index \in [Keys -> Nat \union {None}]
  /\ docs \in [Keys -> MaybeDocs] /\ persisted \in [Keys -> MaybeDocs]
  /\ dirty \in SUBSET Keys
  /\ indexReady \in BOOLEAN /\ dirEnsured \in BOOLEAN /\ timer \in BOOLEAN
BootOK ==
  /\ boot \in {"cold", "index", "bodies", "done"}
  /\ body \in [Keys -> [st : {"off", "asked", "read"}, doc : MaybeDocs]]
FlushOK ==
  /\ flushes \in Seq(Keys \union {None}) /\ ended \in SUBSET Keys
  /\ pass \in [at : PassStates, keys : SUBSET Keys, key : Keys \union {None},
               doc : MaybeDocs, old : MaybeDocs, written : SUBSET (Keys \X Docs)]
HistoryOK ==
  /\ used \in SUBSET Notes /\ readBack \in SUBSET Keys /\ clouded \in SUBSET Keys
  /\ saved \in [Keys -> SUBSET Notes] /\ session \in [Keys -> SUBSET Notes]

Edited(k, d) ==
  /\ Rendered /\ docs' = [docs EXCEPT ![k] = d] /\ dirty' = dirty \union {k} /\ timer' = TRUE
  /\ NoteIn(docs[k]) \subseteq NoteIn(d)
  /\ used' \in SUBSET Notes /\ session' \in [Keys -> SUBSET Notes]
/\ UNCHANGED <<persisted, index, indexReady, dirEnsured, diskVars, bootVars, flushVars, saved,
      readBack, clouded>>

LEMMA EditsWrite == ASSUME TypeOK, Edits PROVE \E k \in Keys, d \in Docs : Edited(k, d)
<1>1. ASSUME NEW k \in Keys, Opens(k) PROVE Edited(k, Shell) /\ Shell \in Docs
  BY <1>1, ShellIsDoc DEF Opens, Put, Edited, TypeOK, NoteIn
<1>2. ASSUME NEW k \in Keys, NEW n \in Notes, AddNote(k, n) PROVE \E d \in Docs : Edited(k, d)
  <2> DEFINE d == [Current(k) EXCEPT !.live = @ \union {n}]
  <2>1. d \in Docs /\ NoteIn(docs[k]) \subseteq NoteIn(d) /\ NoteIn(d) \subseteq Notes
    BY AddedIsDoc, CurrentIsDoc, NotesAreNotes
  <2> HIDE DEF d
  <2> QED BY <1>2, <2>1 DEF AddNote, Writes, Put, Edited, TypeOK, d
<1>3. ASSUME NEW k \in Keys, NEW n \in Notes, DeleteNote(k, n) PROVE \E d \in Docs : Edited(k, d)
  <2> DEFINE d == [live |-> Current(k).live \ {n}, gone |-> Current(k).gone \union {n}]
  <2>1. d \in Docs /\ NoteIn(docs[k]) \subseteq NoteIn(d) /\ NoteIn(d) \subseteq Notes
    BY <1>3, DeletedIsDoc, CurrentIsDoc, NotesAreNotes DEF DeleteNote
  <2> HIDE DEF d
  <2> QED BY <1>3, <2>1 DEF DeleteNote, Writes, Put, Edited, TypeOK, d
<1> QED BY <1>1, <1>2, <1>3 DEF Edits

(* TypeOK, by the places the variables belong to; WrittenFacts types what a pass wrote. *)
LEMMA DiskOKStep == ASSUME BaseInv, [Next]_vars PROVE DiskOK'
<1> DEFINE Goal == DiskOK'
<1> USE DEF BaseInv, TypeOK, PassInv, DiskOK
<1>1. ASSUME WriteDoc PROVE Goal
  BY <1>1 DEF WriteDoc, NextKey
<1>2. ASSUME Backup PROVE Goal
  BY <1>2 DEF Backup
<1>3. ASSUME WriteIndex PROVE Goal
  BY <1>3 DEF WriteIndex, Finished
<1>4. ASSUME HydrateEnds PROVE Goal
  BY <1>4 DEF HydrateEnds, Migrated
<1>5. ASSUME NEW k \in Keys, Evict(k) PROVE Goal
  BY <1>5 DEF Evict
<1>6. ASSUME UNCHANGED <<files, bak, legacy, evicted, listed>> PROVE Goal
  BY <1>6
<1> QED BY <1>1, <1>2, <1>3, <1>4, <1>5, <1>6, EditsWrite DEF Next, Flush, Hydrate, vars, Edited,
    Persist, Attest, TimerFires, PageHides, PassReturns, PassBegins, EnsureDir, EnsureDirFails,
    PickKey, GuardDefers, GuardReads, WriteDocFails, PassEnds, WriteIndexFails, HydrateBegins,
    HydrateIndex, ReadBody, InstallBody, Restarts, Put, Writes, Finished

LEMMA MemoryOKStep == ASSUME BaseInv, [Next]_vars PROVE MemoryOK'
<1> DEFINE Goal == MemoryOK'
<1> USE DEF BaseInv, TypeOK, PassInv, MemoryOK
<1>1. ASSUME NEW k \in Keys, NEW d \in Docs, Edited(k, d) PROVE Goal
  BY <1>1 DEF Edited
<1>2. ASSUME TimerFires PROVE Goal
  BY <1>2 DEF TimerFires
<1>3. ASSUME PassReturns PROVE Goal
  BY <1>3 DEF PassReturns, Finished
<1>4. ASSUME PassBegins PROVE Goal
  BY <1>4 DEF PassBegins, Passing
<1>5. ASSUME EnsureDir PROVE Goal
  BY <1>5 DEF EnsureDir
<1>6. ASSUME EnsureDirFails PROVE Goal
  BY <1>6 DEF EnsureDirFails, Finished
<1>7. ASSUME GuardDefers PROVE Goal
  BY <1>7 DEF GuardDefers, NextKey
<1>8. ASSUME WriteDoc PROVE Goal
  BY <1>8, SizeIsNat DEF WriteDoc, NextKey
<1>9. ASSUME WriteDocFails PROVE Goal
  BY <1>9 DEF WriteDocFails, NextKey
<1>10. ASSUME WriteIndex PROVE Goal
  BY <1>10, WrittenFacts DEF WriteIndex, Finished
<1>11. ASSUME WriteIndexFails PROVE Goal
  BY <1>11, WrittenFacts DEF WriteIndexFails, Finished, WrittenKeys
<1>12. ASSUME HydrateIndex PROVE Goal
  BY <1>12 DEF HydrateIndex
<1>13. ASSUME NEW k \in Keys, InstallBody(k) PROVE Goal
  BY <1>13 DEF InstallBody
<1>14. ASSUME HydrateEnds PROVE Goal
  BY <1>14 DEF HydrateEnds, Migrated
<1>15. ASSUME Restarts PROVE Goal
  BY <1>15 DEF Restarts
<1>16. ASSUME UNCHANGED <<index, docs, persisted, dirty, indexReady, dirEnsured, timer>> PROVE Goal
  BY <1>16
<1> QED BY <1>1, <1>2, <1>3, <1>4, <1>5, <1>6, <1>7, <1>8, <1>9, <1>10, <1>11, <1>12, <1>13,
    <1>14, <1>15, <1>16, EditsWrite DEF Next, Flush, Hydrate, vars, Persist, Attest, PageHides,
    PickKey, GuardReads, Backup, PassEnds, HydrateBegins, ReadBody, Evict, Put, Writes, Finished

LEMMA BootOKStep == ASSUME BaseInv, [Next]_vars PROVE BootOK'
<1> DEFINE Goal == BootOK'
<1> USE DEF BaseInv, TypeOK, PassInv, BootOK
<1>1. ASSUME HydrateBegins PROVE Goal
  BY <1>1 DEF HydrateBegins
<1>2. ASSUME HydrateIndex PROVE Goal
  BY <1>2 DEF HydrateIndex
<1>3. ASSUME NEW k \in Keys, ReadBody(k) PROVE Goal
  BY <1>3 DEF ReadBody
<1>4. ASSUME NEW k \in Keys, InstallBody(k) PROVE Goal
  BY <1>4 DEF InstallBody
<1>5. ASSUME HydrateEnds PROVE Goal
  BY <1>5 DEF HydrateEnds, Migrated
<1>6. ASSUME Restarts PROVE Goal
  BY <1>6 DEF Restarts
<1>7. ASSUME UNCHANGED <<boot, body>> PROVE Goal
  BY <1>7
<1> QED BY <1>1, <1>2, <1>3, <1>4, <1>5, <1>6, <1>7, EditsWrite DEF Next, Flush, Hydrate, vars,
    Edited, Persist, Attest, TimerFires, PageHides, PassReturns, PassBegins, EnsureDir,
    EnsureDirFails, PickKey, GuardDefers, GuardReads, Backup, WriteDoc, WriteDocFails, PassEnds,
    WriteIndex, WriteIndexFails, Evict, Put, Writes, Finished

LEMMA FlushOKStep == ASSUME BaseInv, [Next]_vars PROVE FlushOK'
<1> DEFINE Goal == FlushOK'
<1> USE DEF BaseInv, TypeOK, PassInv, FlushOK
<1>1. ASSUME NEW k \in Keys, Persist(k) PROVE Goal
  BY <1>1 DEF Persist
<1>2. ASSUME NEW k \in Keys, Attest(k) PROVE Goal
  BY <1>2 DEF Attest, IsSaved
<1>3. ASSUME TimerFires PROVE Goal
  BY <1>3 DEF TimerFires
<1>4. ASSUME PageHides PROVE Goal
  BY <1>4 DEF PageHides
<1>5. ASSUME PassReturns PROVE Goal
  BY <1>5 DEF PassReturns, Finished
<1>6. ASSUME PassBegins PROVE Goal
  BY <1>6 DEF PassBegins, Passing
<1>7. ASSUME EnsureDir PROVE Goal
  BY <1>7 DEF EnsureDir
<1>8. ASSUME EnsureDirFails PROVE Goal
  BY <1>8 DEF EnsureDirFails, Finished
<1>9. ASSUME NEW k \in Keys, PickKey(k) PROVE Goal
  BY <1>9 DEF PickKey
<1>10. ASSUME GuardDefers PROVE Goal
  BY <1>10 DEF GuardDefers, NextKey
<1>11. ASSUME GuardReads PROVE Goal
  BY <1>11 DEF GuardReads
<1>12. ASSUME Backup PROVE Goal
  BY <1>12 DEF Backup
<1>13. ASSUME WriteDoc PROVE Goal
  <2>1. pass.key \in Keys /\ pass.doc \in Docs
    BY <1>13 DEF WriteDoc
  <2>2. UNCHANGED <<flushes, ended>>
    BY <1>13 DEF WriteDoc
  <2>3. pass' = [at |-> "pick", keys |-> pass.keys, key |-> None, doc |-> None, old |-> None,
                 written |-> pass.written \union {<<pass.key, pass.doc>>}]
    BY <1>13 DEF WriteDoc, NextKey
  <2> QED BY <2>1, <2>2, <2>3
<1>14. ASSUME WriteDocFails PROVE Goal
  BY <1>14 DEF WriteDocFails, NextKey
<1>15. ASSUME PassEnds PROVE Goal
  BY <1>15 DEF PassEnds, Finished
<1>16. ASSUME WriteIndex PROVE Goal
  BY <1>16 DEF WriteIndex, Finished
<1>17. ASSUME WriteIndexFails PROVE Goal
  BY <1>17 DEF WriteIndexFails, Finished, WrittenKeys
<1>18. ASSUME Restarts PROVE Goal
  BY <1>18 DEF Restarts
<1>19. ASSUME UNCHANGED <<flushes, ended, pass>> PROVE Goal
  BY <1>19
<1> QED BY <1>1, <1>2, <1>3, <1>4, <1>5, <1>6, <1>7, <1>8, <1>9, <1>10, <1>11, <1>12, <1>13,
    <1>14, <1>15, <1>16, <1>17, <1>18, <1>19, EditsWrite DEF Next, Flush, Hydrate, vars, Edited,
    HydrateBegins, HydrateIndex, ReadBody, InstallBody, HydrateEnds, Evict, Put, Writes, Finished

LEMMA HistoryOKStep == ASSUME BaseInv, [Next]_vars PROVE HistoryOK'
<1> DEFINE Goal == HistoryOK'
<1> USE DEF BaseInv, TypeOK, PassInv, HistoryOK
<1>1. ASSUME NEW k \in Keys, NEW d \in Docs, Edited(k, d) PROVE Goal
  BY <1>1 DEF Edited
<1>2. ASSUME NEW k \in Keys, Attest(k) PROVE Goal
  BY <1>2, NotesAreNotes DEF Attest, IsSaved
<1>3. ASSUME GuardReads PROVE Goal
  BY <1>3 DEF GuardReads
<1>4. ASSUME WriteDoc PROVE Goal
  BY <1>4 DEF WriteDoc, NextKey
<1>5. ASSUME NEW k \in Keys, InstallBody(k) PROVE Goal
  BY <1>5 DEF InstallBody
<1>6. ASSUME NEW k \in Keys, Evict(k) PROVE Goal
  BY <1>6 DEF Evict
<1>7. ASSUME Restarts PROVE Goal
  BY <1>7 DEF Restarts
<1>8. ASSUME UNCHANGED <<used, readBack, clouded, saved, session>> PROVE Goal
  BY <1>8
<1> QED BY <1>1, <1>2, <1>3, <1>4, <1>5, <1>6, <1>7, <1>8, EditsWrite DEF Next, Flush, Hydrate,
    vars, Persist, TimerFires, PageHides, PassReturns, PassBegins, EnsureDir, EnsureDirFails,
    PickKey, GuardDefers, Backup, WriteDocFails, PassEnds, WriteIndex, WriteIndexFails,
    HydrateBegins, HydrateIndex, ReadBody, HydrateEnds, Put, Writes, Finished

(* What holds whatever the constants are. *)
LEMMA PassInvStep == ASSUME BaseInv, [Next]_vars PROVE PassInv'
<1> DEFINE Goal == PassInv'
<1> USE DEF BaseInv, TypeOK, PassInv, Full, PassInv
<1>1. ASSUME NEW k \in Keys, NEW d \in Docs, Edited(k, d) PROVE Goal
  BY <1>1 DEF Edited
<1>2. ASSUME NEW k \in Keys, Persist(k) PROVE Goal
  BY <1>2, AppendedIsNotEmpty DEF Persist
<1>3. ASSUME TimerFires PROVE Goal
  BY <1>3, AppendedIsNotEmpty DEF TimerFires
<1>4. ASSUME PageHides PROVE Goal
  BY <1>4, AppendedIsNotEmpty DEF PageHides
<1>5. ASSUME PassReturns PROVE Goal
  BY <1>5 DEF PassReturns, Finished
<1>6. ASSUME PassBegins PROVE Goal
  BY <1>6 DEF PassBegins, Passing
<1>7. ASSUME EnsureDir PROVE Goal
  BY <1>7 DEF EnsureDir
<1>8. ASSUME EnsureDirFails PROVE Goal
  BY <1>8 DEF EnsureDirFails, Finished
<1>9. ASSUME NEW k \in Keys, PickKey(k) PROVE Goal
  BY <1>9 DEF PickKey
<1>10. ASSUME GuardDefers PROVE Goal
  BY <1>10 DEF GuardDefers, NextKey
<1>11. ASSUME GuardReads PROVE Goal
  BY <1>11 DEF GuardReads
<1>12. ASSUME Backup PROVE Goal
  BY <1>12 DEF Backup
<1>13. ASSUME WriteDoc PROVE Goal
  BY <1>13 DEF WriteDoc, NextKey
<1>14. ASSUME WriteDocFails PROVE Goal
  BY <1>14 DEF WriteDocFails, NextKey
<1>15. ASSUME PassEnds PROVE Goal
  BY <1>15 DEF PassEnds, Finished
<1>16. ASSUME WriteIndex PROVE Goal
  BY <1>16 DEF WriteIndex, Finished
<1>17. ASSUME WriteIndexFails PROVE Goal
  BY <1>17 DEF WriteIndexFails, Finished, WrittenKeys, WrittenInv
<1>18. ASSUME HydrateIndex PROVE Goal
  BY <1>18 DEF HydrateIndex
<1>19. ASSUME NEW k \in Keys, InstallBody(k) PROVE Goal
  BY <1>19 DEF InstallBody
<1>20. ASSUME HydrateEnds PROVE Goal
  BY <1>20 DEF HydrateEnds, Migrated
<1>21. ASSUME Restarts PROVE Goal
  BY <1>21 DEF Restarts
<1>22. ASSUME UNCHANGED <<pass, flushes, indexReady, dirty, docs>> PROVE Goal
  BY <1>22
<1> QED BY <1>1, <1>2, <1>3, <1>4, <1>5, <1>6, <1>7, <1>8, <1>9, <1>10, <1>11, <1>12, <1>13,
    <1>14, <1>15, <1>16, <1>17, <1>18, <1>19, <1>20, <1>21, <1>22, EditsWrite DEF Next, Flush,
    Hydrate, vars, Attest, HydrateBegins, ReadBody, Evict, Put, Writes, Finished

LEMMA WrittenInvStep == ASSUME BaseInv, [Next]_vars PROVE WrittenInv'
<1> DEFINE Goal == WrittenInv'
<1> USE DEF BaseInv, TypeOK, PassInv, Full, WrittenInv
<1>1. ASSUME NEW k \in Keys, NEW d \in Docs, Edited(k, d) PROVE Goal
  BY <1>1 DEF Edited
<1>2. ASSUME PassReturns PROVE Goal
  BY <1>2 DEF PassReturns, Finished
<1>3. ASSUME PassBegins PROVE Goal
  BY <1>3 DEF PassBegins, Passing
<1>4. ASSUME EnsureDir PROVE Goal
  BY <1>4 DEF EnsureDir
<1>5. ASSUME EnsureDirFails PROVE Goal
  BY <1>5 DEF EnsureDirFails, Finished
<1>6. ASSUME NEW k \in Keys, PickKey(k) PROVE Goal
  BY <1>6 DEF PickKey
<1>7. ASSUME GuardDefers PROVE Goal
  BY <1>7 DEF GuardDefers, NextKey
<1>8. ASSUME GuardReads PROVE Goal
  BY <1>8 DEF GuardReads
<1>9. ASSUME Backup PROVE Goal
  BY <1>9 DEF Backup
<1>10. ASSUME WriteDoc PROVE Goal
  BY <1>10, SizeIsNat DEF WriteDoc, NextKey
<1>11. ASSUME WriteDocFails PROVE Goal
  BY <1>11 DEF WriteDocFails, NextKey
<1>12. ASSUME PassEnds PROVE Goal
  BY <1>12 DEF PassEnds, Finished
<1>13. ASSUME WriteIndex PROVE Goal
  BY <1>13 DEF WriteIndex, Finished
<1>14. ASSUME WriteIndexFails PROVE Goal
  BY <1>14 DEF WriteIndexFails, Finished, WrittenKeys
<1>15. ASSUME HydrateIndex PROVE Goal
  BY <1>15 DEF HydrateIndex, IndexInv
<1>16. ASSUME NEW k \in Keys, InstallBody(k) PROVE Goal
  BY <1>16 DEF InstallBody
<1>17. ASSUME HydrateEnds PROVE Goal
  BY <1>17 DEF HydrateEnds, Migrated
<1>18. ASSUME Restarts PROVE Goal
  BY <1>18 DEF Restarts
<1>19. ASSUME UNCHANGED <<pass, files, index, docs>> PROVE Goal
  BY <1>19
<1> QED BY <1>1, <1>2, <1>3, <1>4, <1>5, <1>6, <1>7, <1>8, <1>9, <1>10, <1>11, <1>12, <1>13,
    <1>14, <1>15, <1>16, <1>17, <1>18, <1>19, EditsWrite DEF Next, Flush, Hydrate, vars, Persist,
    Attest, TimerFires, PageHides, HydrateBegins, ReadBody, Evict, Put, Writes, Finished

LEMMA IndexInvStep == ASSUME BaseInv, [Next]_vars PROVE IndexInv'
<1> DEFINE Goal == IndexInv'
<1> USE DEF BaseInv, TypeOK, PassInv, IndexInv
<1>1. ASSUME WriteDoc PROVE Goal
  BY <1>1 DEF WriteDoc, NextKey
<1>2. ASSUME WriteIndex PROVE Goal
  BY <1>2 DEF WriteIndex, Finished
<1>3. ASSUME HydrateBegins PROVE Goal
  BY <1>3 DEF HydrateBegins
<1>4. ASSUME HydrateIndex PROVE Goal
  BY <1>4 DEF HydrateIndex
<1>5. ASSUME HydrateEnds PROVE Goal
  BY <1>5 DEF HydrateEnds, Migrated
<1>6. ASSUME Restarts PROVE Goal
  BY <1>6 DEF Restarts
<1>7. ASSUME UNCHANGED <<boot, indexReady, index, files, listed>> PROVE Goal
  BY <1>7
<1> QED BY <1>1, <1>2, <1>3, <1>4, <1>5, <1>6, <1>7, EditsWrite DEF Next, Flush, Hydrate, vars,
    Edited, Persist, Attest, TimerFires, PageHides, PassReturns, PassBegins, EnsureDir,
    EnsureDirFails, PickKey, GuardDefers, GuardReads, Backup, WriteDocFails, PassEnds,
    WriteIndexFails, ReadBody, InstallBody, Evict, Put, Writes, Finished

LEMMA GuardInvStep == ASSUME BaseInv, GuardInv, [Next]_vars PROVE GuardInv'
<1> DEFINE Goal == GuardInv'
<1> USE DEF BaseInv, TypeOK, PassInv, GuardInv
<1>1. ASSUME PassReturns PROVE Goal
  BY <1>1 DEF PassReturns, Finished
<1>2. ASSUME PassBegins PROVE Goal
  BY <1>2 DEF PassBegins, Passing
<1>3. ASSUME EnsureDir PROVE Goal
  BY <1>3 DEF EnsureDir
<1>4. ASSUME EnsureDirFails PROVE Goal
  BY <1>4 DEF EnsureDirFails, Finished
<1>5. ASSUME NEW k \in Keys, PickKey(k) PROVE Goal
  BY <1>5 DEF PickKey, Destructive, HasContent
<1>6. ASSUME GuardDefers PROVE Goal
  BY <1>6 DEF GuardDefers, NextKey
<1>7. ASSUME GuardReads PROVE Goal
  BY <1>7 DEF GuardReads
<1>8. ASSUME Backup PROVE Goal
  BY <1>8 DEF Backup
<1>9. ASSUME WriteDoc PROVE Goal
  BY <1>9 DEF WriteDoc, NextKey
<1>10. ASSUME WriteDocFails PROVE Goal
  BY <1>10 DEF WriteDocFails, NextKey
<1>11. ASSUME PassEnds PROVE Goal
  BY <1>11 DEF PassEnds, Finished
<1>12. ASSUME WriteIndex PROVE Goal
  BY <1>12 DEF WriteIndex, Finished
<1>13. ASSUME WriteIndexFails PROVE Goal
  BY <1>13 DEF WriteIndexFails, Finished, WrittenKeys
<1>14. ASSUME HydrateIndex PROVE Goal
  BY <1>14 DEF HydrateIndex, IndexInv
<1>15. ASSUME NEW k \in Keys, InstallBody(k) PROVE Goal
  BY <1>15 DEF InstallBody
<1>16. ASSUME Restarts PROVE Goal
  BY <1>16 DEF Restarts
<1>17. ASSUME UNCHANGED <<pass, readBack, index>> PROVE Goal
  BY <1>17
<1> QED BY <1>1, <1>2, <1>3, <1>4, <1>5, <1>6, <1>7, <1>8, <1>9, <1>10, <1>11, <1>12, <1>13,
    <1>14, <1>15, <1>16, <1>17, EditsWrite DEF Next, Flush, Hydrate, vars, Edited, Persist,
    Attest, TimerFires, PageHides, HydrateBegins, ReadBody, HydrateEnds, Evict, Put, Writes,
    Finished

(* What an index that can always be read adds. *)
LEMMA ListedInvStep == ASSUME IndexFaults = FALSE, BaseInv, ListedInv, [Next]_vars PROVE ListedInv'
<1> DEFINE Goal == ListedInv'
<1> USE DEF BaseInv, TypeOK, PassInv, IndexInv, ListedInv
<1>1. ASSUME WriteDoc PROVE Goal
  BY <1>1, SizeIsNat DEF WriteDoc, NextKey
<1>2. ASSUME WriteIndex PROVE Goal
  BY <1>2 DEF WriteIndex, Finished
<1>3. ASSUME HydrateIndex PROVE Goal
  BY <1>3 DEF HydrateIndex
<1>4. ASSUME Restarts PROVE Goal
  BY <1>4 DEF Restarts
<1>5. ASSUME UNCHANGED <<indexReady, index, listed>> PROVE Goal
  BY <1>5
<1> QED BY <1>1, <1>2, <1>3, <1>4, <1>5, EditsWrite DEF Next, Flush, Hydrate, vars, Edited,
    Persist, Attest, TimerFires, PageHides, PassReturns, PassBegins, EnsureDir, EnsureDirFails,
    PickKey, GuardDefers, GuardReads, Backup, WriteDocFails, PassEnds, WriteIndexFails,
    HydrateBegins, ReadBody, InstallBody, HydrateEnds, Evict, Put, Writes, Finished

(* What the boot gate adds. *)
LEMMA QuietBootStep == ASSUME BootGate = TRUE, BaseInv, QuietBoot, [Next]_vars PROVE QuietBoot'
<1> DEFINE Goal == QuietBoot'
<1> USE DEF BaseInv, TypeOK, PassInv, Rendered, QuietBoot
<1>1. ASSUME NEW k \in Keys, NEW d \in Docs, Edited(k, d) PROVE Goal
  BY <1>1 DEF Edited
<1>2. ASSUME NEW k \in Keys, Persist(k) PROVE Goal
  BY <1>2 DEF Persist
<1>3. ASSUME NEW k \in Keys, Attest(k) PROVE Goal
  BY <1>3 DEF Attest, IsSaved
<1>4. ASSUME TimerFires PROVE Goal
  BY <1>4 DEF TimerFires
<1>5. ASSUME PageHides PROVE Goal
  BY <1>5 DEF PageHides
<1>6. ASSUME PassReturns PROVE Goal
  BY <1>6 DEF PassReturns, Finished
<1>7. ASSUME PassBegins PROVE Goal
  BY <1>7 DEF PassBegins, Passing
<1>8. ASSUME EnsureDir PROVE Goal
  BY <1>8 DEF EnsureDir
<1>9. ASSUME EnsureDirFails PROVE Goal
  BY <1>9 DEF EnsureDirFails, Finished
<1>10. ASSUME NEW k \in Keys, PickKey(k) PROVE Goal
  BY <1>10 DEF PickKey
<1>11. ASSUME GuardDefers PROVE Goal
  BY <1>11 DEF GuardDefers, NextKey
<1>12. ASSUME GuardReads PROVE Goal
  BY <1>12 DEF GuardReads
<1>13. ASSUME Backup PROVE Goal
  BY <1>13 DEF Backup
<1>14. ASSUME WriteDoc PROVE Goal
  BY <1>14 DEF WriteDoc, NextKey
<1>15. ASSUME WriteDocFails PROVE Goal
  BY <1>15 DEF WriteDocFails, NextKey
<1>16. ASSUME PassEnds PROVE Goal
  BY <1>16 DEF PassEnds, Finished
<1>17. ASSUME WriteIndex PROVE Goal
  BY <1>17 DEF WriteIndex, Finished
<1>18. ASSUME WriteIndexFails PROVE Goal
  BY <1>18 DEF WriteIndexFails, Finished, WrittenKeys
<1>19. ASSUME HydrateBegins PROVE Goal
  BY <1>19 DEF HydrateBegins
<1>20. ASSUME HydrateIndex PROVE Goal
  BY <1>20 DEF HydrateIndex
<1>21. ASSUME NEW k \in Keys, ReadBody(k) PROVE Goal
  BY <1>21 DEF ReadBody
<1>22. ASSUME NEW k \in Keys, InstallBody(k) PROVE Goal
  <2>1. boot = "bodies" /\ body[k].doc \in {None, files[k]}
    BY <1>22 DEF InstallBody
  <2>2. UNCHANGED <<boot, dirty, flushes, pass, ended, timer, files>>
    BY <1>22 DEF InstallBody
  <2>3. \A j \in Keys : docs'[j] \in {None, files[j]} /\ persisted'[j] = docs'[j]
    BY <1>22, <2>1 DEF InstallBody
  <2>4. \A j \in Keys : body'[j].st = "read" => body'[j] = body[j]
    BY <1>22 DEF InstallBody
  <2> QED BY <2>1, <2>2, <2>3, <2>4
<1>23. ASSUME HydrateEnds PROVE Goal
  BY <1>23 DEF HydrateEnds, Migrated
<1>24. ASSUME Restarts PROVE Goal
  BY <1>24 DEF Restarts
<1>25. ASSUME UNCHANGED <<boot, dirty, flushes, pass, ended, timer, docs, files, persisted, body>>
    PROVE Goal
  BY <1>25
<1> QED BY <1>1, <1>2, <1>3, <1>4, <1>5, <1>6, <1>7, <1>8, <1>9, <1>10, <1>11, <1>12, <1>13,
    <1>14, <1>15, <1>16, <1>17, <1>18, <1>19, <1>20, <1>21, <1>22, <1>23, <1>24, <1>25, EditsWrite
    DEF Next, Flush, Hydrate, vars, Evict, Put, Writes, Finished

LEMMA PickedInvStep == ASSUME BaseInv, QuietBoot, PickedInv, [Next]_vars PROVE PickedInv'
<1> DEFINE Goal == PickedInv'
<1> USE DEF BaseInv, TypeOK, PassInv, PickedInv
<1>1. ASSUME NEW k \in Keys, NEW d \in Docs, Edited(k, d) PROVE Goal
  BY <1>1 DEF Edited
<1>2. ASSUME PassReturns PROVE Goal
  BY <1>2 DEF PassReturns, Finished
<1>3. ASSUME PassBegins PROVE Goal
  BY <1>3 DEF PassBegins, Passing
<1>4. ASSUME EnsureDir PROVE Goal
  BY <1>4 DEF EnsureDir
<1>5. ASSUME EnsureDirFails PROVE Goal
  BY <1>5 DEF EnsureDirFails, Finished
<1>6. ASSUME NEW k \in Keys, PickKey(k) PROVE Goal
  BY <1>6 DEF PickKey
<1>7. ASSUME GuardDefers PROVE Goal
  BY <1>7 DEF GuardDefers, NextKey
<1>8. ASSUME GuardReads PROVE Goal
  BY <1>8 DEF GuardReads
<1>9. ASSUME Backup PROVE Goal
  BY <1>9 DEF Backup
<1>10. ASSUME WriteDoc PROVE Goal
  BY <1>10 DEF WriteDoc, NextKey
<1>11. ASSUME WriteDocFails PROVE Goal
  BY <1>11 DEF WriteDocFails, NextKey
<1>12. ASSUME PassEnds PROVE Goal
  BY <1>12 DEF PassEnds, Finished
<1>13. ASSUME WriteIndex PROVE Goal
  BY <1>13 DEF WriteIndex, Finished
<1>14. ASSUME WriteIndexFails PROVE Goal
  BY <1>14 DEF WriteIndexFails, Finished, WrittenKeys
<1>15. ASSUME NEW k \in Keys, InstallBody(k) PROVE Goal
  BY <1>15 DEF InstallBody, QuietBoot
<1>16. ASSUME HydrateEnds PROVE Goal
  BY <1>16 DEF HydrateEnds, Migrated
<1>17. ASSUME Restarts PROVE Goal
  BY <1>17 DEF Restarts
<1>18. ASSUME UNCHANGED <<pass, docs, dirty>> PROVE Goal
  BY <1>18
<1> QED BY <1>1, <1>2, <1>3, <1>4, <1>5, <1>6, <1>7, <1>8, <1>9, <1>10, <1>11, <1>12, <1>13,
    <1>14, <1>15, <1>16, <1>17, <1>18, EditsWrite DEF Next, Flush, Hydrate, vars, Persist, Attest,
    TimerFires, PageHides, HydrateBegins, HydrateIndex, ReadBody, Evict, Put, Writes, Finished

LEMMA UnsavedIsQueuedStep == ASSUME BaseInv, QuietBoot, PickedInv, UnsavedIsQueued, [Next]_vars
    PROVE UnsavedIsQueued'
<1> DEFINE Goal == UnsavedIsQueued'
<1> USE DEF BaseInv, TypeOK, PassInv, UnsavedIsQueued
<1>1. ASSUME NEW k \in Keys, NEW d \in Docs, Edited(k, d) PROVE Goal
  BY <1>1 DEF Edited
<1>2. ASSUME PassReturns PROVE Goal
  BY <1>2 DEF PassReturns, Finished
<1>3. ASSUME PassBegins PROVE Goal
  BY <1>3 DEF PassBegins, Passing
<1>4. ASSUME EnsureDir PROVE Goal
  BY <1>4 DEF EnsureDir
<1>5. ASSUME EnsureDirFails PROVE Goal
  BY <1>5 DEF EnsureDirFails, Finished
<1>6. ASSUME NEW k \in Keys, PickKey(k) PROVE Goal
  BY <1>6 DEF PickKey
<1>7. ASSUME GuardDefers PROVE Goal
  BY <1>7 DEF GuardDefers, NextKey
<1>8. ASSUME GuardReads PROVE Goal
  BY <1>8 DEF GuardReads
<1>9. ASSUME Backup PROVE Goal
  BY <1>9 DEF Backup
<1>10. ASSUME WriteDoc PROVE Goal
  BY <1>10 DEF WriteDoc, NextKey, PickedInv
<1>11. ASSUME WriteDocFails PROVE Goal
  BY <1>11 DEF WriteDocFails, NextKey
<1>12. ASSUME PassEnds PROVE Goal
  BY <1>12 DEF PassEnds, Finished
<1>13. ASSUME WriteIndex PROVE Goal
  BY <1>13 DEF WriteIndex, Finished
<1>14. ASSUME WriteIndexFails PROVE Goal
  BY <1>14 DEF WriteIndexFails, Finished, WrittenKeys
<1>15. ASSUME NEW k \in Keys, InstallBody(k) PROVE Goal
  BY <1>15 DEF InstallBody, QuietBoot
<1>16. ASSUME HydrateEnds PROVE Goal
  BY <1>16 DEF HydrateEnds, Migrated
<1>17. ASSUME Restarts PROVE Goal
  BY <1>17 DEF Restarts
<1>18. ASSUME UNCHANGED <<pass, docs, dirty, files>> PROVE Goal
  BY <1>18
<1> QED BY <1>1, <1>2, <1>3, <1>4, <1>5, <1>6, <1>7, <1>8, <1>9, <1>10, <1>11, <1>12, <1>13,
    <1>14, <1>15, <1>16, <1>17, <1>18, EditsWrite DEF Next, Flush, Hydrate, vars, Persist, Attest,
    TimerFires, PageHides, HydrateBegins, HydrateIndex, ReadBody, Evict, Put, Writes, Finished

(* Nothing attested is lost: both conditions together. *)
LEMMA GrowsInvStep == ASSUME BootGate = TRUE, IndexFaults = FALSE, BaseInv, QuietBoot, PickedInv,
    ListedInv, GrowsInv, [Next]_vars PROVE GrowsInv'
<1> DEFINE Goal == GrowsInv'
<1> USE DEF BaseInv, TypeOK, PassInv, IndexInv, QuietBoot, ListedInv, GrowsInv
<1>1. ASSUME NEW k \in Keys, NEW d \in Docs, Edited(k, d) PROVE Goal
  BY <1>1 DEF Edited
<1>2. ASSUME PassReturns PROVE Goal
  BY <1>2 DEF PassReturns, Finished
<1>3. ASSUME PassBegins PROVE Goal
  BY <1>3 DEF PassBegins, Passing
<1>4. ASSUME EnsureDir PROVE Goal
  BY <1>4 DEF EnsureDir
<1>5. ASSUME EnsureDirFails PROVE Goal
  BY <1>5 DEF EnsureDirFails, Finished
<1>6. ASSUME NEW k \in Keys, PickKey(k) PROVE Goal
  BY <1>6 DEF PickKey
<1>7. ASSUME GuardDefers PROVE Goal
  BY <1>7 DEF GuardDefers, NextKey
<1>8. ASSUME GuardReads PROVE Goal
  BY <1>8 DEF GuardReads
<1>9. ASSUME Backup PROVE Goal
  BY <1>9 DEF Backup
<1>10. ASSUME WriteDoc PROVE Goal
  <2> DEFINE p == pass.key
  <2>1. p \in Keys /\ docs[p] # None /\ indexReady
    BY <1>10 DEF WriteDoc, Full
  <2>2. /\ files' = [files EXCEPT ![p] = pass.doc] /\ index' = [index EXCEPT ![p] = Size(pass.doc)]
        /\ pass'.key = None /\ evicted' = evicted \ {p}
        /\ UNCHANGED <<docs, body, boot, clouded, indexReady, persisted, listed>>
    BY <1>10 DEF WriteDoc, NextKey
  <2>3. ASSUME p \notin clouded
        PROVE  /\ NoteIn(pass.doc) \subseteq NoteIn(docs[p])
               /\ persisted[p] # None => NoteIn(persisted[p]) \subseteq NoteIn(pass.doc)
    BY <2>1, <2>3
  <2>4. body[p].st = "off" /\ boot = "done"
    BY <1>10, <2>1 DEF WriteDoc
  <2> HIDE DEF p
  <2> QED BY <2>1, <2>2, <2>3, <2>4
<1>11. ASSUME WriteDocFails PROVE Goal
  BY <1>11 DEF WriteDocFails, NextKey
<1>12. ASSUME PassEnds PROVE Goal
  BY <1>12 DEF PassEnds, Finished
<1>13. ASSUME WriteIndex PROVE Goal
  BY <1>13, WrittenFacts DEF WriteIndex, Finished
<1>14. ASSUME WriteIndexFails PROVE Goal
  BY <1>14 DEF WriteIndexFails, Finished, WrittenKeys
<1>15. ASSUME HydrateBegins PROVE Goal
  BY <1>15 DEF HydrateBegins
<1>16. ASSUME HydrateIndex PROVE Goal
  BY <1>16 DEF HydrateIndex
<1>17. ASSUME NEW k \in Keys, ReadBody(k) PROVE Goal
  BY <1>17 DEF ReadBody
<1>18. ASSUME NEW k \in Keys, InstallBody(k) PROVE Goal
  <2>1. boot = "bodies" /\ pass.key = None /\ dirty = {} /\ body[k].doc \in {None, files[k]}
    BY <1>18 DEF InstallBody
  <2>2. body' = [body EXCEPT ![k] = [st |-> "off", doc |-> None]]
        /\ UNCHANGED <<pass, files, evicted, clouded, index, indexReady, listed, boot>>
    BY <1>18 DEF InstallBody
<2>3. k \notin clouded => body[k].doc = files[k] /\ index[k] # None /\ files[k] # None /\
      listed[k] # None
    BY <1>18, <2>1 DEF InstallBody
  <2>4. CASE body[k].doc = None
    BY <1>18, <2>1, <2>2, <2>3, <2>4 DEF InstallBody
  <2>5. CASE body[k].doc # None
<3>1. docs' = [docs EXCEPT ![k] = body[k].doc] /\ persisted' = [persisted EXCEPT ![k] =
        body[k].doc]
      BY <1>18, <2>1, <2>5 DEF InstallBody
    <3> QED BY <2>1, <2>2, <2>3, <3>1
  <2> QED BY <2>4, <2>5
<1>19. ASSUME HydrateEnds PROVE Goal
  BY <1>19 DEF HydrateEnds, Migrated
<1>20. ASSUME NEW k \in Keys, Evict(k) PROVE Goal
  BY <1>20 DEF Evict
<1>21. ASSUME Restarts PROVE Goal
  BY <1>21 DEF Restarts
<1>22. ASSUME UNCHANGED <<boot, pass, docs, dirty, files, evicted, clouded, body, index,
    indexReady, persisted, listed>> PROVE Goal
  BY <1>22
<1> QED BY <1>1, <1>2, <1>3, <1>4, <1>5, <1>6, <1>7, <1>8, <1>9, <1>10, <1>11, <1>12, <1>13,
    <1>14, <1>15, <1>16, <1>17, <1>18, <1>19, <1>20, <1>21, <1>22, EditsWrite DEF Next, Flush,
    Hydrate, vars, Persist, Attest, TimerFires, PageHides, Put, Writes, Finished

LEMMA SavedNotesSurviveStep == ASSUME BootGate = TRUE, IndexFaults = FALSE, BaseInv, QuietBoot,
    ListedInv, GrowsInv, SavedNotesSurvive, [Next]_vars PROVE SavedNotesSurvive'
<1> DEFINE Goal == SavedNotesSurvive'
<1> USE DEF BaseInv, TypeOK, PassInv, IndexInv, ListedInv, GrowsInv, SavedNotesSurvive
<1>1. ASSUME NEW k \in Keys, Attest(k) PROVE Goal
  <2>1. UNCHANGED <<listed, files, clouded>>
    BY <1>1 DEF Attest
  <2>2. CASE IsSaved(k)
<3>1. k \notin clouded /\ docs[k] # None => listed[k] # None /\ NoteIn(docs[k]) \subseteq
        NoteIn(files[k])
      BY <2>2 DEF IsSaved
    <3>2. docs[k] = None => NoteIn(docs[k]) = {}
      BY DEF NoteIn
    <3>3. saved' = [saved EXCEPT ![k] = saved[k] \union NoteIn(docs[k])]
      BY <1>1, <2>2 DEF Attest
    <3> QED BY <2>1, <3>1, <3>2, <3>3
  <2>3. CASE ~IsSaved(k)
    BY <1>1, <2>1, <2>3 DEF Attest
  <2> QED BY <2>2, <2>3
<1>2. ASSUME WriteDoc PROVE Goal
  BY <1>2 DEF WriteDoc, NextKey
<1>3. ASSUME WriteIndex PROVE Goal
  BY <1>3 DEF WriteIndex, Finished
<1>4. ASSUME NEW k \in Keys, Evict(k) PROVE Goal
  BY <1>4 DEF Evict
<1>5. ASSUME UNCHANGED <<saved, listed, files, clouded, index>> PROVE Goal
  BY <1>5
<1> QED BY <1>1, <1>2, <1>3, <1>4, <1>5, EditsWrite DEF Next, Flush, Hydrate, vars, Edited,
    Persist, TimerFires, PageHides, PassReturns, PassBegins, EnsureDir, EnsureDirFails, PickKey,
    GuardDefers, GuardReads, Backup, WriteDocFails, PassEnds, WriteIndexFails, HydrateBegins,
    HydrateIndex, ReadBody, InstallBody, HydrateEnds, Restarts, Put, Writes, Finished

-----------------------------------------------------------------------------
LEMMA TypeStep == ASSUME BaseInv, [Next]_vars PROVE TypeOK'
BY DiskOKStep, MemoryOKStep, BootOKStep, FlushOKStep, HistoryOKStep
   DEF TypeOK, DiskOK, MemoryOK, BootOK, FlushOK, HistoryOK

LEMMA InitTypes == Init => TypeOK
<1> SUFFICES ASSUME Init PROVE TypeOK
  OBVIOUS
<1>1. Inherited \in [Keys -> [file : MaybeDocs, legacy : MaybeDocs]]
  OBVIOUS
<1>2. DiskOK
  BY <1>1, SizeIsNat DEF Init, DiskOK
<1>3. MemoryOK /\ BootOK
  BY DEF Init, Booted, MemoryOK, BootOK
<1>4. FlushOK
  BY DEF Init, Booted, FlushOK
<1>5. HistoryOK
  <2>1. \A k \in Keys : NoteIn(files[k]) \subseteq Notes /\ NoteIn(legacy[k]) \subseteq Notes
    BY <1>2, NotesAreNotes DEF DiskOK
  <2>2. used \in SUBSET Notes /\ saved \in [Keys -> SUBSET Notes]
    BY <2>1 DEF Init
  <2> QED BY <2>2 DEF Init, Booted, HistoryOK
<1> QED BY <1>2, <1>3, <1>4, <1>5 DEF TypeOK, DiskOK, MemoryOK, BootOK, FlushOK, HistoryOK

LEMMA InitBase == Init => BaseInv /\ GuardInv
<1> SUFFICES ASSUME Init PROVE BaseInv /\ GuardInv
  OBVIOUS
<1>1. PassInv /\ WrittenInv /\ IndexInv /\ GuardInv
  BY DEF Init, Booted, PassInv, WrittenInv, IndexInv, GuardInv, Full
<1> QED BY <1>1, InitTypes DEF BaseInv

LEMMA InitGated == Init => GatedInv
BY DEF Init, Booted, GatedInv, QuietBoot, PickedInv, UnsavedIsQueued

LEMMA InitKept == Init => KeptInv
<1> SUFFICES ASSUME Init PROVE KeptInv
  OBVIOUS
<1>1. ListedInv /\ GrowsInv
  BY DEF Init, Booted, ListedInv, GrowsInv
<1>2. ASSUME NEW k \in Keys, saved[k] # {} PROVE listed[k] # None /\ saved[k] \subseteq
    NoteIn(files[k])
  <2>1. files[k] # None /\ files[k] \in Docs
    BY <1>2, InitTypes DEF Init, NoteIn, TypeOK
  <2>2. Size(files[k]) # None
    BY <2>1, SizeIsNat
  <2> QED BY <2>1, <2>2 DEF Init
<1> QED BY <1>1, <1>2 DEF KeptInv, SavedNotesSurvive

LEMMA BaseStep == ASSUME BaseInv, [Next]_vars PROVE BaseInv'
BY TypeStep, PassInvStep, WrittenInvStep, IndexInvStep DEF BaseInv

\* Every variable keeps its type, whatever the boot, the folder and the cloud do.
THEOREM StoreTypes == Spec => []TypeOK
<1>1. Spec => []BaseInv
  BY InitBase, BaseStep, PTL DEF Spec
<1>2. BaseInv => TypeOK
  BY DEF BaseInv
<1> QED BY <1>1, <1>2, PTL

LEMMA GatedStep == ASSUME BootGate = TRUE, BaseInv, GatedInv, [Next]_vars PROVE GatedInv'
BY QuietBootStep, PickedInvStep, UnsavedIsQueuedStep DEF GatedInv

\* A document that differs from its file is dirty or on its way to the disk, so no
\* path on which writeDirtyDocs fails forgets an edit: when the first render waits
\* for the hydration (review-store.ts).
THEOREM NoFailureForgets == ASSUME BootGate = TRUE PROVE Spec => []UnsavedIsQueued
<1>1. Spec => [](BaseInv /\ GatedInv)
  BY InitBase, InitGated, BaseStep, GatedStep, PTL DEF Spec
<1>2. GatedInv => UnsavedIsQueued
  BY DEF GatedInv
<1> QED BY <1>1, <1>2, PTL

LEMMA KeptStep ==
  ASSUME BootGate = TRUE, IndexFaults = FALSE, BaseInv, GatedInv, KeptInv, [Next]_vars
  PROVE  KeptInv'
BY ListedInvStep, GrowsInvStep, SavedNotesSurviveStep DEF GatedInv, KeptInv

\* What persistReviewDoc attested is in the file, shown or deleted, and the index
\* finds the file, through later edits, refused writes and restarts: when the first
\* render waits for the hydration, the index can be read and the cloud never took
\* the file away.
THEOREM WhatIsSavedStays ==
  ASSUME BootGate = TRUE, IndexFaults = FALSE PROVE Spec => []SavedNotesSurvive
<1>1. Spec => [](BaseInv /\ GatedInv /\ KeptInv)
  BY InitBase, InitGated, InitKept, BaseStep, GatedStep, KeptStep, PTL DEF Spec
<1>2. KeptInv => SavedNotesSurvive
  BY DEF KeptInv
<1> QED BY <1>1, <1>2, PTL

LEMMA ShellStep ==
  ASSUME BaseInv, ListedInv, GuardInv, [Next]_vars, NEW k \in Keys,
         listed[k] # None, NoteIn(files[k]) # {}, NoteIn(files'[k]) = {}
  PROVE  k \in readBack
<1>1. CASE WriteDoc
  <2>1. pass.key \in Keys /\ indexReady /\ files' = [files EXCEPT ![pass.key] = pass.doc]
    BY <1>1 DEF WriteDoc, BaseInv, TypeOK, PassInv, Full
  <2>2. k = pass.key /\ NoteIn(pass.doc) = {}
    BY <2>1 DEF BaseInv, TypeOK
  <2>3. index[k] # None /\ pass.at = "write"
    BY <1>1, <2>1 DEF WriteDoc, ListedInv
  <2> QED BY <2>2, <2>3 DEF GuardInv
<1>2. CASE UNCHANGED files
  BY <1>2
<1> QED BY <1>1, <1>2, EditsWrite DEF Next, Flush, Hydrate, vars, BaseInv, Edited, Persist, Attest,
  TimerFires, PageHides, PassReturns, PassBegins, EnsureDir, EnsureDirFails, PickKey, GuardDefers,
  GuardReads, Backup, WriteDocFails, PassEnds, WriteIndex, WriteIndexFails, HydrateBegins,
  HydrateIndex, ReadBody, InstallBody, HydrateEnds, Evict, Restarts, Finished

\* An empty document never replaces the notes of a listed file that this session
\* has not read, with or without the boot gate: when the index can be read.
THEOREM ShellsReadFirst == ASSUME IndexFaults = FALSE PROVE Spec => ShellNeverReplacesUnread
<1> DEFINE SInv == BaseInv /\ ListedInv /\ GuardInv
<1>1. Init => SInv
  <2>1. Init => ListedInv
    BY DEF Init, Booted, ListedInv
  <2> QED BY <2>1, InitBase
<1>2. SInv /\ [Next]_vars => SInv'
  BY BaseStep, ListedInvStep, GuardInvStep
<1>3. SInv /\ [Next]_vars =>
        [\A k \in Keys : listed[k] # None /\ NoteIn(files[k]) # {} /\ NoteIn(files'[k]) = {} =>
           k \in readBack]_vars
  BY ShellStep
<1> QED BY <1>1, <1>2, <1>3, PTL DEF Spec, ShellNeverReplacesUnread
=============================================================================
