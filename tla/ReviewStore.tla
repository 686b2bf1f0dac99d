----------------------------- MODULE ReviewStore -----------------------------
(***************************************************************************)
(* The file-backed review store (src/src/lib/review-store.ts): an in-memory *)
(* map of documents, a debounced flush that writes one file per document    *)
(* and then the index that finds them, the clobber guards in front of a     *)
(* destructive write, the hydration that fills the map at boot, and the     *)
(* one-time import of documents still in localStorage.                      *)
(*                                                                         *)
(* A document is the set of notes it shows and the set it has deleted: the  *)
(* latter are kept as tombstones, so a document never shrinks to nothing by *)
(* use.  The number of notes stands for the byte size.  Between two awaits  *)
(* the store runs alone; every await is a boundary of two actions.          *)
(***************************************************************************)
EXTENDS Naturals, FiniteSets, Sequences, SequencesExt

CONSTANTS
  Keys,          \* source keys
  Notes,         \* identities a note can have
  None,          \* no document, no file, no index entry
  Floor,         \* the size above which halving a document is guarded
  MaxFlush,      \* bound: flushes chained behind the running one
  BootGate,      \* the first render waits for the whole hydration
  Evictions,     \* the cloud folder evicts files (they exist, unreadable)
  IndexFaults,   \* the index can be unreadable at boot
  Inherited      \* the document of each key the folder holds at first start

Docs == [live : SUBSET Notes, gone : SUBSET Notes]
Shell == [live |-> {}, gone |-> {}]
NoteIn(doc) == IF doc = None THEN {} ELSE doc.live \union doc.gone

ASSUME StoreAssumption ==
  /\ Floor \in Nat /\ MaxFlush \in Nat /\ IsFiniteSet(Notes)
  /\ BootGate \in BOOLEAN /\ Evictions \in BOOLEAN /\ IndexFaults \in BOOLEAN
  /\ None \notin Docs /\ None \notin Nat /\ None \notin Keys
  /\ Inherited \in [Keys -> [file : Docs \union {None}, legacy : Docs \union {None}]]

VARIABLES
  files, bak,    \* the folder: document files and their backups
  listed,        \* index.json: the size of every document it lists
  evicted,       \* files present as placeholders only
  legacy,        \* documents of an older build in localStorage
  docs, dirty, persisted, index, indexReady, dirEnsured,  \* module state
  timer,         \* the debounced flush is armed
  boot,          \* hydration: "cold", "index", "bodies", "done"
  body,          \* per key: a body read asked for, or the text it returned
  flushes,       \* the chained flushes, each with the key it must save or None
  pass,          \* the running writeDirtyDocs
  ended,         \* persists whose flush has ended, not yet checked
  used,          \* history: every note ever written by the user
  saved,         \* history: the notes of every key the store called saved
  session,       \* history: the notes of every key written since boot
  readBack,      \* history: the present file was read or written since boot
  clouded        \* history: the keys whose file was ever evicted

diskVars == <<files, bak, listed, evicted, legacy>>
memVars == <<docs, dirty, persisted, index, indexReady, dirEnsured, timer>>
bootVars == <<boot, body>>
flushVars == <<flushes, pass, ended>>
histVars == <<used, saved, session, readBack, clouded>>
vars == <<diskVars, memVars, bootVars, flushVars, histVars>>

Size(doc) == Cardinality(doc.live)
HasContent(doc) == NoteIn(doc) # {}

Idle == [at |-> "idle", keys |-> {}, key |-> None, doc |-> None, old |-> None, written |-> {}]
Passing(at, keys, written) == [Idle EXCEPT !.at = at, !.keys = keys, !.written = written]

-----------------------------------------------------------------------------
(* Saving: every save is write-through to the map and arms the debounce. *)

Put(k, doc) ==
  /\ docs' = [docs EXCEPT ![k] = doc]
  /\ dirty' = dirty \union {k}
  /\ timer' = TRUE
  /\ UNCHANGED <<persisted, index, indexReady, dirEnsured>>

\* The user interface is up: hydration won the boot race, or lost it.
Rendered == BootGate => boot = "done"

Current(k) == IF docs[k] = None THEN Shell ELSE docs[k]

\* Opening a source nobody has notes on saves a version-only shell.
Opens(k) ==
  /\ Rendered /\ docs[k] = None
  /\ Put(k, Shell)
  /\ UNCHANGED <<diskVars, bootVars, flushVars, histVars>>

Writes(k, doc) ==
  /\ Put(k, doc)
  /\ session' = [session EXCEPT ![k] = @ \union NoteIn(doc)]

AddNote(k, n) ==
  /\ Rendered /\ n \notin used
  /\ Writes(k, [Current(k) EXCEPT !.live = @ \union {n}])
  /\ used' = used \union {n}
  /\ UNCHANGED <<diskVars, bootVars, flushVars, saved, readBack, clouded>>

DeleteNote(k, n) ==
  /\ Rendered /\ n \in Current(k).live
  /\ Writes(k, [live |-> Current(k).live \ {n}, gone |-> Current(k).gone \union {n}])
  /\ UNCHANGED <<diskVars, bootVars, flushVars, used, saved, readBack, clouded>>

\* A caller that needs the save attested puts its document (above) and chains
\* a flush of its own.
Persist(k) ==
  /\ Rendered /\ docs[k] # None /\ Len(flushes) < MaxFlush
  /\ flushes' = Append(flushes, k)
  /\ UNCHANGED <<diskVars, memVars, bootVars, pass, ended, histVars>>

\* The flush ended: it is a save only if nothing is left to write.
IsSaved(k) == persisted[k] = docs[k] /\ k \notin dirty

\* Mutant: an ended flush is taken for a save.
AttestAnyway(k) ==
  /\ k \in ended
  /\ ended' = ended \ {k}
  /\ saved' = [saved EXCEPT ![k] = @ \union NoteIn(docs[k])]
  /\ UNCHANGED <<diskVars, memVars, bootVars, flushes, pass, used, session, readBack, clouded>>

Attest(k) ==
  /\ k \in ended
  /\ ended' = ended \ {k}
  /\ saved' = IF IsSaved(k) THEN [saved EXCEPT ![k] = @ \union NoteIn(docs[k])] ELSE saved
  /\ UNCHANGED <<diskVars, memVars, bootVars, flushes, pass, used, session, readBack, clouded>>

TimerFires ==
  /\ timer /\ Len(flushes) < MaxFlush
  /\ timer' = FALSE
  /\ flushes' = Append(flushes, None)
  /\ UNCHANGED <<diskVars, docs, dirty, persisted, index, indexReady, dirEnsured, bootVars,
                 pass, ended, histVars>>

\* The window goes away: one more flush, if the process lives to run it.
PageHides ==
  /\ boot = "done" /\ Len(flushes) < MaxFlush
  /\ flushes' = Append(flushes, None)
  /\ UNCHANGED <<diskVars, memVars, bootVars, pass, ended, histVars>>

-----------------------------------------------------------------------------
(* writeDirtyDocs, one pass at a time *)

Finished == pass' = Idle /\ ended' = ended \union ({Head(flushes)} \ {None})
            /\ flushes' = Tail(flushes)

\* Nothing to write, or writing must wait for the index: the edits stay dirty.
PassReturns ==
  /\ pass.at = "idle" /\ flushes # <<>>
  /\ boot = "cold" \/ dirty = {} \/ ~indexReady
  /\ Finished
  /\ timer' = (timer \/ (boot # "cold" /\ dirty # {}))
  /\ UNCHANGED <<diskVars, docs, dirty, persisted, index, indexReady, dirEnsured, bootVars, histVars>>

PassBegins ==
  /\ pass.at = "idle" /\ flushes # <<>>
  /\ boot # "cold" /\ dirty # {} /\ indexReady
  /\ pass' = Passing(IF dirEnsured THEN "pick" ELSE "dir", dirty, {})
  /\ dirty' = {}
  /\ UNCHANGED <<diskVars, docs, persisted, index, indexReady, dirEnsured, timer, bootVars,
                 flushes, ended, histVars>>

EnsureDir ==
  /\ pass.at = "dir"
  /\ dirEnsured' = TRUE
  /\ pass' = [pass EXCEPT !.at = "pick"]
  /\ UNCHANGED <<diskVars, docs, dirty, persisted, index, indexReady, timer, bootVars,
                 flushes, ended, histVars>>

EnsureDirFails ==
  /\ pass.at = "dir"
  /\ dirty' = dirty \union pass.keys
  /\ timer' = TRUE
  /\ Finished
  /\ UNCHANGED <<diskVars, docs, persisted, index, indexReady, dirEnsured, bootVars, histVars>>

\* Mutant: only halving is guarded, not a shell over content.
ShrinkOnly(k, doc) == index[k] # None /\ index[k] > Floor /\ 2 * Size(doc) < index[k]

\* The two shapes of a destructive write, by what the index remembers.
Destructive(k, doc) ==
  /\ index[k] # None
  /\ \/ index[k] > Floor /\ 2 * Size(doc) < index[k]
     \/ ~HasContent(doc)

PickKey(k) ==
  /\ pass.at = "pick" /\ k \in pass.keys
  /\ pass' = [pass EXCEPT !.at = IF Destructive(k, docs[k]) THEN "guard" ELSE "write",
                          !.keys = @ \ {k}, !.key = k, !.doc = docs[k]]
  /\ UNCHANGED <<diskVars, memVars, bootVars, flushes, ended, histVars>>

NextKey(p) == [p EXCEPT !.at = "pick", !.key = None, !.doc = None, !.old = None]

\* Mutant: the deferred key is skipped and no longer dirty.
GuardSkips ==
  /\ pass.at = "guard" /\ (pass.key \in evicted \/ files[pass.key] = None)
  /\ pass' = NextKey(pass)
  /\ UNCHANGED <<diskVars, memVars, bootVars, flushes, ended, histVars>>

\* The file the guard wants is unreadable (evicted, or gone): keep the edit
\* dirty and, on purpose, do not arm the timer.
GuardDefers ==
  /\ pass.at = "guard" /\ (pass.key \in evicted \/ files[pass.key] = None)
  /\ dirty' = dirty \union {pass.key}
  /\ pass' = NextKey(pass)
  /\ UNCHANGED <<diskVars, docs, persisted, index, indexReady, dirEnsured, timer, bootVars,
                 flushes, ended, histVars>>

GuardReads ==
  /\ pass.at = "guard" /\ pass.key \notin evicted /\ files[pass.key] # None
  /\ pass' = [pass EXCEPT !.at = "bak", !.old = files[pass.key]]
  /\ readBack' = readBack \union {pass.key}
  /\ UNCHANGED <<diskVars, memVars, bootVars, flushes, ended, used, saved, session, clouded>>

\* The backup is best effort.
Backup ==
  /\ pass.at = "bak"
  /\ \/ bak' = [bak EXCEPT ![pass.key] = pass.old]
     \/ UNCHANGED bak
  /\ pass' = [pass EXCEPT !.at = "write"]
  /\ UNCHANGED <<files, listed, evicted, legacy, memVars, bootVars, flushes, ended, histVars>>

WriteDoc ==
  /\ pass.at = "write"
  /\ files' = [files EXCEPT ![pass.key] = pass.doc]
  /\ evicted' = evicted \ {pass.key}
  /\ readBack' = readBack \union {pass.key}
  /\ index' = [index EXCEPT ![pass.key] = Size(pass.doc)]
  /\ pass' = [NextKey(pass) EXCEPT !.written = @ \union {<<pass.key, pass.doc>>}]
  /\ UNCHANGED <<bak, listed, legacy, docs, dirty, persisted, indexReady, dirEnsured, timer,
                 bootVars, flushes, ended, used, saved, session, clouded>>

\* Mutant: a refused write is reported and forgotten.
WriteDocForgets ==
  /\ pass.at = "write"
  /\ pass' = NextKey(pass)
  /\ UNCHANGED <<diskVars, memVars, bootVars, flushes, ended, histVars>>

\* Mutant: the key stays dirty and nobody comes back for it.
WriteDocFailsUnarmed ==
  /\ pass.at = "write"
  /\ dirty' = dirty \union {pass.key}
  /\ pass' = NextKey(pass)
  /\ UNCHANGED <<diskVars, docs, persisted, index, indexReady, dirEnsured, timer, bootVars,
                 flushes, ended, histVars>>

WriteDocFails ==
  /\ pass.at = "write"
  /\ dirty' = dirty \union {pass.key}
  /\ timer' = TRUE
  /\ pass' = NextKey(pass)
  /\ UNCHANGED <<diskVars, docs, persisted, index, indexReady, dirEnsured, bootVars,
                 flushes, ended, histVars>>

WrittenKeys == {w[1] : w \in pass.written}
WrittenDoc(k) == (CHOOSE w \in pass.written : w[1] = k)[2]

PassEnds ==
  /\ pass.at = "pick" /\ pass.keys = {} /\ pass.written = {}
  /\ Finished
  /\ UNCHANGED <<diskVars, memVars, bootVars, histVars>>

WriteIndex ==
  /\ pass.at = "pick" /\ pass.keys = {} /\ pass.written # {}
  /\ listed' = index
  /\ persisted' = [k \in Keys |-> IF k \in WrittenKeys THEN WrittenDoc(k) ELSE persisted[k]]
  /\ Finished
  /\ UNCHANGED <<files, bak, evicted, legacy, docs, dirty, index, indexReady, dirEnsured, timer,
                 bootVars, histVars>>

\* Mutant: the documents landed, so the failed index is not retried.
WriteIndexShrugs ==
  /\ pass.at = "pick" /\ pass.keys = {} /\ pass.written # {}
  /\ persisted' = [k \in Keys |-> IF k \in WrittenKeys THEN WrittenDoc(k) ELSE persisted[k]]
  /\ Finished
  /\ UNCHANGED <<diskVars, docs, dirty, index, indexReady, dirEnsured, timer, bootVars, histVars>>

WriteIndexFails ==
  /\ pass.at = "pick" /\ pass.keys = {} /\ pass.written # {}
  /\ dirty' = dirty \union WrittenKeys
  /\ timer' = TRUE
  /\ Finished
  /\ UNCHANGED <<diskVars, docs, persisted, index, indexReady, dirEnsured, bootVars, histVars>>

-----------------------------------------------------------------------------
(* Hydration and migration *)

\* The folder is resolved; the index read is in flight.
HydrateBegins ==
  /\ boot = "cold"
  /\ boot' = "index"
  /\ UNCHANGED <<diskVars, memVars, body, flushVars, histVars>>

\* The index read returns, or fails and counts as a fresh store.
HydrateIndex ==
  /\ boot = "index"
  /\ \E entries \in {listed} \union (IF IndexFaults THEN {[k \in Keys |-> None]} ELSE {}) :
       /\ index' = entries
       /\ body' = [k \in Keys |-> IF entries[k] = None THEN [st |-> "off", doc |-> None]
                                                       ELSE [st |-> "asked", doc |-> None]]
  /\ indexReady' = TRUE
  /\ boot' = "bodies"
  /\ UNCHANGED <<diskVars, docs, dirty, persisted, dirEnsured, timer, flushVars, histVars>>

ReadBody(k) ==
  /\ body[k].st = "asked"
  /\ body' = [body EXCEPT ![k] = [st |-> "read", doc |-> IF k \in evicted THEN None ELSE files[k]]]
  /\ UNCHANGED <<diskVars, memVars, boot, flushVars, histVars>>

\* An edited document is newer than its file: install only over a clean key.
InstallBody(k) ==
  /\ body[k].st = "read"
  /\ IF body[k].doc # None /\ k \notin dirty
       THEN /\ docs' = [docs EXCEPT ![k] = body[k].doc]
            /\ persisted' = [persisted EXCEPT ![k] = body[k].doc]
            /\ readBack' = readBack \union {k}
       ELSE UNCHANGED <<docs, persisted, readBack>>
  /\ body' = [body EXCEPT ![k] = [st |-> "off", doc |-> None]]
  /\ UNCHANGED <<diskVars, dirty, index, indexReady, dirEnsured, timer, boot, flushVars,
                 used, saved, session, clouded>>

\* Every body is in: import the legacy documents that carry content and have
\* no file, and drop all of them from localStorage.
Migrated(k) == docs[k] = None /\ legacy[k] # None /\ HasContent(legacy[k])

HydrateEnds ==
  /\ boot = "bodies" /\ \A k \in Keys : body[k].st = "off"
  /\ boot' = "done"
  /\ docs' = [k \in Keys |-> IF Migrated(k) THEN legacy[k] ELSE docs[k]]
  /\ dirty' = dirty \union {k \in Keys : Migrated(k)}
  /\ legacy' = [k \in Keys |-> None]
  /\ timer' = (timer \/ dirty' # {})
  /\ UNCHANGED <<files, bak, listed, evicted, persisted, index, indexReady, dirEnsured, body,
                 flushVars, histVars>>

-----------------------------------------------------------------------------
(* The environment *)

Evict(k) ==
  /\ Evictions /\ files[k] # None /\ k \notin evicted
  /\ evicted' = evicted \union {k}
  /\ clouded' = clouded \union {k}
  /\ UNCHANGED <<files, bak, listed, legacy, memVars, bootVars, flushVars, used, saved, session,
                 readBack>>

Booted ==
  /\ docs = [k \in Keys |-> None] /\ dirty = {} /\ persisted = [k \in Keys |-> None]
  /\ index = [k \in Keys |-> None] /\ indexReady = FALSE /\ dirEnsured = FALSE /\ timer = FALSE
  /\ boot = "cold" /\ body = [k \in Keys |-> [st |-> "off", doc |-> None]]
  /\ flushes = <<>> /\ pass = Idle /\ ended = {}
  /\ session = [k \in Keys |-> {}] /\ readBack = {}

\* The application dies and starts again with what the folder holds.
Restarts ==
  /\ boot # "cold"
  /\ docs' = [k \in Keys |-> None] /\ dirty' = {} /\ persisted' = [k \in Keys |-> None]
  /\ index' = [k \in Keys |-> None] /\ indexReady' = FALSE /\ dirEnsured' = FALSE
  /\ timer' = FALSE
  /\ boot' = "cold" /\ body' = [k \in Keys |-> [st |-> "off", doc |-> None]]
  /\ flushes' = <<>> /\ pass' = Idle /\ ended' = {}
  /\ session' = [k \in Keys |-> {}] /\ readBack' = {}
  /\ UNCHANGED <<diskVars, used, saved, clouded>>

-----------------------------------------------------------------------------
(* Specification *)

Init ==
  /\ files = [k \in Keys |-> Inherited[k].file]
  /\ legacy = [k \in Keys |-> Inherited[k].legacy]
  /\ listed = [k \in Keys |-> IF files[k] = None THEN None ELSE Size(files[k])]
  /\ bak = [k \in Keys |-> None] /\ evicted = {} /\ clouded = {}
  /\ Booted
  /\ used = UNION {NoteIn(files[k]) \union NoteIn(legacy[k]) : k \in Keys}
  /\ saved = [k \in Keys |-> NoteIn(files[k])]

Edits == \E k \in Keys : Opens(k) \/ \E n \in Notes : AddNote(k, n) \/ DeleteNote(k, n)

Flush ==
  \/ PassReturns \/ PassBegins \/ EnsureDir \/ EnsureDirFails
  \/ \E k \in Keys : PickKey(k)
  \/ GuardDefers \/ GuardReads \/ Backup \/ WriteDoc \/ WriteDocFails
  \/ PassEnds \/ WriteIndex \/ WriteIndexFails

Hydrate == HydrateBegins \/ HydrateIndex \/ HydrateEnds
           \/ \E k \in Keys : ReadBody(k) \/ InstallBody(k)

Next ==
  \/ Edits \/ \E k \in Keys : Persist(k) \/ Attest(k)
  \/ TimerFires \/ PageHides \/ Flush \/ Hydrate
  \/ \E k \in Keys : Evict(k)
  \/ Restarts

Spec == Init /\ [][Next]_vars

\* The event loop runs what is queued, and a disk that refuses now and then
\* does not refuse for ever.
FairSpec ==
  /\ Spec
  /\ WF_vars(TimerFires) /\ WF_vars(Flush) /\ WF_vars(Hydrate)
  /\ SF_vars(EnsureDir) /\ SF_vars(WriteDoc) /\ SF_vars(WriteIndex)

-----------------------------------------------------------------------------
(* Properties *)

PassStates == {"idle", "dir", "pick", "guard", "bak", "write"}
MaybeDocs == Docs \union {None}

TypeOK ==
  /\ files \in [Keys -> MaybeDocs] /\ bak \in [Keys -> MaybeDocs]
  /\ legacy \in [Keys -> MaybeDocs] /\ evicted \in SUBSET Keys
  /\ listed \in [Keys -> Nat \union {None}] /\ index \in [Keys -> Nat \union {None}]
  /\ docs \in [Keys -> MaybeDocs] /\ persisted \in [Keys -> MaybeDocs]
  /\ dirty \in SUBSET Keys
  /\ indexReady \in BOOLEAN /\ dirEnsured \in BOOLEAN /\ timer \in BOOLEAN
  /\ boot \in {"cold", "index", "bodies", "done"}
  /\ body \in [Keys -> [st : {"off", "asked", "read"}, doc : MaybeDocs]]
  /\ flushes \in Seq(Keys \union {None}) /\ ended \in SUBSET Keys
  /\ pass \in [at : PassStates, keys : SUBSET Keys, key : Keys \union {None},
               doc : MaybeDocs, old : MaybeDocs, written : SUBSET (Keys \X Docs)]
  /\ used \in SUBSET Notes /\ readBack \in SUBSET Keys /\ clouded \in SUBSET Keys
  /\ saved \in [Keys -> SUBSET Notes] /\ session \in [Keys -> SUBSET Notes]

\* What the store attested (persistReviewDoc resolved) is in the file, shown
\* or deleted by the user, and the index finds the file: through later edits,
\* refused writes and restarts, unless the cloud ever took the file away.
SavedNotesSurvive ==
  \A k \in Keys \ clouded : saved[k] # {} => listed[k] # None /\ saved[k] \subseteq NoteIn(files[k])

\* A document that differs from its file is dirty or on its way to the disk:
\* no failure path of a pass forgets a key.
UnsavedIsQueued ==
  \A k \in Keys : docs[k] # None /\ docs[k] # files[k] =>
    \/ k \in dirty \union pass.keys
    \/ pass.key = k /\ pass.doc = docs[k]

\* A document without content never replaces notes of a listed file that this
\* session has not read: the empty document of a failed load saves over nothing.
ShellNeverReplacesUnread ==
  [][\A k \in Keys :
       listed[k] # None /\ NoteIn(files[k]) # {} /\ NoteIn(files'[k]) = {} => k \in readBack]_vars

\* Every unsaved document reaches the disk, index included (or dies with the
\* process): a write that failed is re-armed.  A file the cloud took is excused:
\* what was to replace it waits, on purpose, for the next edit.
Unsaved(k) == docs[k] # None /\ persisted[k] # docs[k]
EventuallySaved == \A k \in Keys : Unsaved(k) ~> ~Unsaved(k) \/ k \in clouded

\* What the user wrote this session is what the session shows: hydration does
\* not put a disk copy over an edited document.
EditsSurviveHydration == \A k \in Keys : session[k] \subseteq NoteIn(docs[k])

\* A file with notes is never overwritten unless it was read back first.
NoBlindOverwrite ==
  [][\A k \in Keys :
       files[k] # None /\ HasContent(files[k]) /\ files'[k] # files[k] => k \in readBack]_vars

\* Notes that landed in a document file are found by the next boot.
WrittenNotesAreFound ==
  boot = "done" => \A k \in Keys : NoteIn(files[k]) \subseteq NoteIn(docs[k])

\* A note an older build left in localStorage is somewhere after its import.
LegacyNotesSurvive ==
  \A k \in Keys : Inherited[k].file = None =>
    NoteIn(Inherited[k].legacy) \subseteq
      NoteIn(legacy[k]) \union NoteIn(files[k]) \union NoteIn(docs[k])
=============================================================================
