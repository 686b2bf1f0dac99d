---------------------------- MODULE WebPlayback ----------------------------
(***************************************************************************)
(* The player of a web source: the reducer of web-playback-machine.ts, the *)
(* effects, listeners and callbacks of use-web-playback.ts around it, and  *)
(* download_web_preview (download.rs) as far as the page hears of it.      *)
(*                                                                         *)
(* `st` is what the dispatched actions amount to, `shown` what React has   *)
(* rendered: callbacks read `shown`, and only a render starts an effect.   *)
(* What a promise resumes runs before the page's next step.                *)
(***************************************************************************)
EXTENDS Naturals, FiniteSets

CONSTANTS
  Sources,        \* how many sources are opened one after another, a bound
  Downloads,      \* how many download jobs may be alive at once, a bound
  Requests,       \* how many presentation sources may be asked for, a bound
  LateRefusals    \* may download_web_preview fail after its job was given up?

ASSUME PlaybackAssumption ==
  {Sources, Downloads, Requests} \subseteq Nat /\ LateRefusals \in BOOLEAN

Src == 1 .. Sources
Job == 1 .. Downloads
Nil == 0

VARIABLES
  source,      \* sourceSeqRef: the source the user opened last
  opened,      \* its kind, once its load has been called
  st, shown,   \* the machine's state, and the rendered one
  resolve,     \* the live resolve effect: [seq, how], seq Nil when none is
  warm, peer,  \* warmStreamRef and peerStreamRef, the seq they hold
  jobRef,      \* downloadJobIdRef
  resolver,    \* attemptResolverRef: the job whose promise it settles
  job,         \* each download job: [seq, retry, state]
  presented,   \* the source whose presentation source is set
  wanted,      \* presentationSeqRef and presentationRequestRef
  asked        \* the presentation requests in flight

stateVars == <<st, shown, resolve, warm, peer>>
downloadVars == <<jobRef, resolver, job>>
presentationVars == <<presented, wanted, asked>>
playbackVars == <<source, opened, stateVars, downloadVars, presentationVars>>

Inactive == [kind |-> "inactive", seq |-> Nil, fresh |-> FALSE, cached |-> FALSE,
             ready |-> FALSE, peer |-> FALSE, of |-> Nil]
Entered(kind, s) == [Inactive EXCEPT !.kind = kind, !.seq = s]

\* A job that is over has no events left, so its identity may serve again.
Idle == [seq |-> Nil, retry |-> FALSE, state |-> "idle"]
Unused(j) == job[j] = Idle /\ \A i \in 1 .. (j - 1) : job[i] # Idle

SomeSrc == Src \cup {Nil}
SomeJob == Job \cup {Nil}
PlayerState ==
  [kind : {"inactive", "resolving", "streaming", "downloading", "cached", "failed"},
   seq : SomeSrc, fresh : BOOLEAN, cached : BOOLEAN, ready : BOOLEAN, peer : BOOLEAN,
   of : SomeSrc]
Request == [seq : SomeSrc, request : Nat]

PlaybackTypeOK ==
  /\ source \in SomeSrc
  /\ opened \in {"no", "stream", "warm", "download", "live", "cached", "peer"}
  /\ st \in PlayerState /\ shown \in PlayerState
  /\ resolve \in [seq : SomeSrc, how : {"none", "warm", "peer", "yt-dlp"}]
  /\ warm \in SomeSrc /\ peer \in SomeSrc /\ presented \in SomeSrc
  /\ jobRef \in SomeJob /\ resolver \in SomeJob
  /\ job \in [Job -> [seq : SomeSrc, retry : BOOLEAN,
                      state : {"idle", "invoked", "running"}]]
  /\ wanted \in Request /\ asked \subseteq Request

PlaybackInit ==
  /\ source = Nil /\ opened = "no"
  /\ st = Inactive /\ shown = Inactive
  /\ resolve = [seq |-> Nil, how |-> "none"]
  /\ warm = Nil /\ peer = Nil /\ jobRef = Nil /\ resolver = Nil
  /\ job = [j \in Job |-> Idle]
  /\ presented = Nil /\ wanted = [seq |-> Nil, request |-> 0] /\ asked = {}

-----------------------------------------------------------------------------
(* The reducer: what an action of source s makes of the state.             *)

\* Every action but RESET and the loads is dropped unless it is the source's.
Scoped(s, next) == IF st.kind = "inactive" \/ st.seq # s THEN st ELSE next

\* The stream's URL is that of a proxy route, even for a peer's stream
\* (App.loadPeerStream); only the machine's own url is the peer:// marker.
IsPeerUrl(how) == FALSE

Resolved(s, how) ==
  Scoped(s, IF st.kind # "resolving" THEN st
            ELSE [Entered("streaming", st.seq) EXCEPT
                    !.cached = (how = "warm"), !.peer = IsPeerUrl(how), !.of = s])

ResolveFailed(s) ==
  Scoped(s, IF st.kind = "resolving" THEN Entered("downloading", st.seq) ELSE st)

\* MEDIA_ERROR and WATCHDOG.
StreamFailed(s) ==
  Scoped(s, IF st.kind # "streaming" THEN st
            ELSE IF st.peer THEN Entered("failed", st.seq)
            ELSE IF st.cached THEN [Entered("resolving", st.seq) EXCEPT !.fresh = TRUE]
            ELSE Entered("downloading", st.seq))

DownloadEnds(s, kind) ==
  Scoped(s, IF st.kind = "downloading" THEN [Entered(kind, st.seq) EXCEPT !.of = s] ELSE st)

-----------------------------------------------------------------------------
(* Loading.                                                                *)

\* cancelActiveJob: the attempt unwinds; a job not yet spawned runs on unheard.
CancelActiveJob ==
  /\ jobRef' = Nil /\ resolver' = Nil
  /\ job' = [j \in Job |-> IF j = jobRef /\ job[j].state = "running"
                             THEN Idle ELSE job[j]]

\* resetForNewSource, and the next sequence number.
OpenSource ==
  /\ source < Sources
  /\ source' = source + 1 /\ opened' = "no"
  /\ st' = Inactive
  /\ CancelActiveJob
  /\ warm' = Nil /\ presented' = Nil
  /\ wanted' = [wanted EXCEPT !.seq = Nil]
  /\ UNCHANGED <<shown, resolve, peer, asked>>

\* resolvePresentation: a new request, and the old source goes unless refreshed.
AskPresentation(s, refresh) ==
  /\ wanted' = [seq |-> s, request |-> wanted.request + 1]
  /\ asked' = asked \cup {wanted'}
  /\ presented' = IF refresh THEN presented ELSE Nil

\* loadWeb, loadCached and loadPeerStream, for the source opened last.  The
\* load follows an awaited warm-start probe, so the reset has been rendered.
Load(how) ==
  /\ source # Nil /\ opened = "no" /\ opened' = how
  /\ shown = st
  /\ peer' = IF how = "peer" THEN source ELSE Nil
  /\ warm' = IF how = "warm" THEN source ELSE Nil
  /\ IF how = "cached"
       THEN AskPresentation(source, FALSE)
       ELSE /\ wanted' = [seq |-> source, request |-> wanted.request + 1]
            /\ presented' = Nil /\ UNCHANGED asked
  /\ st' = CASE how = "cached" -> [Entered("cached", source) EXCEPT !.of = source]
             [] how = "download" -> Entered("downloading", source)
             [] OTHER -> Entered("resolving", source)
  /\ UNCHANGED <<source, shown, resolve, downloadVars>>

\* promoteLive: the metadata of a source loaded as a download says it is live.
PromoteLive ==
  /\ opened = "download" /\ opened' = "live"
  /\ shown.seq = source /\ shown.kind \in {"downloading", "failed"}
  /\ CancelActiveJob
  /\ warm' = Nil /\ presented' = Nil /\ wanted' = [wanted EXCEPT !.seq = Nil]
  /\ st' = Entered("resolving", source)
  /\ UNCHANGED <<source, shown, resolve, peer, asked>>

\* stop, while the preparation is shown.
StopDownload ==
  /\ shown.kind = "downloading"
  /\ CancelActiveJob
  /\ st' = Inactive
  /\ UNCHANGED <<source, opened, shown, resolve, warm, peer, presentationVars>>

-----------------------------------------------------------------------------
(* Rendering and the effects it starts.                                    *)

\* attempt(): a job of its own, named before the invoke so its events are heard.
StartAttempt(s, retry) ==
  \E j \in Job :
    /\ Unused(j)
    /\ jobRef' = j /\ resolver' = j
    /\ job' = [job EXCEPT ![j] = [seq |-> s, retry |-> retry, state |-> "invoked"]]

\* The effect that a newly rendered state starts, by its kind.
StartsResolve ==
  /\ st.kind = "resolving"
  /\ resolve' = [seq |-> st.seq,
                 how |-> IF peer = st.seq THEN "peer"
                         ELSE IF ~st.fresh /\ warm = st.seq THEN "warm" ELSE "yt-dlp"]
  /\ warm' = IF st.fresh THEN Nil ELSE warm
  /\ UNCHANGED <<downloadVars, presentationVars>>

StartsDownload ==
  /\ st.kind = "downloading"
  /\ StartAttempt(st.seq, FALSE)
  /\ resolve' = [seq |-> Nil, how |-> "none"]
  /\ UNCHANGED <<warm, presentationVars>>

StartsNoLoading ==
  /\ st.kind \notin {"resolving", "downloading"}
  /\ resolve' = [seq |-> Nil, how |-> "none"]
  /\ IF st.kind = "cached" /\ wanted.seq # st.seq
       THEN AskPresentation(st.seq, FALSE) ELSE UNCHANGED presentationVars
  /\ UNCHANGED <<warm, downloadVars>>

Render ==
  /\ st # shown
  /\ shown' = st
  /\ IF <<st.kind, st.seq>> = <<shown.kind, shown.seq>>
       THEN UNCHANGED <<resolve, warm, downloadVars, presentationVars>>
       ELSE StartsResolve \/ StartsDownload \/ StartsNoLoading
  /\ UNCHANGED <<source, opened, st, peer>>

\* The resolve effect's await settles; until the next render it is not cancelled.
ResolveSettles ==
  /\ resolve.seq # Nil
  /\ resolve' = [seq |-> Nil, how |-> "none"]
  /\ \/ st' = Resolved(resolve.seq, resolve.how)
     \/ resolve.how = "yt-dlp" /\ st' = ResolveFailed(resolve.seq)
  /\ UNCHANGED <<source, opened, shown, warm, peer, downloadVars, presentationVars>>

\* onPlayerReady.
PlayerReady ==
  /\ shown.kind = "streaming"
  /\ st' = Scoped(shown.seq, IF st.kind = "streaming" THEN [st EXCEPT !.ready = TRUE] ELSE st)
  /\ st' # st
  /\ UNCHANGED <<source, opened, shown, resolve, warm, peer, downloadVars, presentationVars>>

\* onMediaError, or the 15 seconds of a stream that is not ready.
StreamDies ==
  /\ shown.kind = "streaming"
  /\ st' = StreamFailed(shown.seq)
  /\ st' # st
  /\ UNCHANGED <<source, opened, shown, resolve, warm, peer, downloadVars, presentationVars>>

-----------------------------------------------------------------------------
(* The download job.                                                       *)

Spawned(j) ==
  /\ job[j].state = "invoked"
  /\ job' = [job EXCEPT ![j].state = "running"]
  /\ UNCHANGED <<source, opened, stateVars, jobRef, resolver, presentationVars>>

\* The attempt of job j rejects: one retry with cookies, or the failed state.
AttemptFails(j) ==
  \/ /\ ~job[j].retry
     /\ \E k \in Job :
          /\ Unused(k)
          /\ jobRef' = k /\ resolver' = k
          /\ job' = [job EXCEPT ![j] = Idle,
                                ![k] = [seq |-> job[j].seq, retry |-> TRUE, state |-> "invoked"]]
     /\ UNCHANGED st
  \/ /\ st' = DownloadEnds(job[j].seq, "failed")
     /\ jobRef' = Nil /\ resolver' = Nil
     /\ job' = [job EXCEPT ![j] = Idle]

\* The command refuses (no yt-dlp, no browser).  The handler settles its own
\* promise, but takes down whichever resolver it finds.
Refused(j) ==
  /\ job[j].state = "invoked"
  /\ IF resolver = j
       THEN AttemptFails(j)
       ELSE /\ LateRefusals
            /\ resolver' = Nil
            /\ job' = [job EXCEPT ![j] = Idle]
            /\ UNCHANGED <<st, jobRef>>
  /\ UNCHANGED <<source, opened, shown, resolve, warm, peer, presentationVars>>

\* Mutant: a done event taken for the job that is awaited.
DoneForAny(j) ==
  /\ job[j].state = "running"
  /\ IF resolver = Nil
       THEN job' = [job EXCEPT ![j] = Idle] /\ UNCHANGED <<st, jobRef, resolver>>
       ELSE /\ st' = DownloadEnds(job[j].seq, "cached")
            /\ jobRef' = Nil /\ resolver' = Nil
            /\ job' = [job EXCEPT ![j] = Idle]
  /\ UNCHANGED <<source, opened, shown, resolve, warm, peer, presentationVars>>

\* playback-prep-done: heard only for the job the page names.
Done(j) ==
  /\ job[j].state = "running"
  /\ IF jobRef # j \/ resolver = Nil
       THEN /\ job' = [job EXCEPT ![j] = Idle]
            /\ resolver' = IF jobRef = j THEN Nil ELSE resolver
            /\ UNCHANGED <<st, jobRef>>
       ELSE \/ AttemptFails(j)
            \/ /\ st' = DownloadEnds(job[j].seq, "cached")
               /\ jobRef' = Nil /\ resolver' = Nil
               /\ job' = [job EXCEPT ![j] = Idle]
  /\ UNCHANGED <<source, opened, shown, resolve, warm, peer, presentationVars>>

-----------------------------------------------------------------------------
(* The presentation source.                                                *)

\* onPresentationExpired, or the timer before its expiry.
RefreshPresentation ==
  /\ wanted.request < Requests
  /\ shown.kind = "cached" \/ (presented # Nil /\ shown.kind # "inactive" /\ shown.seq = wanted.seq)
  /\ AskPresentation(shown.seq, TRUE)
  /\ UNCHANGED <<source, opened, stateVars, downloadVars>>

\* Mutant: an answer looked at for its source but not for its request's.
PresentsAnything(r) ==
  /\ r \in asked
  /\ asked' = asked \ {r}
  /\ presented' = r.seq
  /\ UNCHANGED <<source, opened, stateVars, downloadVars, wanted>>

\* An answer counts if it is still the last request, of the source still wanted.
PresentationResolved(r) ==
  /\ r \in asked
  /\ asked' = asked \ {r}
  /\ \/ r = wanted /\ presented' = r.seq
     \/ UNCHANGED presented
  /\ UNCHANGED <<source, opened, stateVars, downloadVars, wanted>>

How == {"stream", "warm", "download", "cached", "peer"}

PlaybackNext ==
  \/ OpenSource \/ (\E how \in How : Load(how)) \/ PromoteLive \/ StopDownload
  \/ Render \/ ResolveSettles \/ PlayerReady \/ StreamDies
  \/ \E j \in Job : Spawned(j) \/ Refused(j) \/ Done(j)
  \/ RefreshPresentation \/ (\E r \in asked : PresentationResolved(r))

PlaybackSpec == PlaybackInit /\ [][PlaybackNext]_playbackVars

\* React renders, resolves settle, and downloads are spawned and end.
PlaybackFairness ==
  /\ WF_playbackVars(Render) /\ WF_playbackVars(ResolveSettles)
  /\ \A j \in Job : WF_playbackVars(Spawned(j) \/ Refused(j)) /\ WF_playbackVars(Done(j))

-----------------------------------------------------------------------------
(* What the player promises.                                               *)

\* Only the source opened last is played, from a stream or a copy resolved for
\* that source, whatever results of earlier ones are still on their way.
PlaysTheSource ==
  /\ st.kind # "inactive" => st.seq = source /\ presented \in {Nil, source}
  /\ st.kind \in {"streaming", "cached"} => st.of = source

\* With LateRefusals violated: a download that is shown is one whose end the page
\* will hear of.
DownloadIsHeard ==
  shown.kind = "downloading" /\ st = shown => jobRef # Nil /\ resolver = jobRef

\* Loading ends, in a player, a failure or the empty state.
LoadingEnds ==
  \A s \in Src :
    (st.seq = s /\ st.kind \in {"resolving", "downloading"})
      ~> (st.seq # s \/ st.kind \notin {"resolving", "downloading"})

\* Violated: a peer's stream is never handed to the downloader ("the download
\* fallback is not available and must not be attempted").
PeerIsNotDownloaded == opened = "peer" => st.kind # "downloading"
=============================================================================
