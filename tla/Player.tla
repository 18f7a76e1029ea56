--------------------------------- MODULE Player ---------------------------------
(* The video player (src/src/web/src/components/VideoPlayer.jsx) on a series:  *)
(* the chain of requests that loads an episode, the skip button, the prompt    *)
(* for the next episode and its countdown. The route of the next episode       *)
(* renders the same component, so all its state lives on from one episode to   *)
(* the next, and the old video goes on until the new stream is authorised.     *)
EXTENDS Integers, Sequences

CONSTANTS Episodes,   \* the series is 1 .. Episodes
          Seconds,    \* what is left of an episode when its prompt appears
          MaxMoves,   \* bound: what the user does
          MaxMissing  \* bound: requests that fail

ASSUME PlayerAssumption == Episodes \in Nat \ {0} /\ Seconds \in Nat

VARIABLES
    mediaId,        \* the episode of the route
    media, streamUrl, skipSegments, nextEpisode,   \* of which episode; 0: none
    error,
    loads,          \* the effects that load an episode, in the order they began
    playing,        \* what the component thinks of the video
    rolling, at,    \* what the video does, and where it is
    currentSkip, showSkip,
    showNext, countdown, autoPlay,
    counted,        \* history: the episodes whose countdown has reached 0
    skipped,        \* history: an episode was left by auto-play before its end
    marked,         \* the episodes marked watched
    ended,          \* history: the episodes whose video has ended
    moves, missing

player == <<mediaId, media, streamUrl, skipSegments, nextEpisode, error, loads, playing, rolling,
            at, currentSkip, showSkip, showNext, countdown, autoPlay, counted, skipped, marked,
            ended, moves, missing>>

None == -1
Places == <<"intro", "body", "credits", "end">>
Place == Places[at]

\* ignored is the flag the cleanup of the effect sets; the helpers are handed
\* its value, which they check instead.
Load(id) == [id |-> id, pc |-> "item", ignored |-> FALSE, handed |-> FALSE]
Loading(k) == k \in DOMAIN loads /\ loads[k].pc # "done"
Quiescent == \A k \in DOMAIN loads : ~Loading(k)

PlayerInit ==
    /\ mediaId = 1
    /\ media = 0 /\ streamUrl = 0 /\ skipSegments = 0 /\ nextEpisode = 0
    /\ error = FALSE
    /\ loads = <<Load(1)>>
    /\ playing = FALSE /\ rolling = FALSE /\ at = 1
    /\ currentSkip = FALSE /\ showSkip = FALSE
    /\ showNext = FALSE /\ countdown = None /\ autoPlay = TRUE
    /\ counted = {} /\ skipped = FALSE /\ marked = {} /\ ended = {}
    /\ moves = 0 /\ missing = 0

\* navigate: the effect of the old episode is cleaned up, that of the new runs.
Navigate(id, ls) ==
    IF id = mediaId THEN mediaId' = mediaId /\ loads' = ls
    ELSE /\ mediaId' = id
         /\ loads' = Append([k \in DOMAIN ls |-> [ls[k] EXCEPT !.ignored = TRUE]], Load(id))

\* The effect that plays the next episode at 0 runs when the countdown, the next
\* episode or the switch changes.
AutoPlayNext(ls) ==
    LET fires == /\ countdown' = 0 /\ nextEpisode' # 0 /\ autoPlay'
                 /\ <<countdown, nextEpisode, autoPlay>> # <<countdown', nextEpisode', autoPlay'>>
    IN  /\ Navigate(IF fires THEN nextEpisode' ELSE mediaId, ls)
        /\ skipped' = (skipped \/ (fires /\ nextEpisode' # mediaId /\ mediaId \notin counted'))

-------------------------------------------------------------------------------
(* fetchMedia                                                                  *)

Step(k, pc) == [loads EXCEPT ![k].pc = pc]

\* Mutant: the flag is not read after the item came.
ItemAnswered_AlsoIgnored(k) ==
    /\ loads[k].pc = "item"
    /\ loads' = Step(k, "stream") /\ media' = loads[k].id
    /\ UNCHANGED <<mediaId, streamUrl, skipSegments, nextEpisode, error, playing, rolling, at,
                   currentSkip, showSkip, showNext, countdown, autoPlay, counted, skipped, marked,
                   ended, moves, missing>>

ItemAnswered(k) ==
    /\ loads[k].pc = "item"
    /\ IF loads[k].ignored THEN loads' = Step(k, "done") /\ UNCHANGED media
       ELSE loads' = Step(k, "stream") /\ media' = loads[k].id
    /\ UNCHANGED <<mediaId, streamUrl, skipSegments, nextEpisode, error, playing, rolling, at,
                   currentSkip, showSkip, showNext, countdown, autoPlay, counted, skipped, marked,
                   ended, moves, missing>>

\* A new source: the video starts over, and there is no autoplay attribute.
StreamAuthorized(k) ==
    /\ loads[k].pc = "stream"
    /\ IF loads[k].ignored THEN loads' = Step(k, "done") /\ UNCHANGED <<streamUrl, at, rolling>>
       ELSE /\ loads' = Step(k, "segments")
            /\ streamUrl' = loads[k].id /\ at' = 1 /\ rolling' = FALSE
    /\ UNCHANGED <<mediaId, media, skipSegments, nextEpisode, error, playing, currentSkip, showSkip,
                   showNext, countdown, autoPlay, counted, skipped, marked, ended, moves, missing>>

\* handed was FALSE when the helper was called: the segments are set whatever
\* has become of the route since.
SegmentsAnswered(k) ==
    /\ loads[k].pc = "segments"
    /\ loads' = [loads EXCEPT ![k].pc = "next", ![k].handed = loads[k].ignored]
    /\ skipSegments' = IF loads[k].handed THEN skipSegments ELSE loads[k].id
    /\ UNCHANGED <<mediaId, media, streamUrl, nextEpisode, error, playing, rolling, at, currentSkip,
                   showSkip, showNext, countdown, autoPlay, counted, skipped, marked, ended, moves, missing>>

\* There is none after the last: the old value stays.
NextAnswered(k) ==
    /\ loads[k].pc = "next"
    /\ nextEpisode' = IF loads[k].handed \/ loads[k].id = Episodes THEN nextEpisode ELSE loads[k].id + 1
    /\ UNCHANGED <<countdown, autoPlay, counted>>
    /\ AutoPlayNext(Step(k, "done"))
    /\ UNCHANGED <<media, streamUrl, skipSegments, error, playing, rolling, at, currentSkip, showSkip,
                   showNext, marked, ended, moves, missing>>

\* A request fails: the item ends the chain, the others are done without.
LoadFails(k) ==
    /\ Loading(k)
    /\ missing < MaxMissing
    /\ missing' = missing + 1
    /\ \/ /\ loads[k].pc = "item"
          /\ loads' = Step(k, "done")
          /\ error' = (error \/ ~loads[k].ignored)
       \/ /\ loads[k].pc = "stream"
          /\ loads' = [loads EXCEPT ![k].pc = "segments", ![k].handed = loads[k].ignored]
          /\ error' = TRUE
       \/ /\ loads[k].pc = "segments"
          /\ loads' = [loads EXCEPT ![k].pc = "next", ![k].handed = loads[k].ignored]
          /\ UNCHANGED error
       \/ loads[k].pc = "next" /\ loads' = Step(k, "done") /\ UNCHANGED error
    /\ UNCHANGED <<mediaId, media, streamUrl, skipSegments, nextEpisode, playing, rolling, at,
                   currentSkip, showSkip, showNext, countdown, autoPlay, counted, skipped, marked,
                   ended, moves>>

-------------------------------------------------------------------------------
(* The video and the timers. A loader stands in for the player until the first *)
(* chain is through, and the error page has no video.                          *)

Watching == loads[1].pc = "done" /\ media # 0 /\ streamUrl # 0 /\ ~error
Same == <<mediaId, media, streamUrl, skipSegments, nextEpisode, error, loads, skipped, missing>>

Rolls ==
    /\ Watching /\ rolling /\ Place # "end"
    /\ at' = at + 1
    /\ UNCHANGED <<playing, rolling, currentSkip, showSkip, showNext, countdown, autoPlay, counted,
                   marked, ended, moves>>
    /\ UNCHANGED Same

\* handleEnded marks the episode of the route.
HandleEnded ==
    /\ Watching /\ rolling /\ Place = "end"
    /\ rolling' = FALSE /\ playing' = FALSE
    /\ marked' = marked \cup {mediaId}
    /\ ended' = ended \cup {streamUrl}
    /\ UNCHANGED <<at, currentSkip, showSkip, showNext, countdown, autoPlay, counted, moves>>
    /\ UNCHANGED Same

\* The intro is the one segment.
CheckSkipSegment ==
    /\ Watching /\ playing /\ skipSegments # 0
    /\ (Place = "intro") # currentSkip
    /\ currentSkip' = (Place = "intro") /\ showSkip' = (Place = "intro")
    /\ UNCHANGED <<playing, rolling, at, showNext, countdown, autoPlay, counted, marked, ended, moves>>
    /\ UNCHANGED Same

HideSkip ==
    /\ showSkip /\ showSkip' = FALSE
    /\ UNCHANGED <<playing, rolling, at, currentSkip, showNext, countdown, autoPlay, counted, marked,
                   ended, moves>>
    /\ UNCHANGED Same

\* Mutant: the credits set the countdown on every check.
CheckEndCredits_Again ==
    /\ Watching /\ playing /\ nextEpisode # 0
    /\ Place = "credits"
    /\ showNext' = TRUE
    /\ countdown' = IF autoPlay THEN Seconds ELSE countdown
    /\ UNCHANGED <<playing, rolling, at, currentSkip, showSkip, autoPlay, counted, marked, ended, moves>>
    /\ UNCHANGED Same

CheckEndCredits ==
    /\ Watching /\ playing /\ nextEpisode # 0
    /\ Place = "credits" /\ ~showNext
    /\ showNext' = TRUE
    /\ countdown' = IF autoPlay THEN Seconds ELSE countdown
    /\ UNCHANGED <<playing, rolling, at, currentSkip, showSkip, autoPlay, counted, marked, ended, moves>>
    /\ UNCHANGED Same

CountDown ==
    /\ ~error /\ countdown > 0
    /\ countdown' = countdown - 1
    /\ counted' = IF countdown' = 0 THEN counted \cup {mediaId} ELSE counted
    /\ UNCHANGED <<nextEpisode, autoPlay>>
    /\ AutoPlayNext(loads)
    /\ UNCHANGED <<media, streamUrl, skipSegments, error, playing, rolling, at, currentSkip, showSkip,
                   showNext, marked, ended, moves, missing>>

-------------------------------------------------------------------------------
(* The user                                                                    *)

Move == moves < MaxMoves /\ moves' = moves + 1

\* play() starts a video that is at its end over.
TogglePlay ==
    /\ Watching /\ Move
    /\ rolling' = ~playing /\ playing' = ~playing
    /\ at' = IF ~playing /\ Place = "end" THEN 1 ELSE at
    /\ UNCHANGED <<currentSkip, showSkip, showNext, countdown, autoPlay, counted, marked, ended>>
    /\ UNCHANGED Same

HandleSeek(place) ==
    /\ Watching /\ Move
    /\ place # at /\ at' = place
    /\ UNCHANGED <<playing, rolling, currentSkip, showSkip, showNext, countdown, autoPlay, counted,
                   marked, ended>>
    /\ UNCHANGED Same

HandleSkipSegment ==
    /\ Watching /\ showSkip /\ currentSkip /\ Move
    /\ at' = 2
    /\ currentSkip' = FALSE /\ showSkip' = FALSE
    /\ UNCHANGED <<playing, rolling, showNext, countdown, autoPlay, counted, marked, ended>>
    /\ UNCHANGED Same

PlayNextEpisode ==
    /\ Watching /\ showNext /\ nextEpisode # 0 /\ Move
    /\ Navigate(nextEpisode, loads)
    /\ UNCHANGED <<media, streamUrl, skipSegments, nextEpisode, error, playing, rolling, at,
                   currentSkip, showSkip, showNext, countdown, autoPlay, counted, skipped, marked,
                   ended, missing>>

\* The browser's back button, from an episode to the one before. Bound: while
\* no more chains were begun than there are episodes.
GoBack ==
    /\ mediaId > 1 /\ Len(loads) < Episodes /\ Move
    /\ Navigate(mediaId - 1, loads)
    /\ UNCHANGED <<media, streamUrl, skipSegments, nextEpisode, error, playing, rolling, at,
                   currentSkip, showSkip, showNext, countdown, autoPlay, counted, skipped, marked,
                   ended, missing>>

CancelNextEpisode ==
    /\ Watching /\ showNext /\ nextEpisode # 0 /\ Move
    /\ showNext' = FALSE /\ countdown' = None
    /\ UNCHANGED <<playing, rolling, at, currentSkip, showSkip, autoPlay, counted, marked, ended>>
    /\ UNCHANGED Same

ToggleAutoPlay ==
    /\ Watching /\ Move
    /\ autoPlay' = ~autoPlay
    /\ UNCHANGED <<nextEpisode, countdown, counted>>
    /\ AutoPlayNext(loads)
    /\ UNCHANGED <<media, streamUrl, skipSegments, error, playing, rolling, at, currentSkip, showSkip,
                   showNext, marked, ended, missing>>

\* The bars; the keys do no more than their buttons. A seek: to the start, or
\* into the credits.
Controls == TogglePlay \/ GoBack \/ \E place \in {1, 3} : HandleSeek(place)

\* The skip button and the prompt for the next episode.
Overlay == HandleSkipSegment \/ PlayNextEpisode \/ CancelNextEpisode

PlayerNext ==
    \/ \E k \in DOMAIN loads : \/ ItemAnswered(k) \/ StreamAuthorized(k)
                               \/ SegmentsAnswered(k) \/ NextAnswered(k) \/ LoadFails(k)
    \/ Rolls \/ HandleEnded \/ CheckSkipSegment \/ HideSkip \/ CheckEndCredits \/ CountDown
    \/ Controls \/ Overlay \/ ToggleAutoPlay

\* A timer that is set fires.
PlayerSpec == PlayerInit /\ [][PlayerNext]_player /\ WF_player(CountDown)
-------------------------------------------------------------------------------
PlayerTypeOK ==
    /\ mediaId \in 1 .. Episodes
    /\ {media, streamUrl, skipSegments, nextEpisode} \subseteq 0 .. Episodes
    /\ at \in DOMAIN Places /\ countdown \in {None} \cup 0 .. Seconds
    /\ rolling => playing

\* Once an episode's own chain is through, the episode on the screen and its
\* stream are those of the route: no late answer of an episode that was left
\* brings it back.
MediaFollowsRoute ==
    \A k \in DOMAIN loads :
        ~loads[k].ignored /\ loads[k].pc \in {"segments", "next", "done"} /\ ~error
            => media = mediaId /\ streamUrl = mediaId

\* A countdown comes to its end, or is cancelled, also over a paused video.
CountdownEnds == countdown > 0 ~> countdown \in {0, None} \/ error

\* What the setting says: automatically play the next episode when the current
\* one ends (VideoPlayer.jsx:1050). Auto-play leaves no episode before its end.
PlaysToTheEnd == ~skipped

\* What is marked watched has been played to its end.
WatchedWasPlayed == marked \subseteq ended
================================================================================
