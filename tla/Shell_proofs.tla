----------------------------- MODULE Shell_proofs -----------------------------
(* What holds of what surrounds the pages of the web client, whatever its      *)
(* bounds: the retrying client for any number of callers, the player for a     *)
(* series of any length, the wizard and the contexts however often the page is *)
(* loaded, requests are made, lost or overtaken.                               *)
EXTENDS WebSession, FirstLaunch, ApiRetry, Player, SequenceTheorems, FiniteSetTheorems, TLAPS

-------------------------------------------------------------------------------
(* The retrying client.                                                        *)

\* The calls that have passed the check and have yet to be counted.
Limited == {c \in Callers : call[c] = "limited"}

\* What is spent, and what the waiting calls are still going to spend.
RetryInv == RetryTypeOK /\ retryCount + Cardinality(Limited) < MAX_RETRIES + Cardinality(Callers)

\* Any set of callers has a size, at most that of all.
LEMMA CallersCount ==
    ASSUME NEW S \in SUBSET Callers
    PROVE  IsFiniteSet(S) /\ Cardinality(S) \in Nat /\ Cardinality(S) <= Cardinality(Callers)
  BY FS_Subset, FS_CardinalityType, RetryAssumption

LEMMA RetryInitInv == RetryInit => RetryInv
<1> SUFFICES ASSUME RetryInit PROVE RetryInv
  OBVIOUS
<1>1. Limited = {}
  BY DEF RetryInit, Limited
<1>2. Cardinality(Callers) \in Nat \ {0}
  BY FS_CardinalityType, FS_EmptySet, RetryAssumption
<1> QED
  BY <1>1, <1>2, FS_EmptySet, RetryAssumption DEF RetryInit, RetryInv, RetryTypeOK

\* A step that moves one call: what it does to the waiting ones.
LEMMA CallMoves ==
    ASSUME RetryInv, NEW c \in Callers, NEW where, Goes(c, where)
    PROVE  /\ where = "limited" /\ call[c] # "limited" =>
                 Limited' = Limited \cup {c} /\ Cardinality(Limited') = Cardinality(Limited) + 1
           /\ where # "limited" /\ call[c] = "limited" =>
                 Limited' = Limited \ {c} /\ Cardinality(Limited') = Cardinality(Limited) - 1
           /\ where # "limited" /\ call[c] # "limited" => Limited' = Limited /\ c \notin Limited
<1>1. /\ call' = [call EXCEPT ![c] = where] /\ DOMAIN call = Callers
      /\ IsFiniteSet(Limited)
  BY CallersCount DEF Goes, RetryInv, RetryTypeOK, Limited
<1>2. CASE where = "limited" /\ call[c] # "limited"
  <2>1. Limited' = Limited \cup {c} /\ c \notin Limited
    BY <1>1, <1>2 DEF Limited
  <2> QED
    BY <1>1, <1>2, <2>1, FS_AddElement
<1>3. CASE where # "limited" /\ call[c] = "limited"
  <2>1. Limited' = Limited \ {c} /\ c \in Limited
    BY <1>1, <1>3 DEF Limited
  <2> QED
    BY <1>1, <1>3, <2>1, FS_RemoveElement
<1>4. CASE where # "limited" /\ call[c] # "limited"
  BY <1>1, <1>4 DEF Limited
<1> QED
  BY <1>2, <1>3, <1>4

\* Room for one more: whoever does not wait leaves one place among the waiting.
LEMMA OneIsOut ==
    ASSUME NEW c \in Callers, c \notin Limited
    PROVE  Cardinality(Limited) < Cardinality(Callers)
<1>1. /\ Limited \cup {c} \in SUBSET Callers
      /\ IsFiniteSet(Limited) /\ Cardinality(Limited) \in Nat
  BY CallersCount DEF Limited
<1>2. Cardinality(Limited \cup {c}) = Cardinality(Limited) + 1
  BY <1>1, FS_AddElement
<1> QED
  BY <1>1, <1>2, CallersCount

LEMMA RetryStep ==
    ASSUME RetryInv, [RetryNext]_retry
    PROVE  RetryInv'
<1> USE RetryAssumption
<1>1. /\ Cardinality(Limited) \in Nat /\ Cardinality(Callers) \in Nat
      /\ Limited \in SUBSET Callers /\ retryCount \in Nat
      /\ call \in [Callers -> {"none", "sent", "delayed", "limited"}]
  BY CallersCount DEF Limited, RetryInv, RetryTypeOK
<1>2. Cardinality(Limited') \in Nat
  BY CallersCount DEF Limited
<1>3. CASE UNCHANGED retry
  BY <1>3 DEF retry, RetryInv, RetryTypeOK, Limited
<1>4. ASSUME NEW c \in Callers, Send(c)
      PROVE  RetryInv'
  <2>1. Limited' = Limited
    BY <1>4, CallMoves DEF Send
  <2>2. RetryTypeOK'
    BY <1>1, <1>4 DEF Send, Goes, RetryInv, RetryTypeOK
  <2> QED
    BY <1>4, <2>1, <2>2 DEF Send, RetryInv
<1>5. ASSUME NEW c \in Callers, call[c] = "sent", Rejects(c)
      PROVE  RetryInv'
  <2>1. Limited' = Limited
    BY <1>5, CallMoves DEF Rejects
  <2>2. RetryTypeOK'
    BY <1>1, <1>5 DEF Rejects, Goes, RetryInv, RetryTypeOK
  <2> QED
    BY <1>5, <2>1, <2>2 DEF Rejects, RetryInv
<1>6. ASSUME NEW c \in Callers, Succeeds(c)
      PROVE  RetryInv'
  <2>1. Limited' = Limited
    BY <1>6, CallMoves DEF Succeeds
  <2>2. RetryTypeOK' /\ retryCount' <= retryCount
    BY <1>1, <1>6 DEF Succeeds, clearRetry, Goes, RetryInv, RetryTypeOK
  <2>3. retryCount' \in Nat
    BY <2>2 DEF RetryTypeOK
  <2> QED
    BY <1>1, <2>1, <2>2, <2>3 DEF RetryInv
<1>7. ASSUME NEW c \in Callers, call[c] = "sent", canRetry, handleServiceUnavailable(c)
      PROVE  RetryInv'
  <2>1. Limited' = Limited /\ c \notin Limited
    BY <1>7, CallMoves DEF handleServiceUnavailable
  <2>2. RetryTypeOK' /\ retryCount' = retryCount + 1
    BY <1>1, <1>7 DEF handleServiceUnavailable, incrementRetry, Goes, RetryInv, RetryTypeOK
  <2>3. Cardinality(Limited) < Cardinality(Callers)
    BY <2>1, OneIsOut
  <2> QED
    BY <1>1, <1>7, <2>1, <2>2, <2>3 DEF RetryInv, canRetry
<1>8. ASSUME NEW c \in Callers, call[c] = "sent", canRetry, Goes(c, "limited"),
             UNCHANGED <<retryCount, unwinds, succeeded, sends>>
      PROVE  RetryInv'
  <2>1. Cardinality(Limited') = Cardinality(Limited) + 1
    BY <1>8, CallMoves
  <2>2. Cardinality(Limited') <= Cardinality(Callers)
    BY CallersCount DEF Limited
  <2>3. RetryTypeOK'
    BY <1>1, <1>8 DEF Goes, RetryInv, RetryTypeOK
  <2> QED
    BY <1>1, <1>8, <2>1, <2>2, <2>3 DEF RetryInv, canRetry
<1>9. ASSUME NEW c \in Callers, Delayed(c)
      PROVE  RetryInv'
  <2>1. Limited' = Limited
    BY <1>9, CallMoves DEF Delayed
  <2>2. RetryTypeOK'
    BY <1>1, <1>9 DEF Delayed, Goes, RetryInv, RetryTypeOK
  <2> QED
    BY <1>9, <2>1, <2>2 DEF Delayed, RetryInv
<1>10. ASSUME NEW c \in Callers, RetryAfter(c)
       PROVE  RetryInv'
  <2>1. Cardinality(Limited') = Cardinality(Limited) - 1 /\ retryCount' = retryCount + 1
    BY <1>10, CallMoves DEF RetryAfter, incrementRetry
  <2>2. RetryTypeOK'
    BY <1>1, <1>10 DEF RetryAfter, incrementRetry, Goes, RetryInv, RetryTypeOK
  <2> QED
    BY <1>1, <2>1, <2>2 DEF RetryInv
<1> QED
  BY <1>3, <1>4, <1>5, <1>6, <1>7, <1>8, <1>9, <1>10
     DEF RetryNext, Comes, Refused, Unavailable, RateLimited

\* For any number of callers and any budget: calls that wait at the same time
\* overspend the retries of their url by less than one each (canRetry is asked
\* before the wait, incrementRetry comes after it).
THEOREM RetriesBounded == RetrySpec => []OverrunBounded
<1>1. RetryInv => OverrunBounded
  <2> SUFFICES ASSUME RetryInv PROVE OverrunBounded
    OBVIOUS
  <2>1. Cardinality(Limited) \in Nat /\ Cardinality(Callers) \in Nat
    BY CallersCount DEF Limited
  <2> QED
    BY <2>1, RetryAssumption DEF RetryInv, RetryTypeOK, OverrunBounded
<1> QED
  BY <1>1, RetryInitInv, RetryStep, PTL DEF RetrySpec

-------------------------------------------------------------------------------
(* The player.                                                                 *)

LoadPc == {"item", "stream", "segments", "next", "done"}
LoadState == [id : 1 .. Episodes, pc : LoadPc, ignored : BOOLEAN, handed : BOOLEAN]

\* Of the effects that load an episode the last one is the route's, and the
\* flags of all the others are set.
ChainOf(ls, m) ==
    /\ ls \in Seq(LoadState) /\ ls # <<>>
    /\ ls[Len(ls)].id = m /\ ~ls[Len(ls)].ignored
    /\ \A k \in DOMAIN ls : k # Len(ls) => ls[k].ignored

Progress(ls) == ls[Len(ls)].pc

\* What the last effect has set so far is of the route's episode.
PlayerInv ==
    /\ PlayerTypeOK /\ playing \in BOOLEAN
    /\ ChainOf(loads, mediaId)
    /\ Progress(loads) # "item" /\ ~error => media = mediaId
    /\ Progress(loads) \notin {"item", "stream"} /\ ~error => streamUrl = mediaId

\* One effect goes on: the others, and whose they are, stay.
LEMMA EffectMoves ==
    ASSUME ChainOf(loads, mediaId), NEW k \in DOMAIN loads, NEW ls,
           NEW pc \in LoadPc, NEW handed \in BOOLEAN,
           ls = [loads EXCEPT ![k].pc = pc] \/ ls = [loads EXCEPT ![k].pc = pc, ![k].handed = handed]
    PROVE  /\ ChainOf(ls, mediaId)
           /\ Len(ls) = Len(loads) /\ DOMAIN ls = DOMAIN loads
           /\ Progress(ls) = IF k = Len(loads) THEN pc ELSE Progress(loads)
<1> DEFINE l == ls[k]
<1>1. /\ loads \in Seq(LoadState) /\ Len(loads) \in Nat \ {0}
      /\ DOMAIN loads = 1 .. Len(loads) /\ loads[k] \in LoadState
  BY DEF ChainOf
<1>2. /\ l \in LoadState /\ l.pc = pc /\ l.id = loads[k].id /\ l.ignored = loads[k].ignored
      /\ ls = [loads EXCEPT ![k] = l]
  BY SMTT(30), <1>1 DEF LoadState
<1> HIDE DEF l
<1>3. ls \in Seq(LoadState) /\ Len(ls) = Len(loads) /\ DOMAIN ls = DOMAIN loads
  BY <1>1, <1>2, ExceptSeq
<1>4. \A j \in DOMAIN loads : ls[j] = IF j = k THEN l ELSE loads[j]
  BY <1>1, <1>2
<1>5. Len(loads) \in DOMAIN loads
  BY <1>1
<1> QED
  BY <1>1, <1>2, <1>3, <1>4, <1>5 DEF ChainOf, Progress

\* The route changes, or it does not.
LEMMA NavigateMoves ==
    ASSUME NEW ls, ChainOf(ls, mediaId), NEW id \in 1 .. Episodes, mediaId \in 1 .. Episodes,
           Navigate(id, ls)
    PROVE  /\ mediaId' \in 1 .. Episodes
           /\ ChainOf(loads', mediaId')
           /\ (mediaId' = mediaId /\ loads' = ls) \/ Progress(loads') = "item"
<1>1. CASE id = mediaId
  BY <1>1 DEF Navigate
<1>2. CASE id # mediaId
  <2> DEFINE off == [k \in DOMAIN ls |-> [ls[k] EXCEPT !.ignored = TRUE]]
  <2>1. mediaId' = id /\ loads' = Append(off, Load(id))
    BY <1>2 DEF Navigate
  <2>2. ls \in Seq(LoadState) /\ Len(ls) \in Nat /\ DOMAIN ls = 1 .. Len(ls)
    BY DEF ChainOf
  <2>3. ASSUME NEW k \in DOMAIN ls PROVE off[k] \in LoadState /\ off[k].ignored
    <3>1. ls[k] \in LoadState /\ off[k] = [ls[k] EXCEPT !.ignored = TRUE]
      BY <2>2
    <3> HIDE DEF off
    <3> QED
      BY <3>1 DEF LoadState
  <2>4. off \in [1 .. Len(ls) -> LoadState]
    BY <2>2, <2>3
  <2>5. off \in Seq(LoadState) /\ Len(off) = Len(ls) /\ DOMAIN off = DOMAIN ls
    BY <2>2, <2>4, IsASeq
  <2> HIDE DEF off
  <2>6. /\ Load(id) \in LoadState /\ Load(id).id = id
        /\ ~Load(id).ignored /\ Load(id).pc = "item"
    BY DEF Load, LoadState, LoadPc
  <2>7. /\ loads' \in Seq(LoadState) /\ Len(loads') = Len(ls) + 1
        /\ loads'[Len(ls) + 1] = Load(id)
        /\ \A k \in 1 .. Len(ls) : loads'[k] = off[k]
    BY <2>1, <2>2, <2>5, <2>6, AppendProperties
  <2>8. DOMAIN loads' = 1 .. Len(ls) + 1 /\ loads' # <<>>
    BY <2>2, <2>7
  <2>9. loads'[Len(loads')].id = mediaId' /\ ~loads'[Len(loads')].ignored /\ Progress(loads') = "item"
    BY <2>1, <2>6, <2>7 DEF Progress
  <2>10. \A k \in DOMAIN loads' : k # Len(loads') => loads'[k].ignored
    BY <2>2, <2>3, <2>7, <2>8
  <2> QED
    BY <2>1, <2>7, <2>8, <2>9, <2>10 DEF ChainOf
<1> QED
  BY <1>1, <1>2

LEMMA PlayerInitInv == PlayerInit => PlayerInv
<1> SUFFICES ASSUME PlayerInit PROVE PlayerInv
  OBVIOUS
<1>1. Load(1) \in LoadState
  BY PlayerAssumption DEF Load, LoadState, LoadPc
<1>2. ChainOf(loads, mediaId) /\ Progress(loads) = "item"
  BY <1>1 DEF PlayerInit, ChainOf, Progress, Load
<1>3. PlayerTypeOK
  BY PlayerAssumption DEF PlayerInit, PlayerTypeOK, Places, None
<1> QED
  BY <1>2, <1>3 DEF PlayerInv, PlayerInit

\* What the effects do: only the route's sets what is shown.
LEMMA LoadStep ==
    ASSUME PlayerInv, NEW k \in DOMAIN loads,
           \/ ItemAnswered(k) \/ StreamAuthorized(k) \/ SegmentsAnswered(k)
           \/ NextAnswered(k) \/ LoadFails(k)
    PROVE  PlayerInv'
<1> USE PlayerAssumption
<1>1. /\ ChainOf(loads, mediaId) /\ loads \in Seq(LoadState)
      /\ loads[k].id \in 1 .. Episodes /\ loads[k].ignored \in BOOLEAN
      /\ loads[k].handed \in BOOLEAN
      /\ ~loads[k].ignored => k = Len(loads)
      /\ k = Len(loads) => loads[k].id = mediaId /\ ~loads[k].ignored
  <2>1. ChainOf(loads, mediaId) /\ loads \in Seq(LoadState)
    BY DEF PlayerInv, ChainOf
  <2>2. loads[k] \in LoadState
    BY <2>1
  <2>3. /\ loads[k].id \in 1 .. Episodes /\ loads[k].ignored \in BOOLEAN
        /\ loads[k].handed \in BOOLEAN
    BY <2>2 DEF LoadState
  <2> QED
    BY <2>1, <2>3 DEF ChainOf
<1>2. k = Len(loads) => Progress(loads) = loads[k].pc
  BY DEF Progress
<1>3. CASE ItemAnswered(k)
  <2>1. PICK pc \in LoadPc : loads' = Step(k, pc) /\ pc = IF loads[k].ignored THEN "done" ELSE "stream"
    BY <1>3 DEF ItemAnswered, LoadPc
  <2>2. ChainOf(loads', mediaId') /\ Progress(loads') = IF k = Len(loads) THEN pc ELSE Progress(loads)
    BY ZenonT(30), <1>1, <1>3, <2>1, EffectMoves DEF Step, ItemAnswered
  <2>3. PlayerTypeOK'
    BY <1>1, <1>3 DEF ItemAnswered, PlayerInv, PlayerTypeOK
  <2> QED
    BY <1>1, <1>2, <1>3, <2>1, <2>2, <2>3 DEF ItemAnswered, PlayerInv
<1>4. CASE StreamAuthorized(k)
  <2>1. PICK pc \in LoadPc : loads' = Step(k, pc) /\ pc = IF loads[k].ignored THEN "done" ELSE "segments"
    BY <1>4 DEF StreamAuthorized, LoadPc
  <2>2. ChainOf(loads', mediaId') /\ Progress(loads') = IF k = Len(loads) THEN pc ELSE Progress(loads)
    BY <1>1, <1>4, <2>1, EffectMoves DEF Step, StreamAuthorized
  <2>3. PlayerTypeOK'
    BY <1>1, <1>4 DEF StreamAuthorized, PlayerInv, PlayerTypeOK, Places
  <2>4. loads[k].pc = "stream"
    BY <1>4 DEF StreamAuthorized
  <2> QED
    BY <1>1, <1>2, <1>4, <2>1, <2>2, <2>3, <2>4 DEF StreamAuthorized, PlayerInv
<1>5. CASE SegmentsAnswered(k)
  <2>1. ChainOf(loads', mediaId') /\ Progress(loads') = IF k = Len(loads) THEN "next" ELSE Progress(loads)
    <3>1. PICK pc \in LoadPc, handed \in BOOLEAN :
             /\ pc = "next"
             /\ \/ loads' = [loads EXCEPT ![k].pc = pc]
                \/ loads' = [loads EXCEPT ![k].pc = pc, ![k].handed = handed]
      BY <1>1, <1>5 DEF SegmentsAnswered, LoadPc
    <3>2. mediaId' = mediaId
      BY <1>5 DEF SegmentsAnswered
    <3>3. ChainOf(loads', mediaId) /\ Progress(loads') = IF k = Len(loads) THEN "next" ELSE Progress(loads)
      BY <1>1, <3>1, <3>2, EffectMoves
    <3> QED
      BY <3>2, <3>3
  <2>2. PlayerTypeOK'
    BY <1>1, <1>5 DEF SegmentsAnswered, PlayerInv, PlayerTypeOK
  <2> QED
    BY <1>1, <1>2, <1>5, <2>1, <2>2 DEF SegmentsAnswered, PlayerInv
<1>6. CASE NextAnswered(k)
  <2> DEFINE ls == Step(k, "done")
  <2>1. ChainOf(ls, mediaId) /\ Progress(ls) = IF k = Len(loads) THEN "done" ELSE Progress(loads)
    BY <1>1, EffectMoves DEF Step, LoadPc
  <2>2. nextEpisode' \in 0 .. Episodes
    BY <1>1, <1>6 DEF NextAnswered, PlayerInv, PlayerTypeOK
  <2>3. PICK id \in 1 .. Episodes : Navigate(id, ls)
    <3>1. mediaId \in 1 .. Episodes /\ AutoPlayNext(ls)
      BY <1>6 DEF NextAnswered, PlayerInv, PlayerTypeOK
    <3> HIDE DEF ls
    <3> QED
      BY <2>2, <3>1 DEF AutoPlayNext
  <2>4. /\ mediaId' \in 1 .. Episodes /\ ChainOf(loads', mediaId')
        /\ (mediaId' = mediaId /\ loads' = ls) \/ Progress(loads') = "item"
    BY <2>1, <2>3, NavigateMoves DEF PlayerInv, PlayerTypeOK
  <2> HIDE DEF ls
  <2>5. PlayerTypeOK'
    BY <1>6, <2>2, <2>4 DEF NextAnswered, PlayerInv, PlayerTypeOK
  <2>6. UNCHANGED <<media, streamUrl, error, playing>> /\ loads[k].pc = "next"
    BY <1>6 DEF NextAnswered
  <2> QED
    BY <1>2, <2>1, <2>4, <2>5, <2>6 DEF PlayerInv
<1>7. CASE LoadFails(k)
  <2>1. PICK pc \in LoadPc, handed \in BOOLEAN :
           /\ loads' = [loads EXCEPT ![k].pc = pc] \/ loads' = [loads EXCEPT ![k].pc = pc, ![k].handed = handed]
           /\ loads[k].pc = "item" => error' = (error \/ ~loads[k].ignored)
           /\ loads[k].pc = "stream" => error' = TRUE
           /\ loads[k].pc \notin {"item", "stream"} => error' = error
    BY <1>1, <1>7 DEF LoadFails, LoadPc, Step
  <2>2. ChainOf(loads', mediaId') /\ Progress(loads') = IF k = Len(loads) THEN pc ELSE Progress(loads)
    BY <1>1, <1>7, <2>1, EffectMoves DEF LoadFails
  <2>3. PlayerTypeOK' /\ UNCHANGED <<media, streamUrl, mediaId, playing>>
    BY <1>1, <1>7 DEF LoadFails, PlayerInv, PlayerTypeOK
  <2>4. ~error' => ~error
    BY <1>1, <2>1, <1>7 DEF LoadFails
  <2> QED
    BY <1>1, <1>2, <2>1, <2>2, <2>3, <2>4 DEF PlayerInv
<1> QED
  BY <1>3, <1>4, <1>5, <1>6, <1>7

\* The video, the timers and the user leave the effects alone, unless the route
\* changes.
LEMMA PlayStep ==
    ASSUME PlayerInv,
           \/ Rolls \/ HandleEnded \/ CheckSkipSegment \/ HideSkip \/ CheckEndCredits
           \/ TogglePlay \/ (\E place \in {1, 3} : HandleSeek(place))
           \/ HandleSkipSegment \/ CancelNextEpisode
    PROVE  PlayerInv'
<1>1. UNCHANGED Same
  BY DEF Rolls, HandleEnded, CheckSkipSegment, HideSkip, CheckEndCredits, TogglePlay, HandleSeek,
         HandleSkipSegment, CancelNextEpisode
<1>2. PlayerTypeOK' /\ playing' \in BOOLEAN
  <2>1. /\ mediaId \in 1 .. Episodes /\ {media, streamUrl, skipSegments, nextEpisode} \subseteq 0 .. Episodes
        /\ at \in 1 .. 4 /\ countdown \in {None} \cup 0 .. Seconds
        /\ rolling => playing
        /\ playing \in BOOLEAN
    BY DEF PlayerInv, PlayerTypeOK, Places
  <2>2. Place # "end" => at # 4
    BY <2>1 DEF Place, Places
  <2>3. Seconds \in 0 .. Seconds
    BY PlayerAssumption
  <2>4. (rolling' => playing') /\ playing' \in BOOLEAN
    <3>1. CASE TogglePlay
      BY <3>1 DEF TogglePlay
    <3>2. CASE HandleEnded
      BY <3>2 DEF HandleEnded
    <3>3. CASE ~TogglePlay /\ ~HandleEnded
      <4>1. rolling' = rolling /\ playing' = playing
        BY <3>3 DEF Rolls, CheckSkipSegment, HideSkip, CheckEndCredits, HandleSeek,
                    HandleSkipSegment, CancelNextEpisode
      <4> QED
        BY <2>1, <4>1
    <3> QED
      BY <3>1, <3>2, <3>3
  <2>5. countdown' \in {None} \cup 0 .. Seconds
    BY <2>1, <2>3
       DEF Rolls, HandleEnded, CheckSkipSegment, HideSkip, CheckEndCredits, TogglePlay, HandleSeek,
           HandleSkipSegment, CancelNextEpisode
  <2>6. at' \in 1 .. 4
    BY <2>1, <2>2
       DEF Rolls, HandleEnded, CheckSkipSegment, HideSkip, CheckEndCredits, TogglePlay, HandleSeek,
           HandleSkipSegment, CancelNextEpisode
  <2> QED
    BY <1>1, <2>1, <2>4, <2>5, <2>6 DEF Same, PlayerTypeOK, Places
<1> QED
  BY <1>1, <1>2 DEF Same, PlayerInv

LEMMA RouteStep ==
    ASSUME PlayerInv, CountDown \/ PlayNextEpisode \/ GoBack \/ ToggleAutoPlay
    PROVE  PlayerInv'
<1> USE PlayerAssumption
<1>1. /\ mediaId \in 1 .. Episodes /\ nextEpisode \in 0 .. Episodes
      /\ countdown \in {None} \cup 0 .. Seconds
  BY DEF PlayerInv, PlayerTypeOK
<1>2. PICK id \in 1 .. Episodes : Navigate(id, loads)
  <2>1. ASSUME AutoPlayNext(loads), nextEpisode' = nextEpisode
        PROVE  \E id \in 1 .. Episodes : Navigate(id, loads)
    BY <1>1, <2>1 DEF AutoPlayNext
  <2>2. CASE CountDown \/ ToggleAutoPlay
    BY <2>1, <2>2 DEF CountDown, ToggleAutoPlay
  <2>3. CASE PlayNextEpisode \/ GoBack
    BY <1>1, <2>3 DEF PlayNextEpisode, GoBack
  <2> QED
    BY <2>2, <2>3
<1>3. /\ mediaId' \in 1 .. Episodes /\ ChainOf(loads', mediaId')
      /\ (mediaId' = mediaId /\ loads' = loads) \/ Progress(loads') = "item"
  BY <1>1, <1>2, NavigateMoves DEF PlayerInv
<1>4. /\ UNCHANGED <<media, streamUrl, skipSegments, nextEpisode, error, playing, rolling, at>>
      /\ countdown' = countdown \/ (countdown > 0 /\ countdown' = countdown - 1)
  BY DEF CountDown, PlayNextEpisode, GoBack, ToggleAutoPlay
<1>5. countdown' \in {None} \cup 0 .. Seconds
  BY <1>1, <1>4 DEF None
<1>6. PlayerTypeOK'
  BY <1>3, <1>4, <1>5 DEF PlayerInv, PlayerTypeOK
<1> QED
  BY <1>3, <1>4, <1>6 DEF PlayerInv

LEMMA PlayerStep ==
    ASSUME PlayerInv, [PlayerNext]_player
    PROVE  PlayerInv'
<1>1. CASE UNCHANGED player
  BY <1>1 DEF player, PlayerInv, PlayerTypeOK
<1> QED
  BY <1>1, LoadStep, PlayStep, RouteStep DEF PlayerNext, Controls, Overlay

LEMMA PlayerInvHolds == PlayerSpec => []PlayerInv
  BY PlayerInitInv, PlayerStep, PTL DEF PlayerSpec

\* The type invariant of the player, for a series of any length.
THEOREM PlayerTypeCorrect == PlayerSpec => []PlayerTypeOK
<1>1. PlayerInv => PlayerTypeOK
  BY DEF PlayerInv
<1> QED
  BY <1>1, PlayerInvHolds, PTL

\* For a series of any length, however often the route changes while requests
\* are out: what the episode's own chain has loaded is what is on the screen
\* (the ignore flag of the effect in VideoPlayer).
THEOREM ScreenFollowsRoute == PlayerSpec => []MediaFollowsRoute
<1>1. PlayerInv => MediaFollowsRoute
  BY DEF PlayerInv, ChainOf, Progress, MediaFollowsRoute
<1> QED
  BY <1>1, PlayerInvHolds, PTL

-------------------------------------------------------------------------------
(* The wizard.                                                                 *)

\* The lists of steps there are: all of them, what is left of them once the
\* account exists, and the choice of an edition alone.
Whole == {<<"welcome", "admin", "identity", "ffmpeg", "library", "license", "prepare", "finish">>,
          <<"welcome", "admin", "identity", "ffmpeg", "library", "prepare", "finish">>}
Remaining == {<<"identity", "ffmpeg", "library", "license", "prepare", "finish">>,
              <<"identity", "ffmpeg", "library", "prepare", "finish">>}
Choice == {<<"license", "prepare", "finish">>}

ServerState == [admin : BOOLEAN, completed : BOOLEAN, libraries : Nat]
PanelSteps == {"none", "welcome", "admin", "identity", "ffmpeg", "library", "license", "prepare", "finish"}
PanelState == [step : PanelSteps, at : Nat, of : Nat, busy : BOOLEAN]
AskState == [n : Nat, kind : {"setup", "identity", "library", "serial", "skip"}, at : Nat, of : Nat,
             mounted : BOOLEAN]

\* The step on whose page a request is made.
StepOf(kind) == CASE kind = "setup" -> "admin" [] kind = "identity" -> "identity"
                  [] kind = "library" -> "library" [] OTHER -> "license"

\* Where a step's callbacks think they are is where it stands in the list; only
\* the first two may be of a list that has been cut.
PanelStands(p, ls) ==
    \/ p.step = "none"
    \/ p.step \in {"welcome", "admin"} /\ ls \in Whole \cup Remaining
       /\ p.at = (IF p.step = "welcome" THEN 1 ELSE 2) /\ p.of > p.at
    \/ p.at \in DOMAIN ls /\ ls[p.at] = p.step /\ p.of = Len(ls)

AskStands(a, ls) ==
    \/ a.kind = "setup" /\ ls \in Whole \cup Remaining
    \/ a.at \in DOMAIN ls /\ ls[a.at] = StepOf(a.kind) /\ a.of = Len(ls)

\* While the list is whole nobody has come past the account; past the edition
\* one was asked for.
WizardInv ==
    /\ server \in ServerState /\ panel \in PanelState /\ asks \subseteq AskState
    /\ checking \in BOOLEAN /\ done \in BOOLEAN /\ chosen \in BOOLEAN /\ asked \in Nat
    /\ steps \in {<<>>} \cup Whole \cup Remaining \cup Choice
    /\ steps = <<>> => idx = 1 /\ panel.step = "none" /\ asks = {} /\ (checking \/ done)
    /\ steps # <<>> => idx \in DOMAIN steps
    /\ checking => steps = <<>> /\ ~done
    /\ done => panel.step = "none"
    /\ PanelStands(panel, steps)
    /\ \A a \in asks : AskStands(a, steps) /\ (a.mounted => panel.step = StepOf(a.kind))
    /\ prep \in {"idle", "timer", "asked", "delay"} /\ (prep # "idle" => panel.step = "prepare")
    /\ steps \in Whole => /\ idx \in {1, 2} /\ panel.step \in {"none", "welcome", "admin"}
                          /\ \A a \in asks : a.kind = "setup"
    /\ steps \in Remaining => server.admin
    /\ "license" \in ToSet(steps) /\ {Current, panel.step} \cap {"prepare", "finish"} # {} => chosen

\* A sequence that begins with one and goes on with the other is the two joined.
LEMMA Joined ==
    ASSUME NEW S, NEW l \in Seq(S), NEW r \in Seq(S), NEW t \in Seq(S),
           Len(t) = Len(l) + Len(r),
           \A i \in 1 .. Len(l) : t[i] = l[i],
           \A i \in 1 .. Len(r) : t[Len(l) + i] = r[i]
    PROVE  l \o r = t
<1>1. /\ l \o r \in Seq(S) /\ Len(l \o r) = Len(l) + Len(r)
      /\ \A i \in 1 .. Len(l) + Len(r) : (l \o r)[i] = IF i <= Len(l) THEN l[i] ELSE r[i - Len(l)]
  BY ConcatProperties
<1>2. Len(l) \in Nat /\ Len(r) \in Nat
  OBVIOUS
<1>3. ASSUME NEW i \in 1 .. Len(l) + Len(r) PROVE (l \o r)[i] = t[i]
  <2>1. CASE i <= Len(l)
    BY <1>1, <1>2, <2>1
  <2>2. CASE i > Len(l)
    <3>1. i - Len(l) \in 1 .. Len(r) /\ Len(l) + (i - Len(l)) = i
      BY <1>2, <2>2
    <3> QED
      BY <1>1, <1>2, <2>2, <3>1
  <2> QED
    BY <1>2, <2>1, <2>2
<1> QED
  BY <1>1, <1>3, SeqEqual

\* What a sequence is from m on.
LEMMA CutOff ==
    ASSUME NEW S, NEW s \in Seq(S), NEW t \in Seq(S), NEW m \in 1 .. Len(s),
           Len(t) = Len(s) - m + 1, \A i \in 1 .. Len(t) : t[i] = s[m + i - 1]
    PROVE  SubSeq(s, m, Len(s)) = t
<1>1. \A i \in m .. Len(s) : s[i] \in S
  OBVIOUS
<1>2. m \in Int /\ Len(s) \in Int /\ m <= Len(s)
  OBVIOUS
<1>3. /\ SubSeq(s, m, Len(s)) \in Seq(S) /\ Len(SubSeq(s, m, Len(s))) = Len(s) - m + 1
      /\ \A i \in 1 .. Len(s) - m + 1 : SubSeq(s, m, Len(s))[i] = s[m + i - 1]
  BY <1>1, <1>2, SubSeqProperties
<1> QED
  BY <1>3, SeqEqual

LEMMA Flows ==
    /\ FullFlow(TRUE) = <<"welcome", "admin", "identity", "ffmpeg", "library", "license", "prepare", "finish">>
    /\ \A b \in BOOLEAN : FullFlow(b) \in Whole
    /\ <<"license", "prepare", "finish">> \in Choice
    /\ <<>> \notin Whole \cup Remaining \cup Choice
    /\ Whole \cap Remaining = {} /\ Whole \cap Choice = {} /\ Remaining \cap Choice = {}
<1> DEFINE five   == <<"welcome", "admin", "identity", "ffmpeg", "library">>
           six    == <<"welcome", "admin", "identity", "ffmpeg", "library", "license">>
           seven  == <<"welcome", "admin", "identity", "ffmpeg", "library", "prepare", "finish">>
           eight  == <<"welcome", "admin", "identity", "ffmpeg", "library", "license", "prepare", "finish">>
           serial == <<"license">>
           ending == <<"prepare", "finish">>
<1>1. FullFlow(TRUE) = eight /\ FullFlow(TRUE) \in Whole
  <2>1. five \o serial = six
    <3>1. five \in Seq(PanelSteps) /\ serial \in Seq(PanelSteps) /\ six \in Seq(PanelSteps)
      BY DEF PanelSteps
    <3>2. Len(five) = 5 /\ Len(serial) = 1 /\ Len(six) = 6
      OBVIOUS
    <3>3. (\A i \in 1 .. 5 : six[i] = five[i]) /\ (\A i \in 1 .. 1 : six[5 + i] = serial[i])
      OBVIOUS
    <3> HIDE DEF five, serial, six
    <3>4. /\ Len(six) = Len(five) + Len(serial)
          /\ \A i \in 1 .. Len(five) : six[i] = five[i]
          /\ \A i \in 1 .. Len(serial) : six[Len(five) + i] = serial[i]
      BY <3>2, <3>3
    <3> QED
      BY <3>1, <3>4, Joined
  <2>2. six \o ending = eight
    <3>1. six \in Seq(PanelSteps) /\ ending \in Seq(PanelSteps) /\ eight \in Seq(PanelSteps)
      BY DEF PanelSteps
    <3>2. Len(six) = 6 /\ Len(ending) = 2 /\ Len(eight) = 8
      OBVIOUS
    <3>3. (\A i \in 1 .. 6 : eight[i] = six[i]) /\ (\A i \in 1 .. 2 : eight[6 + i] = ending[i])
      OBVIOUS
    <3> HIDE DEF six, ending, eight
    <3>4. /\ Len(eight) = Len(six) + Len(ending)
          /\ \A i \in 1 .. Len(six) : eight[i] = six[i]
          /\ \A i \in 1 .. Len(ending) : eight[Len(six) + i] = ending[i]
      BY <3>2, <3>3
    <3> QED
      BY <3>1, <3>4, Joined
  <2> QED
    BY <2>1, <2>2 DEF FullFlow, Whole
<1>2. FullFlow(FALSE) \in Whole
  <2>1. five \o <<>> = five
    <3>1. five \in Seq(PanelSteps)
      BY DEF PanelSteps
    <3> QED
      BY <3>1, ConcatEmptySeq
  <2>2. five \o ending = seven
    <3>1. five \in Seq(PanelSteps) /\ ending \in Seq(PanelSteps) /\ seven \in Seq(PanelSteps)
      BY DEF PanelSteps
    <3>2. Len(five) = 5 /\ Len(ending) = 2 /\ Len(seven) = 7
      OBVIOUS
    <3>3. (\A i \in 1 .. 5 : seven[i] = five[i]) /\ (\A i \in 1 .. 2 : seven[5 + i] = ending[i])
      OBVIOUS
    <3> HIDE DEF five, ending, seven
    <3>4. /\ Len(seven) = Len(five) + Len(ending)
          /\ \A i \in 1 .. Len(five) : seven[i] = five[i]
          /\ \A i \in 1 .. Len(ending) : seven[Len(five) + i] = ending[i]
      BY <3>2, <3>3
    <3> QED
      BY <3>1, <3>4, Joined
  <2> QED
    BY <2>1, <2>2 DEF FullFlow, Whole
<1>3. /\ <<"license", "prepare", "finish">> \in Choice
      /\ <<>> \notin Whole \cup Remaining \cup Choice
  BY DEF Whole, Remaining, Choice
<1>4. Whole \cap Remaining = {} /\ Whole \cap Choice = {} /\ Remaining \cap Choice = {}
  BY DEF Whole, Remaining, Choice
<1> QED
  BY <1>1, <1>2, <1>3, <1>4

\* What follows what in the lists.
LEMMA Layout ==
    ASSUME NEW ls \in Whole \cup Remaining \cup Choice
    PROVE  /\ ls # <<>> /\ DOMAIN ls = 1 .. Len(ls) /\ Len(ls) \in 3 .. 8 /\ Len(ls) \in Nat /\ Len(ls) > 2
           /\ \A i \in DOMAIN ls : ls[i] \in PanelSteps \ {"none"}
           /\ \A i, j \in DOMAIN ls : ls[i] = ls[j] => i = j
           /\ ls[Len(ls)] = "finish"
           /\ \A i \in DOMAIN ls :
                 /\ ls[i] = "welcome" => i = 1 /\ ls \in Whole
                 /\ ls[i] = "admin" => i = 2 /\ ls \in Whole
                 /\ ls[i] # "finish" => i + 1 \in DOMAIN ls
                 /\ ls[i] = "identity" => ls[i + 1] = "ffmpeg"
                 /\ ls[i] = "ffmpeg" => ls[i + 1] = "library"
                 /\ ls[i] = "library" => ls[i + 1] = IF "license" \in ToSet(ls) THEN "license" ELSE "prepare"
                 /\ ls[i] = "license" => ls[i + 1] = "prepare"
                 /\ ls[i] = "prepare" => ls[i + 1] = "finish"
                 /\ i > 1 /\ ls[i] \notin {"prepare", "finish"} =>
                       i - 1 \in DOMAIN ls /\ ls[i - 1] \notin {"prepare", "finish"}
           /\ ls \in Whole => ls[1] = "welcome" /\ ls[2] = "admin"
           /\ ls \in Remaining => ls[1] = "identity" /\ ls[2] = "ffmpeg"
           /\ ls \in Choice => ls[1] = "license" /\ \A i \in DOMAIN ls : ls[i] \in {"license", "prepare", "finish"}
<1>1. CASE ls = <<"welcome", "admin", "identity", "ffmpeg", "library", "license", "prepare", "finish">>
  BY <1>1 DEF Whole, Remaining, Choice, ToSet, PanelSteps
<1>2. CASE ls = <<"welcome", "admin", "identity", "ffmpeg", "library", "prepare", "finish">>
  BY <1>2 DEF Whole, Remaining, Choice, ToSet, PanelSteps
<1>3. CASE ls = <<"identity", "ffmpeg", "library", "license", "prepare", "finish">>
  BY <1>3 DEF Whole, Remaining, Choice, ToSet, PanelSteps
<1>4. CASE ls = <<"identity", "ffmpeg", "library", "prepare", "finish">>
  BY <1>4 DEF Whole, Remaining, Choice, ToSet, PanelSteps
<1>5. CASE ls = <<"license", "prepare", "finish">>
  <2>1. ls \notin Whole \cup Remaining
    BY <1>5, Flows
  <2> QED
    BY <1>5, <2>1 DEF ToSet, PanelSteps
<1> QED
  BY <1>1, <1>2, <1>3, <1>4, <1>5 DEF Whole, Remaining, Choice

LEMMA Cut ==
    ASSUME NEW ls \in Whole
    PROVE  LET i == SelectInSeq(ls, LAMBDA s : s = "identity")
           IN  (IF i > 0 THEN SubSeq(ls, i, Len(ls)) ELSE ls) \in Remaining
<1>1. SelectInSeq(ls, LAMBDA s : s = "identity") = 3
  BY DEF Whole, SelectInSeq, Min
<1>2. SubSeq(ls, 3, Len(ls)) \in Remaining
  <2>1. CASE ls = <<"welcome", "admin", "identity", "ffmpeg", "library", "license", "prepare", "finish">>
    <3> DEFINE t == <<"identity", "ffmpeg", "library", "license", "prepare", "finish">>
    <3>1. ls \in Seq(PanelSteps) /\ t \in Seq(PanelSteps)
      BY <2>1 DEF PanelSteps
    <3>2. Len(t) = 6 /\ Len(ls) = 8 /\ \A i \in 1 .. 6 : t[i] = ls[3 + i - 1]
      BY <2>1
    <3>3. t \in Remaining
      BY DEF Remaining
    <3> HIDE DEF t
    <3>4. SubSeq(ls, 3, Len(ls)) = t
      BY <3>1, <3>2, CutOff
    <3> QED
      BY <3>3, <3>4
  <2>2. CASE ls = <<"welcome", "admin", "identity", "ffmpeg", "library", "prepare", "finish">>
    <3> DEFINE t == <<"identity", "ffmpeg", "library", "prepare", "finish">>
    <3>1. ls \in Seq(PanelSteps) /\ t \in Seq(PanelSteps)
      BY <2>2 DEF PanelSteps
    <3>2. Len(t) = 5 /\ Len(ls) = 7 /\ \A i \in 1 .. 5 : t[i] = ls[3 + i - 1]
      BY <2>2
    <3>3. t \in Remaining
      BY DEF Remaining
    <3> HIDE DEF t
    <3>4. SubSeq(ls, 3, Len(ls)) = t
      BY <3>1, <3>2, CutOff
    <3> QED
      BY <3>3, <3>4
  <2> QED
    BY <2>1, <2>2 DEF Whole
<1> QED
  BY <1>1, <1>2

LEMMA WizardInitInv == WizardInit => WizardInv
<1> SUFFICES ASSUME WizardInit PROVE WizardInv
  OBVIOUS
<1>1. steps = <<>> /\ steps \notin Whole \cup Remaining \cup Choice /\ panel = Nowhere /\ asks = {}
  BY Flows DEF WizardInit
<1>2. Current = "none"
  BY <1>1 DEF Current
<1>3. panel \in PanelState /\ PanelStands(panel, steps) /\ panel.step = "none"
  BY <1>1 DEF Nowhere, PanelState, PanelSteps, PanelStands
<1>4. server \in ServerState
  BY DEF WizardInit, ServerState
<1> QED
  BY <1>1, <1>2, <1>3, <1>4 DEF WizardInit, WizardInv

\* A step that keeps the list and goes to a place in it that has been earned.
LEMMA Moves ==
    ASSUME WizardInv, steps # <<>>,
           NEW p \in {panel, [panel EXCEPT !.busy = FALSE]},
           UNCHANGED <<steps, checking>>,
           server' \in ServerState, server.admin => server'.admin,
           chosen' \in BOOLEAN, chosen => chosen',
           asks' \subseteq asks, asked' \in Nat,
           idx' \in DOMAIN steps,
           steps \in Whole => idx' \in {1, 2},
           "license" \in ToSet(steps) /\ steps[idx'] \in {"prepare", "finish"} => chosen',
           done' = done \/ (panel.step = "finish" /\ done'),
           \/ Render(p)
           \/ /\ panel' = p /\ done' = done
              /\ prep' \in {"idle", "timer", "asked", "delay"} /\ (prep' # "idle" => prep # "idle")
    PROVE  WizardInv'
<1>1. steps \in Whole \cup Remaining \cup Choice /\ ~checking
  BY DEF WizardInv
<1>2. /\ DOMAIN steps = 1 .. Len(steps) /\ Len(steps) \in Nat
      /\ \A i \in DOMAIN steps : steps[i] \in PanelSteps \ {"none"}
  BY <1>1, Layout
<1>3. p \in PanelState /\ p.step = panel.step /\ p.at = panel.at /\ p.of = panel.of
  BY DEF WizardInv, PanelState
<1>4. done' \in BOOLEAN /\ (done => done')
  BY DEF WizardInv
<1>5. /\ panel' \in PanelState
      /\ done' => panel'.step = "none"
      /\ panel'.step = panel.step \/ (panel'.step = "none" /\ panel.step \in {"none", "finish"})
      /\ PanelStands(panel', steps)
      /\ prep' \in {"idle", "timer", "asked", "delay"} /\ (prep' # "idle" => panel'.step = "prepare")
  <2>1. CASE Render(p) /\ done'
    <3>1. panel' = Nowhere /\ prep' = "idle"
      BY <2>1 DEF Render
    <3>2. panel.step \in {"none", "finish"}
      BY <2>1 DEF WizardInv
    <3> QED
      BY <3>1, <3>2 DEF Nowhere, PanelState, PanelSteps, PanelStands
  <2>2. CASE Render(p) /\ ~done' /\ p.step = steps[idx']
    <3>1. /\ panel' = [p EXCEPT !.at = idx', !.of = Len(steps)]
          /\ prep' = IF p.step = "prepare" THEN "timer" ELSE prep
      BY <2>2 DEF Render
    <3>2. /\ panel' \in PanelState /\ panel'.step = p.step
          /\ panel'.at = idx' /\ panel'.of = Len(steps)
      <4>1. idx' \in Nat /\ Len(steps) \in Nat
        BY <1>2
      <4> QED
        BY <1>3, <3>1, <4>1 DEF PanelState
    <3> QED
      BY <1>3, <2>2, <3>1, <3>2 DEF WizardInv, PanelStands
  <2>3. CASE Render(p) /\ ~done' /\ p.step # steps[idx']
    <3>1. panel' = p /\ prep' = prep
      BY <2>3 DEF Render
    <3> QED
      BY <1>3, <2>3, <3>1 DEF WizardInv, PanelStands
  <2>4. CASE ~Render(p)
    BY <1>3, <2>4 DEF WizardInv, PanelStands
  <2> QED
    BY <2>1, <2>2, <2>3, <2>4
<1>6. \A a \in asks' : /\ AskStands(a, steps) /\ (a.mounted => panel'.step = StepOf(a.kind))
                       /\ (steps \in Whole => a.kind = "setup")
  <2> SUFFICES ASSUME NEW a \in asks'
               PROVE  /\ AskStands(a, steps) /\ (a.mounted => panel'.step = StepOf(a.kind))
                      /\ (steps \in Whole => a.kind = "setup")
    OBVIOUS
  <2>1. /\ AskStands(a, steps) /\ (a.mounted => panel.step = StepOf(a.kind))
        /\ (steps \in Whole => a.kind = "setup")
    BY DEF WizardInv
  <2>2. StepOf(a.kind) \notin {"none", "finish"}
    BY DEF StepOf
  <2> QED
    BY <1>5, <2>1, <2>2
<1>7. "license" \in ToSet(steps) /\ {steps[idx'], panel'.step} \cap {"prepare", "finish"} # {} => chosen'
  BY <1>5 DEF WizardInv
<1>8. steps \in Whole => panel'.step \in {"none", "welcome", "admin"}
  BY <1>5 DEF WizardInv
<1>9. asks' \subseteq AskState /\ (steps \in Remaining => server'.admin)
  BY DEF WizardInv
<1> QED
  BY <1>1, <1>4, <1>5, <1>6, <1>7, <1>8, <1>9 DEF WizardInv, Current

LEMMA LoadSteps ==
    ASSUME WizardInv, Bootstrap \/ MountStep \/ LoadAgain
    PROVE  WizardInv'
<1>1. CASE Bootstrap
  <2>1. /\ steps = <<>> /\ idx = 1 /\ panel.step = "none" /\ asks = {} /\ ~done
        /\ UNCHANGED <<server, idx, panel, prep, asks, chosen, asked>>
        /\ checking' = FALSE /\ done' \in BOOLEAN
    BY <1>1, Flows DEF Bootstrap, WizardInv
  <2>2. steps' \in {<<>>} \cup Whole \cup Choice /\ (steps' = <<>> <=> done')
    <3>1. <<"license", "prepare", "finish">> \in Choice /\ FullFlow(~server.completed) \in Whole
      BY Flows DEF WizardInv, ServerState
    <3>2. <<>> \notin Whole \cup Choice
      BY Flows
    <3> QED
      BY <1>1, <2>1, <3>1, <3>2 DEF Bootstrap
  <2>3. ASSUME steps' # <<>>
        PROVE  /\ idx' \in DOMAIN steps' /\ steps'[idx'] \notin {"prepare", "finish"}
               /\ steps' \notin Remaining
    <3>1. steps' \in Whole \cup Choice
      BY <2>2, <2>3
    <3> QED
      BY <2>1, <3>1, Layout, Flows
  <2>4. Current' \notin {"prepare", "finish"}
    BY <2>1, <2>2, <2>3, Flows DEF Current
  <2>5. PanelStands(panel', steps')
    BY <2>1 DEF PanelStands
  <2>6. steps' \notin Remaining /\ (steps' = <<>> => done') /\ idx' = 1
    BY <2>1, <2>2, <2>3, Flows
  <2>7. {Current', panel'.step} \cap {"prepare", "finish"} = {}
    BY <2>1, <2>4
  <2>8. /\ server' \in ServerState /\ panel' \in PanelState /\ chosen' \in BOOLEAN /\ asked' \in Nat
        /\ asks' = {} /\ panel'.step = "none" /\ checking' = FALSE /\ done' \in BOOLEAN
        /\ prep' \in {"idle", "timer", "asked", "delay"} /\ (prep' # "idle" => panel'.step = "prepare")
    BY <2>1 DEF WizardInv
  <2> HIDE DEF Bootstrap
  <2> QED
    BY <2>2, <2>3, <2>5, <2>6, <2>7, <2>8 DEF WizardInv
<1>2. CASE MountStep
  <2>1. steps # <<>> /\ steps \in Whole \cup Remaining \cup Choice /\ idx \in DOMAIN steps
    BY <1>2 DEF MountStep, WizardInv
  <2>2. /\ DOMAIN steps = 1 .. Len(steps) /\ Len(steps) \in Nat
        /\ steps[idx] \in PanelSteps /\ Current = steps[idx]
        /\ (steps \in Whole => steps[1] = "welcome" /\ steps[2] = "admin")
    BY <2>1, Layout DEF Current
  <2>3. /\ panel' \in PanelState /\ panel'.step = steps[idx]
        /\ panel'.at = idx /\ panel'.of = Len(steps)
    BY <1>2, <2>1, <2>2 DEF MountStep, Fresh, PanelState
  <2>4. PanelStands(panel', steps')
    BY <1>2, <2>1, <2>3 DEF MountStep, PanelStands
  <2>5. ASSUME NEW a \in asks'
        PROVE  a \in AskState /\ ~a.mounted /\ AskStands(a, steps) /\ (steps \in Whole => a.kind = "setup")
    <3>1. PICK b \in asks : a = [b EXCEPT !.mounted = FALSE]
      BY <1>2 DEF MountStep
    <3>2. b \in AskState /\ AskStands(b, steps) /\ (steps \in Whole => b.kind = "setup")
      BY DEF WizardInv
    <3>3. a \in AskState /\ ~a.mounted /\ a.kind = b.kind /\ a.at = b.at /\ a.of = b.of
      BY <3>1, <3>2 DEF AskState
    <3> QED
      BY <3>2, <3>3 DEF AskStands, StepOf
  <2>6. UNCHANGED <<server, checking, done, steps, idx, chosen, asked>> /\ ~checking /\ ~done
        /\ prep' = IF Current = "prepare" THEN "timer" ELSE "idle"
    BY <1>2 DEF MountStep
  <2> HIDE DEF MountStep
  <2>7. Current' = Current
    BY <2>6 DEF Current
  <2> QED
    BY <2>1, <2>2, <2>3, <2>4, <2>5, <2>6, <2>7 DEF WizardInv
<1>3. CASE LoadAgain
  <2>1. steps' = <<>> /\ <<>> \notin Whole \cup Remaining \cup Choice /\ panel' = Nowhere /\ asks' = {}
    BY <1>3, Flows DEF LoadAgain
  <2>2. Current' = "none"
    BY <2>1 DEF Current
  <2>3. panel' \in PanelState /\ PanelStands(panel', steps') /\ panel'.step = "none"
    BY <2>1 DEF Nowhere, PanelState, PanelSteps, PanelStands
  <2> QED
    BY <1>3, <2>1, <2>2, <2>3 DEF LoadAgain, WizardInv
<1> QED
  BY <1>1, <1>2, <1>3

\* The step on the page, and where it stands.
LEMMA Standing ==
    ASSUME WizardInv, panel.step # "none"
    PROVE  /\ steps # <<>> /\ steps \in Whole \cup Remaining \cup Choice /\ panel \in PanelState
           /\ panel.step \in {"welcome", "admin"} =>
                 /\ steps \in Whole \cup Remaining
                 /\ panel.at = (IF panel.step = "welcome" THEN 1 ELSE 2) /\ panel.of > panel.at
           /\ panel.step \notin {"welcome", "admin"} =>
                 /\ panel.at \in DOMAIN steps /\ steps[panel.at] = panel.step /\ panel.of = Len(steps)
                 /\ steps \notin Whole
<1>1. steps # <<>> /\ steps \in Whole \cup Remaining \cup Choice /\ panel \in PanelState
      /\ PanelStands(panel, steps)
      /\ (steps \in Whole => panel.step \in {"none", "welcome", "admin"})
  BY DEF WizardInv
<1>2. CASE panel.step \in {"welcome", "admin"}
  <2>1. CASE panel.at \in DOMAIN steps /\ steps[panel.at] = panel.step /\ panel.of = Len(steps)
    <3>0. Len(steps) \in Nat /\ Len(steps) > 2
      BY <1>1, Layout
    <3>1. \A i \in DOMAIN steps : /\ steps[i] = "welcome" => i = 1 /\ steps \in Whole
                                  /\ steps[i] = "admin" => i = 2 /\ steps \in Whole
      BY <1>1, Layout
    <3>2. CASE panel.step = "welcome"
      <4>1. panel.at = 1 /\ steps \in Whole
        BY <2>1, <3>1, <3>2
      <4>2. panel.of > panel.at
        BY <2>1, <3>0, <4>1
      <4> QED
        BY <1>1, <3>2, <4>1, <4>2
    <3>3. CASE panel.step = "admin"
      <4>1. panel.at = 2 /\ steps \in Whole
        BY <2>1, <3>1, <3>3
      <4>2. panel.of > panel.at
        BY <2>1, <3>0, <4>1
      <4> QED
        BY <1>1, <3>3, <4>1, <4>2
    <3> QED
      BY <1>2, <3>2, <3>3
  <2> QED
    BY <1>1, <1>2, <2>1 DEF PanelStands
<1>3. CASE panel.step \notin {"welcome", "admin"}
  BY <1>1, <1>3 DEF PanelStands
<1> QED
  BY <1>1, <1>2, <1>3

LEMMA WalkSteps ==
    ASSUME WizardInv, BeginSetup \/ ContinueFfmpeg \/ SkipLibrary \/ Back \/ FinishLaunch
    PROVE  WizardInv'
<1>1. panel.step # "none"
  BY DEF BeginSetup, ContinueFfmpeg, SkipLibrary, Leaves, Back, FinishLaunch
<1>2. /\ steps \in Whole \cup Remaining \cup Choice /\ steps # <<>> /\ panel \in PanelState
      /\ idx \in DOMAIN steps /\ server \in ServerState /\ chosen \in BOOLEAN /\ asked \in Nat
      /\ done \in BOOLEAN /\ (done => panel.step = "none")
  BY <1>1, Standing DEF WizardInv
<1>3. UNCHANGED <<steps, server, checking, asks, chosen, asked>> /\ Render(panel)
  BY DEF BeginSetup, ContinueFfmpeg, SkipLibrary, Leaves, GoNext, Back, FinishLaunch
<1>4. /\ DOMAIN steps = 1 .. Len(steps) /\ Len(steps) \in 3 .. 8
      /\ steps[Len(steps)] = "finish"
      /\ (steps \in Whole => steps[1] = "welcome" /\ steps[2] = "admin")
      /\ (steps \in Remaining => steps[1] = "identity" /\ steps[2] = "ffmpeg")
  BY <1>2, Layout
<1>5. /\ idx' \in DOMAIN steps
      /\ steps \in Whole => idx' \in {1, 2}
      /\ "license" \in ToSet(steps) /\ steps[idx'] \in {"prepare", "finish"} => chosen'
      /\ done' = done \/ (panel.step = "finish" /\ done')
  <2>1. CASE BeginSetup
    <3>1. panel.at = 1 /\ panel.of > 1 /\ steps \in Whole \cup Remaining /\ panel.step = "welcome"
      BY <1>1, <2>1, Standing DEF BeginSetup, Leaves
    <3>2. idx' = 2 /\ done' = done
      BY <2>1, <3>1 DEF BeginSetup, Leaves, GoNext
    <3> QED
      BY <1>4, <3>1, <3>2
  <2>2. CASE ContinueFfmpeg \/ SkipLibrary
    <3>1. /\ panel.at \in DOMAIN steps /\ steps[panel.at] = panel.step /\ panel.of = Len(steps)
          /\ steps \notin Whole /\ panel.step \in {"ffmpeg", "library"}
      BY <1>1, <2>2, Standing DEF ContinueFfmpeg, SkipLibrary, Leaves
    <3>2. /\ panel.at + 1 \in DOMAIN steps
          /\ panel.step = "ffmpeg" => steps[panel.at + 1] = "library"
          /\ panel.step = "library" =>
                steps[panel.at + 1] = IF "license" \in ToSet(steps) THEN "license" ELSE "prepare"
      BY <1>2, <3>1, Layout
    <3>3. idx' = panel.at + 1 /\ done' = done
      BY <1>4, <2>2, <3>1, <3>2 DEF ContinueFfmpeg, SkipLibrary, Leaves, GoNext
    <3> QED
      BY <3>1, <3>2, <3>3
  <2>3. CASE Back
    <3>1. idx' = panel.at - 1 /\ done' = done /\ panel.at > 1
          /\ panel.step \notin {"none", "welcome", "prepare", "finish"}
      BY <2>3 DEF Back
    <3>2. CASE panel.step = "admin"
      <4>1. idx' = 1 /\ steps \in Whole \cup Remaining
        BY <1>1, <3>1, <3>2, Standing
      <4> QED
        BY <1>4, <3>1, <4>1
    <3>3. CASE panel.step # "admin"
      <4>1. panel.at \in DOMAIN steps /\ steps[panel.at] = panel.step /\ steps \notin Whole
        BY <1>1, <3>1, <3>3, Standing
      <4>2. panel.at - 1 \in DOMAIN steps /\ steps[panel.at - 1] \notin {"prepare", "finish"}
        BY <1>2, <3>1, <4>1, Layout
      <4> QED
        BY <3>1, <4>1, <4>2
    <3> QED
      BY <3>2, <3>3
  <2>4. CASE FinishLaunch
    <3>1. idx' = idx /\ panel.step = "finish" /\ done' = TRUE
      BY <2>4 DEF FinishLaunch
    <3>2. ("license" \in ToSet(steps) => chosen) /\ steps \notin Whole
      BY <3>1 DEF WizardInv
    <3> QED
      BY <1>2, <1>3, <3>1, <3>2
  <2> QED
    BY <2>1, <2>2, <2>3, <2>4
<1>6. panel \in {panel, [panel EXCEPT !.busy = FALSE]}
  OBVIOUS
<1> HIDE DEF BeginSetup, ContinueFfmpeg, SkipLibrary, Back, FinishLaunch
<1> QED
  BY <1>2, <1>3, <1>5, <1>6, Moves

LEMMA AskSteps ==
    ASSUME WizardInv, SubmitAdmin \/ SaveIdentity \/ CreateLibrary \/ ActivateSerial \/ SkipLicense
    PROVE  WizardInv'
<1>1. PICK kind \in {"setup", "identity", "library", "serial", "skip"} :
         Ask(kind) /\ panel.step = StepOf(kind)
  BY DEF SubmitAdmin, SaveIdentity, CreateLibrary, ActivateSerial, SkipLicense, StepOf
<1> DEFINE a == [n |-> asked', kind |-> kind, at |-> panel.at, of |-> panel.of, mounted |-> TRUE]
<1>2. /\ asks' = asks \cup {a} /\ asked' = asked + 1 /\ panel' = [panel EXCEPT !.busy = TRUE]
      /\ UNCHANGED <<server, checking, done, steps, idx, prep, chosen>>
  BY <1>1 DEF Ask
<1>3. panel.step \notin {"none", "prepare", "finish", "welcome"} /\ (panel.step = "admin" <=> kind = "setup")
  BY <1>1 DEF StepOf
<1>4. panel \in PanelState /\ asked \in Nat /\ steps # <<>>
  BY <1>3, Standing DEF WizardInv
<1>5. /\ panel' \in PanelState /\ panel'.step = panel.step /\ panel'.at = panel.at /\ panel'.of = panel.of
  BY <1>2, <1>4 DEF PanelState
<1>6. a \in AskState /\ a.kind = kind /\ a.at = panel.at /\ a.of = panel.of
  BY <1>2, <1>4 DEF AskState, PanelState
<1>7. AskStands(a, steps) /\ (steps \in Whole => kind = "setup")
  BY <1>1, <1>3, <1>6, Standing DEF AskStands
<1>8. /\ asks' \subseteq AskState
      /\ \A b \in asks' : /\ AskStands(b, steps) /\ (b.mounted => panel'.step = StepOf(b.kind))
                          /\ (steps \in Whole => b.kind = "setup")
  <2> HIDE DEF a
  <2>1. asks \subseteq AskState
    BY DEF WizardInv
  <2>2. \A b \in asks :
                       /\ AskStands(b, steps) /\ (b.mounted => panel.step = StepOf(b.kind))
                       /\ (steps \in Whole => b.kind = "setup")
    BY DEF WizardInv
  <2> QED
    BY <1>1, <1>2, <1>5, <1>6, <1>7, <2>1, <2>2
<1>9. PanelStands(panel', steps)
  BY <1>5 DEF WizardInv, PanelStands
<1>10. asked' \in Nat /\ Current' = Current
  BY <1>2, <1>4 DEF Current
<1> HIDE DEF a
<1> QED
  BY <1>2, <1>4, <1>5, <1>8, <1>9, <1>10 DEF WizardInv

\* What comes of a request that is over, for its step and for the wizard; ok:
\* the server's word that it was taken. Only the first account is taken while
\* the list is whole.
LEMMA AskOver ==
    ASSUME WizardInv, NEW a \in asks, NEW ok \in BOOLEAN, CameBack(a, ok),
           asks' = asks \ {a}, UNCHANGED <<checking, asked>>,
           server' \in ServerState, server.admin => server'.admin,
           ok /\ a.kind = "setup" => ~server.admin /\ server'.admin,
           chosen' = (chosen \/ a.kind = "skip" \/ (a.kind = "serial" /\ ok))
    PROVE  WizardInv'
<1>1. /\ steps # <<>> /\ steps \in Whole \cup Remaining \cup Choice
      /\ idx \in DOMAIN steps /\ asked \in Nat /\ chosen \in BOOLEAN /\ done \in BOOLEAN
      /\ panel \in PanelState
  BY DEF WizardInv
<1>2. a \in AskState /\ AskStands(a, steps) /\ (steps \in Whole => a.kind = "setup")
      /\ (a.mounted => panel.step = StepOf(a.kind))
  BY DEF WizardInv
<1>3. /\ NotBusy(a) \in {panel, [panel EXCEPT !.busy = FALSE]}
      /\ panel \in {panel, [panel EXCEPT !.busy = FALSE]}
  BY DEF NotBusy
<1>4. asks' \subseteq asks /\ asked' \in Nat /\ checking' = checking
      /\ chosen' \in BOOLEAN /\ (chosen => chosen')
  BY <1>1
<1>5. CASE a.kind = "setup" /\ ok
  <2>1. OnCreated(a) /\ ~server.admin /\ server'.admin
    BY <1>5 DEF CameBack
  <2>2. steps \in Whole
    <3>1. steps \notin Remaining
      BY <2>1 DEF WizardInv
    <3>2. CASE a.at \in DOMAIN steps /\ steps[a.at] = StepOf(a.kind)
      <4>1. steps[a.at] = "admin"
        BY <1>5, <3>2 DEF StepOf
      <4> QED
        BY <1>1, <3>2, <4>1, Layout
    <3> QED
      BY <1>2, <3>1, <3>2 DEF AskStands
  <2>3. steps' \in Remaining /\ idx' = 1 /\ done' = done /\ Render(NotBusy(a))
    BY <2>1, <2>2, Cut DEF OnCreated
  <2>4. /\ steps' # <<>> /\ idx' \in DOMAIN steps' /\ steps'[idx'] = "identity"
        /\ steps' \notin Whole
    BY <2>3, Layout, Flows
  <2>5. /\ panel.step \in {"none", "welcome", "admin"} /\ PanelStands(panel, steps)
        /\ (done => panel.step = "none")
        /\ prep \in {"idle", "timer", "asked", "delay"} /\ (prep # "idle" => panel.step = "prepare")
    BY <2>2 DEF WizardInv
  <2>6. /\ NotBusy(a) \in PanelState /\ NotBusy(a).step = panel.step
        /\ NotBusy(a).at = panel.at /\ NotBusy(a).of = panel.of
    BY <1>1 DEF NotBusy, PanelState
  <2>7. /\ panel' \in {Nowhere, NotBusy(a)} /\ prep' \in {"idle", prep}
        /\ (done => panel' = Nowhere) /\ (~done => panel' = NotBusy(a))
    BY <2>3, <2>4, <2>5, <2>6 DEF Render
  <2>8. /\ panel' \in PanelState /\ panel'.step = panel.step /\ (done' => panel'.step = "none")
        /\ panel'.step # "none" => panel'.at = panel.at /\ panel'.of = panel.of
    <3>1. CASE done
      <4>1. panel' = Nowhere /\ panel.step = "none"
        BY <2>5, <2>7, <3>1
      <4> QED
        BY <4>1 DEF Nowhere, PanelState, PanelSteps
    <3>2. CASE ~done
      BY <2>3, <2>6, <2>7, <3>2
    <3> QED
      BY <3>1, <3>2
  <2>9. PanelStands(panel', steps')
    <3>1. CASE panel.step = "none"
      BY <2>8, <3>1 DEF PanelStands
    <3>2. CASE panel.step # "none"
      BY <2>3, <2>5, <2>8, <3>2, Standing DEF PanelStands
    <3> QED
      BY <3>1, <3>2
  <2>10. \A b \in asks' : /\ b \in AskState /\ AskStands(b, steps')
                          /\ (b.mounted => panel'.step = StepOf(b.kind))
    BY <2>2, <2>3, <2>8 DEF WizardInv, AskStands
  <2>11. Current' = "identity"
    BY <2>4 DEF Current
  <2>12. prep' \in {"idle", "timer", "asked", "delay"} /\ prep' = "idle" /\ done' \in BOOLEAN
         /\ checking' \in BOOLEAN /\ (checking' => FALSE)
    BY <1>1, <2>3, <2>5, <2>7 DEF WizardInv
  <2>13. "license" \in ToSet(steps') /\ {Current', panel'.step} \cap {"prepare", "finish"} # {} => chosen'
    BY <2>5, <2>8, <2>11
  <2> QED
    BY <1>4, <2>1, <2>3, <2>4, <2>8, <2>9, <2>10, <2>12, <2>13 DEF WizardInv
<1>6. ASSUME a.kind # "setup"
      PROVE  /\ a.at + 1 \in DOMAIN steps /\ steps \notin Whole /\ a.at < a.of
             /\ (a.kind = "identity" => steps[a.at + 1] = "ffmpeg")
             /\ (a.kind = "library" =>
                   steps[a.at + 1] = IF "license" \in ToSet(steps) THEN "license" ELSE "prepare")
             /\ (a.kind \in {"serial", "skip"} => steps[a.at + 1] = "prepare")
  <2>1. a.at \in DOMAIN steps /\ steps[a.at] = StepOf(a.kind) /\ a.of = Len(steps) /\ steps \notin Whole
    BY <1>2, <1>6 DEF AskStands
  <2>2. StepOf(a.kind) = IF a.kind = "identity" THEN "identity"
                         ELSE IF a.kind = "library" THEN "library" ELSE "license"
    BY <1>6 DEF StepOf
  <2>3. DOMAIN steps = 1 .. Len(steps) /\ Len(steps) \in Nat
    BY <1>1, Layout
  <2>4. /\ a.at + 1 \in DOMAIN steps
        /\ steps[a.at] = "identity" => steps[a.at + 1] = "ffmpeg"
        /\ steps[a.at] = "library" =>
              steps[a.at + 1] = IF "license" \in ToSet(steps) THEN "license" ELSE "prepare"
        /\ steps[a.at] = "license" => steps[a.at + 1] = "prepare"
    BY <1>1, <2>1, <2>2, Layout
  <2>5. a.at < a.of
    BY <2>1, <2>3, <2>4
  <2> QED
    BY <1>2, <2>1, <2>2, <2>4, <2>5 DEF AskState
<1>7. CASE GoNext(a.at, a.of, NotBusy(a)) /\ a.kind = "identity"
  <2>1. /\ steps' = steps /\ idx' = a.at + 1 /\ done' = done /\ Render(NotBusy(a))
        /\ steps[idx'] = "ffmpeg" /\ idx' \in DOMAIN steps /\ steps \notin Whole
    BY <1>6, <1>7 DEF GoNext
  <2> QED
    BY <1>1, <1>3, <1>4, <2>1, Moves
<1>8. CASE GoNext(a.at, a.of, panel) /\ (a.kind = "skip" \/ (a.kind \in {"serial", "library"} /\ ok))
  <2>1. /\ steps' = steps /\ idx' = a.at + 1 /\ done' = done /\ Render(panel)
        /\ idx' \in DOMAIN steps /\ steps \notin Whole
    BY <1>6, <1>8 DEF GoNext
  <2>2. "license" \in ToSet(steps) /\ steps[idx'] \in {"prepare", "finish"} => chosen'
    <3>1. CASE a.kind \in {"skip", "serial"}
      BY <1>8, <3>1
    <3>2. CASE a.kind = "library"
      BY <1>6, <2>1, <3>2
    <3> QED
      BY <1>8, <3>1, <3>2
  <2> QED
    BY <1>1, <1>3, <1>4, <2>1, <2>2, Moves
<1>9. CASE Stays(a)
  <2>1. /\ panel' = NotBusy(a) /\ steps' = steps /\ idx' = idx /\ done' = done /\ prep' = prep
    BY <1>9 DEF Stays
  <2>2. /\ steps \in Whole => idx \in {1, 2}
        /\ "license" \in ToSet(steps) /\ steps[idx] \in {"prepare", "finish"} => chosen
        /\ prep \in {"idle", "timer", "asked", "delay"}
    BY <1>1 DEF WizardInv, Current
  <2> QED
    BY <1>1, <1>3, <1>4, <2>1, <2>2, Moves
<1>10. a.kind \in {"setup", "identity", "library", "serial", "skip"}
  BY <1>2 DEF AskState
<1> QED
  BY <1>5, <1>7, <1>8, <1>9, <1>10 DEF CameBack

LEMMA AnswerStep ==
    ASSUME WizardInv, NEW a \in asks, AskAnswered(a) \/ AskLost(a)
    PROVE  WizardInv'
<1>1. server \in ServerState /\ a \in AskState /\ chosen \in BOOLEAN
  BY DEF WizardInv
<1>2. /\ Taken(a) \in BOOLEAN /\ After(a) \in ServerState
      /\ server.admin => After(a).admin
      /\ Taken(a) /\ a.kind = "setup" => ~server.admin /\ After(a).admin
  <2>1. Taken(a) \in BOOLEAN
    BY <1>1 DEF Taken, ServerState
  <2>2. CASE a.kind = "setup"
    BY <1>1, <2>2 DEF Taken, After, ServerState
  <2>3. CASE a.kind = "library"
    BY <1>1, <2>1, <2>3 DEF After, ServerState
  <2>4. CASE a.kind \in {"serial", "skip"}
    BY <1>1, <2>1, <2>4 DEF After, ServerState
  <2>5. CASE a.kind = "identity"
    BY <1>1, <2>1, <2>5 DEF After, ServerState
  <2> QED
    BY <1>1, <2>1, <2>2, <2>3, <2>4, <2>5 DEF AskState
<1>3. CASE AskAnswered(a)
  <2> DEFINE ok == Taken(a)
  <2>1. /\ CameBack(a, ok) /\ asks' = asks \ {a} /\ UNCHANGED <<checking, asked>>
        /\ chosen' = (chosen \/ a.kind = "skip" \/ (a.kind = "serial" /\ ok))
        /\ server' = IF ok THEN After(a) ELSE server
    BY <1>3 DEF AskAnswered
  <2>2. /\ server' \in ServerState /\ (server.admin => server'.admin)
        /\ (ok /\ a.kind = "setup" => ~server.admin /\ server'.admin) /\ ok \in BOOLEAN
    BY <1>1, <1>2, <2>1
  <2> HIDE DEF ok
  <2> QED
    BY <2>1, <2>2, AskOver
<1>4. CASE AskLost(a)
  <2>1. /\ CameBack(a, FALSE) /\ asks' = asks \ {a} /\ UNCHANGED <<checking, asked>>
        /\ chosen' = (chosen \/ a.kind = "skip" \/ (a.kind = "serial" /\ FALSE))
        /\ server' \in {server, After(a)}
    BY <1>4 DEF AskLost
  <2>2. server' \in ServerState /\ (server.admin => server'.admin)
    BY <1>1, <1>2, <2>1
  <2> QED
    BY <2>1, <2>2, AskOver
<1> QED
  BY <1>3, <1>4

LEMMA PrepStep ==
    ASSUME WizardInv, PrepTimer \/ PrepAnswer \/ PrepLost \/ PrepDelay
    PROVE  WizardInv'
<1>1. /\ UNCHANGED <<server, checking, done, steps, panel, asks, chosen, asked>>
      /\ prep \in {"timer", "asked", "delay"} /\ prep' \in {"idle", "asked", "delay"}
  BY DEF PrepTimer, PrepAnswer, PrepLost, PrepDelay
<1>2. panel.step = "prepare" /\ server \in ServerState /\ asked \in Nat /\ chosen \in BOOLEAN
  BY <1>1 DEF WizardInv
<1>3. /\ steps # <<>> /\ steps \in Whole \cup Remaining \cup Choice /\ steps \notin Whole
      /\ panel.at \in DOMAIN steps /\ steps[panel.at] = "prepare"
  BY <1>2, Standing
<1>4. ("license" \in ToSet(steps) => chosen) /\ idx \in DOMAIN steps
  BY <1>2, <1>3 DEF WizardInv
<1>5. idx' \in DOMAIN steps
  <2>1. panel.at + 1 \in DOMAIN steps
    BY <1>3, Layout
  <2> QED
    BY <1>4, <2>1 DEF PrepTimer, PrepAnswer, PrepLost, PrepDelay
<1>6. panel \in {panel, [panel EXCEPT !.busy = FALSE]}
  OBVIOUS
<1> HIDE DEF PrepTimer, PrepAnswer, PrepLost, PrepDelay
<1> QED
  BY <1>1, <1>2, <1>3, <1>4, <1>5, <1>6, Moves

LEMMA WizardStep ==
    ASSUME WizardInv, [WizardNext]_wizard
    PROVE  WizardInv'
<1>1. CASE UNCHANGED wizard
  BY <1>1 DEF wizard, WizardInv, Current
<1> QED
  BY <1>1, LoadSteps, WalkSteps, AskSteps, AnswerStep, PrepStep DEF WizardNext

LEMMA WizardInvHolds == WizardSpec => []WizardInv
  BY WizardInitInv, WizardStep, PTL DEF WizardSpec

\* The type invariant of the wizard.
THEOREM WizardTypeCorrect == WizardSpec => []WizardTypeOK
<1>1. PanelSteps \ {"none"} \subseteq ToSet(FullFlow(TRUE))
  <2> DEFINE eight == <<"welcome", "admin", "identity", "ffmpeg", "library", "license", "prepare", "finish">>
  <2>1. /\ eight[1] = "welcome" /\ eight[2] = "admin" /\ eight[3] = "identity" /\ eight[4] = "ffmpeg"
        /\ eight[5] = "library" /\ eight[6] = "license" /\ eight[7] = "prepare" /\ eight[8] = "finish"
        /\ DOMAIN eight = 1 .. 8
    OBVIOUS
  <2>2. FullFlow(TRUE) = eight
    BY Flows
  <2> HIDE DEF eight
  <2> SUFFICES ASSUME NEW step \in PanelSteps \ {"none"}
               PROVE  \E i \in DOMAIN eight : eight[i] = step
    BY <2>2 DEF ToSet
  <2>3. {1, 2, 3, 4, 5, 6, 7, 8} \subseteq DOMAIN eight
    BY <2>1
  <2> QED
    BY <2>1, <2>3 DEF PanelSteps
<1>2. WizardInv => WizardTypeOK
  <2> SUFFICES ASSUME WizardInv PROVE WizardTypeOK
    OBVIOUS
  <2>1. panel.step \in {"none"} \cup ToSet(FullFlow(TRUE))
    BY <1>1 DEF WizardInv, PanelState
  <2>2. \A a \in asks : a.mounted => panel.step # "none"
    BY DEF WizardInv, StepOf
  <2> QED
    BY <2>1, <2>2 DEF WizardInv, WizardTypeOK
<1> QED
  BY <1>2, WizardInvHolds, PTL

\* However many requests the user makes, however many are lost and however
\* often the page is loaded: nobody is past the account unless there is one,
\* nor past the choice of an edition unless one was asked for (goNext, back and
\* onAdminCreated of FirstLaunchGate, called by whatever render they close over).
THEOREM WizardSkipsNothing == WizardSpec => []NothingSkipped
<1>1. WizardInv => NothingSkipped
  <2> SUFFICES ASSUME WizardInv PROVE NothingSkipped
    OBVIOUS
  <2>1. Current \in {"identity", "ffmpeg", "library"} => server.admin
    <3> SUFFICES ASSUME Current \in {"identity", "ffmpeg", "library"} PROVE server.admin
      OBVIOUS
    <3>1. idx \in DOMAIN steps /\ steps[idx] = Current
      BY DEF Current
    <3>2. steps # <<>>
      BY <3>1
    <3>3. steps \in Whole \cup Remaining \cup Choice
      BY <3>2 DEF WizardInv
    <3>4. steps \notin Choice
      BY <3>1, <3>3, Layout
    <3>5. steps \notin Whole
      <4>1. steps \in Whole => idx \in {1, 2} /\ steps[1] = "welcome" /\ steps[2] = "admin"
        BY <3>3, Layout DEF WizardInv
      <4> QED
        BY <3>1, <4>1
    <3> QED
      BY <3>3, <3>4, <3>5 DEF WizardInv
  <2>2. Current \in {"prepare", "finish"} /\ "license" \in ToSet(steps) => chosen
    BY DEF WizardInv
  <2> QED
    BY <2>1, <2>2 DEF NothingSkipped
<1> QED
  BY <1>1, WizardInvHolds, PTL

-------------------------------------------------------------------------------
(* The session.                                                                *)

Ops == {"probe", "login", "logout", "license", "gadgets", "install", "activate"}
RequestState == [op : Ops, cookie : Nat, at : {"asked", "served"}, ok : BOOLEAN, got : Nat \cup Editions]
UsedState == [logins : Nat, logouts : Nat, reloads : Nat, installs : Nat, changes : Nat, lost : Nat]
HistoryState == [crossed : SUBSET Ops, answered : BOOLEAN, again : BOOLEAN]

\* The requests of a kind that are out, and that there is one at most.
Out(w, op) == {w[i] : i \in {j \in DOMAIN w : w[j].op = op}}
Single(w, op) == \A i, j \in DOMAIN w : w[i].op = op /\ w[j].op = op => i = j

\* The server has done it and the client does not know yet.
Served(q) == q.at = "served"
Took(op) == \E q \in Out(wire, op) : Served(q) /\ q.ok

SessionTyped ==
    /\ version \in Nat \ {0} /\ jar \in Nat /\ gadgets \in Nat
    /\ licensed \in Editions
    /\ gate \in {"wizard", "routes"} /\ isAuthenticated \in BOOLEAN /\ loading \in BOOLEAN
    /\ wire \in Seq(RequestState) /\ used \in UsedState /\ history \in HistoryState
    /\ \A q \in Out(wire, "login") : q.got \in Nat

\* Nobody signs in or out before the probe of the load is back.
Probing ==
    /\ Single(wire, "probe") /\ Single(wire, "login") /\ Single(wire, "activate")
    /\ loading <=> Out(wire, "probe") # {}
    /\ loading => ~isAuthenticated /\ Out(wire, "login") = {} /\ Out(wire, "logout") = {}
    /\ gate = "wizard" => used.logins = 0
    /\ \A op \in {"license", "gadgets"} \ history.crossed : Single(wire, op)

\* Nothing was lost and no second logout was sent: who is signed in holds the
\* server's cookie, but for a logout on its way, and who is not does not.
InOrder == used.lost = 0 /\ ~history.again
Cookies ==
    /\ Single(wire, "logout")
    /\ Out(wire, "login") # {} => ~isAuthenticated
    /\ Out(wire, "logout") # {} => isAuthenticated
    /\ \A q \in Out(wire, "login") : Served(q) => q.ok /\ q.got = version
    /\ \A q \in Out(wire, "logout") : IF Served(q) THEN q.ok ELSE q.cookie = version /\ jar = version
    /\ \A q \in Out(wire, "probe") : /\ q.cookie = jar \/ (used.logins = 0 /\ q.cookie = 0)
                                     /\ Served(q) => (q.ok <=> q.cookie = version)
    /\ isAuthenticated /\ Out(wire, "logout") = {} => jar = version
    /\ ~loading /\ ~isAuthenticated /\ Out(wire, "login") = {} /\ used.logins > 0 => jar # version

\* The edition was fetched since it was last changed, or it will be.
Edition ==
    /\ \A q \in Out(wire, "license") : Served(q) /\ q.ok /\ ~Took("activate") => q.got = licensed
    /\ Out(wire, "license") = {} /\ ~Took("activate") /\ history.answered => tier = licensed

\* So were the gadgets, for who is signed in.
Gadgets ==
    isAuthenticated /\ ~Took("logout") =>
      /\ \A q \in Out(wire, "gadgets") :
            /\ q.cookie = version
            /\ Served(q) => q.ok /\ (~Took("install") => q.got = gadgets)
      /\ Out(wire, "gadgets") = {} /\ ~Took("install") => installed = gadgets

SessionInv ==
    /\ SessionTyped
    /\ Probing
    /\ InOrder => Cookies
    /\ used.lost = 0 /\ gate = "routes" /\ "license" \notin history.crossed => Edition
    /\ InOrder /\ "gadgets" \notin history.crossed => Gadgets

LEMMA SentWire ==
    ASSUME NEW w \in Seq(RequestState), NEW r \in RequestState
    PROVE  /\ Append(w, r) \in Seq(RequestState)
           /\ \A op \in Ops :
                             /\ op # r.op => Out(Append(w, r), op) = Out(w, op)
                             /\ op = r.op => Out(Append(w, r), op) = Out(w, op) \cup {r}
                             /\ Single(w, op) /\ (op = r.op => Out(w, op) = {}) => Single(Append(w, r), op)
<1> DEFINE n == Len(w)
           v == Append(w, r)
<1>1. /\ v \in Seq(RequestState) /\ n \in Nat /\ DOMAIN w = 1 .. n /\ DOMAIN v = 1 .. n + 1
      /\ \A i \in 1 .. n : v[i] = w[i]
      /\ v[n + 1] = r
  BY AppendProperties, LenProperties
<1> HIDE DEF n, v
<1>2. /\ \A i \in DOMAIN w : i \in DOMAIN v /\ v[i] = w[i] /\ i # n + 1
      /\ \A i \in DOMAIN v : i \in DOMAIN w \/ i = n + 1
      /\ n + 1 \in DOMAIN v
  BY <1>1
<1> SUFFICES ASSUME NEW op \in Ops
             PROVE  /\ op # r.op => Out(v, op) = Out(w, op)
                    /\ op = r.op => Out(v, op) = Out(w, op) \cup {r}
                    /\ Single(w, op) /\ (op = r.op => Out(w, op) = {}) => Single(v, op)
  BY <1>1 DEF v
<1>3. op # r.op => Out(v, op) = Out(w, op)
  BY <1>1, <1>2 DEF Out
<1>4. op = r.op => Out(v, op) = Out(w, op) \cup {r}
  BY <1>1, <1>2 DEF Out
<1>5. ASSUME Single(w, op), op = r.op => Out(w, op) = {}
      PROVE  Single(v, op)
  <2>1. CASE op # r.op
    BY <1>1, <1>2, <1>5, <2>1 DEF Single
  <2>2. CASE op = r.op
    <3>1. \A i \in DOMAIN w : w[i].op # op
      BY <1>5, <2>2 DEF Out
    <3> QED
      BY <1>2, <3>1 DEF Single
  <2> QED
    BY <2>1, <2>2
<1> QED
  BY <1>3, <1>4, <1>5

LEMMA LeftWire ==
    ASSUME NEW w \in Seq(RequestState), NEW i \in DOMAIN w
    PROVE  /\ RemoveAt(w, i) \in Seq(RequestState)
           /\ \A op \in Ops :
                 /\ Out(RemoveAt(w, i), op) \subseteq Out(w, op)
                 /\ Out(w, op) \ {w[i]} \subseteq Out(RemoveAt(w, i), op)
                 /\ op # w[i].op => Out(RemoveAt(w, i), op) = Out(w, op)
                 /\ Single(w, op) => /\ Single(RemoveAt(w, i), op)
                                     /\ op = w[i].op => Out(RemoveAt(w, i), op) = {}
<1> DEFINE n == Len(w)
           v == RemoveAt(w, i)
           From(j) == IF j < i THEN j ELSE j + 1
<1>1. n \in Nat /\ DOMAIN w = 1 .. n /\ i \in 1 .. n /\ \A j \in 1 .. n : w[j] \in RequestState
  BY LenProperties, ElementOfSeq
<1>2. /\ v \in Seq(RequestState) /\ DOMAIN v = 1 .. n - 1
      /\ \A j \in 1 .. n - 1 : v[j] = w[From(j)]
  <2> DEFINE a == SubSeq(w, 1, i - 1)
             b == SubSeq(w, i + 1, n)
  <2>1. /\ 1 \in Int /\ i - 1 \in Int /\ i + 1 \in Int /\ n \in Int
        /\ \A j \in 1 .. i - 1 : w[j] \in RequestState
        /\ \A j \in i + 1 .. n : w[j] \in RequestState
    BY <1>1
  <2> HIDE DEF n
  <2>2. /\ a \in Seq(RequestState) /\ Len(a) = (IF 1 <= i - 1 THEN i - 1 - 1 + 1 ELSE 0)
        /\ \A j \in 1 .. i - 1 - 1 + 1 : a[j] = w[1 + j - 1]
    BY <2>1, SubSeqProperties
  <2>3. /\ b \in Seq(RequestState) /\ Len(b) = (IF i + 1 <= n THEN n - (i + 1) + 1 ELSE 0)
        /\ \A j \in 1 .. n - (i + 1) + 1 : b[j] = w[i + 1 + j - 1]
    BY <2>1, SubSeqProperties
  <2>4. v = a \o b
    BY DEF RemoveAt, n
  <2> HIDE DEF a, b, v, From
  <2>5. /\ Len(a) = i - 1 /\ \A j \in 1 .. i - 1 : a[j] = w[j]
    BY <1>1, <2>2
  <2>6. /\ Len(b) = n - i /\ \A j \in 1 .. n - i : b[j] = w[i + j]
    <3>1. n - (i + 1) + 1 = n - i /\ \A j \in 1 .. n - i : i + 1 + j - 1 = i + j
      BY <1>1
    <3>2. Len(b) = n - i
      BY <1>1, <2>3
    <3> QED
      BY <2>3, <3>1, <3>2
  <2>7. /\ v \in Seq(RequestState) /\ Len(v) = Len(a) + Len(b)
        /\ \A j \in 1 .. Len(a) + Len(b) : v[j] = IF j <= Len(a) THEN a[j] ELSE b[j - Len(a)]
    BY <2>2, <2>3, <2>4, ConcatProperties
  <2>8. Len(v) = n - 1 /\ DOMAIN v = 1 .. n - 1
    BY <1>1, <2>5, <2>6, <2>7, LenProperties
  <2>9. ASSUME NEW j \in 1 .. n - 1 PROVE v[j] = w[From(j)]
    <3>1. CASE j < i
      BY <1>1, <2>5, <2>6, <2>7, <3>1 DEF From
    <3>2. CASE ~(j < i)
      <4>1. j - (i - 1) \in 1 .. n - i /\ i + (j - (i - 1)) = j + 1 /\ ~(j <= i - 1)
            /\ j \in 1 .. (i - 1) + (n - i)
        BY <1>1, <3>2
      <4>2. v[j] = b[j - (i - 1)]
        BY <2>5, <2>6, <2>7, <4>1
      <4> QED
        BY <2>6, <3>2, <4>1, <4>2 DEF From
    <3> QED
      BY <3>1, <3>2
  <2> QED
    BY <2>7, <2>8, <2>9
<1> HIDE DEF n, v
<1>3. /\ \A j \in DOMAIN v : From(j) \in DOMAIN w /\ From(j) # i /\ v[j] = w[From(j)]
      /\ \A j, k \in DOMAIN v : From(j) = From(k) => j = k
      /\ \A k \in DOMAIN w : k # i => \E j \in DOMAIN v : From(j) = k
  <2>1. \A j \in DOMAIN v : From(j) \in DOMAIN w /\ From(j) # i /\ v[j] = w[From(j)]
    BY <1>1, <1>2
  <2>2. \A j, k \in DOMAIN v : From(j) = From(k) => j = k
    BY <1>1, <1>2
  <2>3. ASSUME NEW k \in DOMAIN w, k # i PROVE \E j \in DOMAIN v : From(j) = k
    <3>1. CASE k < i
      BY <1>1, <1>2, <3>1
    <3>2. CASE k > i
      <4>1. k - 1 \in DOMAIN v /\ From(k - 1) = k
        BY <1>1, <1>2, <3>2
      <4> QED
        BY <4>1
    <3> QED
      BY <1>1, <2>3, <3>1, <3>2
  <2> QED
    BY <2>1, <2>2, <2>3
<1> HIDE DEF From
<1> SUFFICES ASSUME NEW op \in Ops
             PROVE  /\ Out(v, op) \subseteq Out(w, op)
                    /\ Out(w, op) \ {w[i]} \subseteq Out(v, op)
                    /\ op # w[i].op => Out(v, op) = Out(w, op)
                    /\ Single(w, op) => Single(v, op) /\ (op = w[i].op => Out(v, op) = {})
  BY <1>2 DEF v
<1>4. Out(v, op) \subseteq Out(w, op)
  BY <1>3 DEF Out
<1>5. Out(w, op) \ {w[i]} \subseteq Out(v, op)
  <2> SUFFICES ASSUME NEW k \in DOMAIN w, w[k].op = op, w[k] # w[i]
               PROVE  w[k] \in Out(v, op)
    BY DEF Out
  <2>1. PICK j \in DOMAIN v : From(j) = k
    BY <1>3
  <2> QED
    BY <1>3, <2>1 DEF Out
<1>6. op # w[i].op => Out(v, op) = Out(w, op)
  BY <1>4, <1>5 DEF Out
<1>7. ASSUME Single(w, op)
      PROVE  Single(v, op) /\ (op = w[i].op => Out(v, op) = {})
  <2>1. Single(v, op)
    BY <1>3, <1>7 DEF Single
  <2>2. op = w[i].op => Out(v, op) = {}
    BY <1>3, <1>7 DEF Single, Out
  <2> QED
    BY <2>1, <2>2
<1> QED
  BY <1>4, <1>5, <1>6, <1>7

LEMMA ServedWire ==
    ASSUME NEW w \in Seq(RequestState), NEW i \in DOMAIN w, NEW r \in RequestState, r.op = w[i].op
    PROVE  LET v == [w EXCEPT ![i] = r] IN
           /\ v \in Seq(RequestState)
           /\ \A op \in Ops :
                 /\ Out(v, op) \subseteq Out(w, op) \cup {r}
                 /\ Out(w, op) \ {w[i]} \subseteq Out(v, op)
                 /\ op # r.op => Out(v, op) = Out(w, op)
                 /\ op = r.op => r \in Out(v, op)
                 /\ Single(w, op) => Single(v, op) /\ (op = r.op => Out(v, op) = {r})
<1> DEFINE v == [w EXCEPT ![i] = r]
<1>1. /\ v \in Seq(RequestState) /\ DOMAIN v = DOMAIN w /\ v[i] = r
      /\ \A j \in DOMAIN w : j # i => v[j] = w[j]
      /\ \A j \in DOMAIN w : v[j].op = w[j].op
  OBVIOUS
<1> HIDE DEF v
<1> SUFFICES ASSUME NEW op \in Ops
             PROVE  /\ Out(v, op) \subseteq Out(w, op) \cup {r}
                    /\ Out(w, op) \ {w[i]} \subseteq Out(v, op)
                    /\ op # r.op => Out(v, op) = Out(w, op)
                    /\ op = r.op => r \in Out(v, op)
                    /\ Single(w, op) => Single(v, op) /\ (op = r.op => Out(v, op) = {r})
  BY <1>1 DEF v
<1>2. Out(v, op) \subseteq Out(w, op) \cup {r} /\ Out(w, op) \ {w[i]} \subseteq Out(v, op)
  BY <1>1 DEF Out
<1>3. op # r.op => Out(v, op) = Out(w, op)
  BY <1>1 DEF Out
<1>4. op = r.op => r \in Out(v, op)
  BY <1>1 DEF Out
<1>5. Single(w, op) => Single(v, op)
  BY <1>1 DEF Single
<1>6. ASSUME Single(w, op), op = r.op PROVE Out(v, op) = {r}
  BY <1>1, <1>4, <1>6 DEF Single, Out
<1> QED
  BY <1>2, <1>3, <1>4, <1>5, <1>6

LEMMA ARequest ==
    ASSUME NEW op \in Ops, NEW cookie \in Nat
    PROVE  /\ Request(op, cookie) \in RequestState
           /\ Request(op, cookie).op = op /\ Request(op, cookie).cookie = cookie
           /\ Request(op, cookie).at = "asked" /\ Request(op, cookie).got = 0
BY DEF Request, RequestState

LEMMA Flying ==
    ASSUME NEW op
    PROVE  InFlight(op) <=> Out(wire, op) # {}
BY DEF InFlight, Out

LEMMA Counted ==
    ASSUME used \in UsedState,
           NEW event \in {"logins", "logouts", "reloads", "installs", "changes", "lost"}, Count(event)
    PROVE  /\ used' \in UsedState
           /\ used'.lost = 0 <=> used.lost = 0 /\ event # "lost"
           /\ event # "logins" => used'.logins = used.logins
           /\ event = "logins" => used'.logins > 0
<1>1. used' = [used EXCEPT ![event] = used[event] + 1]
  BY DEF Count
<1>2. /\ used.logins \in Nat /\ used.logouts \in Nat /\ used.reloads \in Nat /\ used.installs \in Nat
      /\ used.changes \in Nat /\ used.lost \in Nat
  BY DEF UsedState
<1>3. CASE event = "logins"
  BY <1>1, <1>2, <1>3 DEF UsedState
<1>4. CASE event = "logouts"
  BY <1>1, <1>2, <1>4 DEF UsedState
<1>5. CASE event = "reloads"
  BY <1>1, <1>2, <1>5 DEF UsedState
<1>6. CASE event = "installs"
  BY <1>1, <1>2, <1>6 DEF UsedState
<1>7. CASE event = "changes"
  BY <1>1, <1>2, <1>7 DEF UsedState
<1>8. CASE event = "lost"
  BY <1>1, <1>2, <1>8 DEF UsedState
<1> QED
  BY <1>3, <1>4, <1>5, <1>6, <1>7, <1>8

\* What a step does to the requests that are out: one is sent; one is served;
\* one is over, and others may have been sent because of it.
Sends(r) ==
    /\ r \in RequestState /\ wire' \in Seq(RequestState)
    /\ \A op \in Ops :
                      /\ Out(wire', op) = IF op = r.op THEN Out(wire, op) \cup {r} ELSE Out(wire, op)
                      /\ Single(wire, op) /\ (op = r.op => Out(wire, op) = {}) => Single(wire', op)

Serves(q, r) ==
    /\ q \in Out(wire, q.op) /\ r \in RequestState /\ r.op = q.op /\ wire' \in Seq(RequestState)
    /\ \A op \in Ops :
                      /\ op # q.op => Out(wire', op) = Out(wire, op)
                      /\ op = q.op => /\ Out(wire', op) \subseteq Out(wire, op) \cup {r}
                                      /\ r \in Out(wire', op)
                      /\ Out(wire, op) \ {q} \subseteq Out(wire', op)
                      /\ Single(wire, op) => Single(wire', op) /\ (op = q.op => Out(wire', op) = {r})

Ends(q, sent) ==
    /\ q \in Out(wire, q.op) /\ sent \subseteq RequestState /\ wire' \in Seq(RequestState)
    /\ \A r \in sent : r.op # q.op
    /\ \A op \in Ops :
                      /\ op # q.op => Out(wire', op) = Out(wire, op) \cup {r \in sent : r.op = op}
                      /\ op = q.op => Out(wire', op) \subseteq Out(wire, op)
                      /\ Out(wire, op) \ {q} \subseteq Out(wire', op)
                      /\ Single(wire, op) /\ op = q.op => Out(wire', op) = {}
                      /\ Single(wire, op) /\ (\A r \in sent : r.op = op => Out(wire, op) = {})
                            => Single(wire', op)

LEMMA NoneAdded ==
    ASSUME NEW q, NEW sent, Ends(q, sent), NEW op \in Ops, \A r \in sent : r.op # op
    PROVE  /\ Single(wire, op) => Single(wire', op)
           /\ Out(wire', op) \subseteq Out(wire, op)
           /\ Out(wire, op) \ {q} \subseteq Out(wire', op)
           /\ op # q.op => Out(wire', op) = Out(wire, op)
           /\ Single(wire, op) /\ op = q.op => Out(wire', op) = {}
<1>1. {r \in sent : r.op = op} = {}
  OBVIOUS
<1>2. /\ op # q.op => Out(wire', op) = Out(wire, op) \cup {r \in sent : r.op = op}
      /\ op = q.op => Out(wire', op) \subseteq Out(wire, op)
      /\ Out(wire, op) \ {q} \subseteq Out(wire', op)
      /\ Single(wire, op) /\ op = q.op => Out(wire', op) = {}
      /\ Single(wire, op) => Single(wire', op)
  BY DEF Ends
<1> QED
  BY <1>1, <1>2

LEMMA ItSends ==
    ASSUME SessionTyped, NEW r \in RequestState, wire' = Append(wire, r)
    PROVE  Sends(r)
<1>1. wire \in Seq(RequestState)
  BY DEF SessionTyped
<1>2. /\ Append(wire, r) \in Seq(RequestState)
      /\ \A op \in Ops :
                        /\ op # r.op => Out(Append(wire, r), op) = Out(wire, op)
                        /\ op = r.op => Out(Append(wire, r), op) = Out(wire, op) \cup {r}
                        /\ Single(wire, op) /\ (op = r.op => Out(wire, op) = {})
                              => Single(Append(wire, r), op)
  BY <1>1, SentWire
<1> QED
  BY <1>2 DEF Sends

LEMMA OnTheWire ==
    ASSUME SessionTyped, NEW i \in DOMAIN wire
    PROVE  wire[i] \in RequestState /\ wire[i].op \in Ops /\ wire[i] \in Out(wire, wire[i].op)
<1>1. wire[i] \in RequestState
  BY DEF SessionTyped
<1> QED
  BY <1>1 DEF RequestState, Out

LEMMA ItEnds ==
    ASSUME SessionTyped, NEW i \in DOMAIN wire, wire' = RemoveAt(wire, i)
    PROVE  Ends(wire[i], {})
BY OnTheWire, LeftWire DEF SessionTyped, Ends

LEMMA ItEndsAndSends ==
    ASSUME SessionTyped, NEW i \in DOMAIN wire, NEW r \in RequestState, r.op # wire[i].op,
           wire' = Append(RemoveAt(wire, i), r)
    PROVE  Ends(wire[i], {r})
<1> DEFINE v == RemoveAt(wire, i)
           q == wire[i]
<1>1. wire \in Seq(RequestState) /\ q \in RequestState /\ q.op \in Ops /\ q \in Out(wire, q.op)
  BY OnTheWire DEF SessionTyped
<1>2. /\ v \in Seq(RequestState)
      /\ \A op \in Ops :
            /\ Out(v, op) \subseteq Out(wire, op)
            /\ Out(wire, op) \ {q} \subseteq Out(v, op)
            /\ op # q.op => Out(v, op) = Out(wire, op)
            /\ Single(wire, op) => Single(v, op) /\ (op = q.op => Out(v, op) = {})
  BY <1>1, LeftWire
<1>3. wire' = Append(v, r) /\ r.op # q.op
  OBVIOUS
<1> HIDE DEF v, q
<1>4. /\ wire' \in Seq(RequestState)
      /\ \A op \in Ops :
                        /\ op # r.op => Out(wire', op) = Out(v, op)
                        /\ op = r.op => Out(wire', op) = Out(v, op) \cup {r}
                        /\ Single(v, op) /\ (op = r.op => Out(v, op) = {}) => Single(wire', op)
  BY <1>2, <1>3, SentWire
<1>5. Ends(q, {r})
  <2> SUFFICES ASSUME NEW op \in Ops
               PROVE  /\ op # q.op => Out(wire', op) = Out(wire, op) \cup {s \in {r} : s.op = op}
                      /\ op = q.op => Out(wire', op) \subseteq Out(wire, op)
                      /\ Out(wire, op) \ {q} \subseteq Out(wire', op)
                      /\ Single(wire, op) /\ op = q.op => Out(wire', op) = {}
                      /\ Single(wire, op) /\ (\A s \in {r} : s.op = op => Out(wire, op) = {})
                            => Single(wire', op)
    BY <1>1, <1>3, <1>4 DEF Ends
  <2>1. CASE op = r.op
    <3>1. {s \in {r} : s.op = op} = {r} /\ op # q.op
      BY <1>3, <2>1
    <3>2. Out(v, op) = Out(wire, op) /\ Out(wire', op) = Out(v, op) \cup {r}
      BY <1>2, <1>4, <2>1, <3>1
    <3>3. Single(wire, op) /\ Out(wire, op) = {} => Single(wire', op)
      BY <1>2, <1>4, <2>1, <3>2
    <3> QED
      BY <2>1, <3>1, <3>2, <3>3
  <2>2. CASE op # r.op
    <3>1. {s \in {r} : s.op = op} = {}
      BY <2>2
    <3>2. Out(wire', op) = Out(v, op) /\ (Single(v, op) => Single(wire', op))
      BY <1>4, <2>2
    <3> QED
      BY <1>2, <2>2, <3>1, <3>2
  <2> QED
    BY <2>1, <2>2
<1> QED
  BY <1>5 DEF q

\* What the server answers.
Answer(q, r) ==
    /\ r.op = q.op /\ r.cookie = q.cookie /\ Served(r)
    /\ r.ok <=> q.op = "login" \/ q.cookie = version
    /\ q.op = "login" => r.got = version
    /\ q.op = "license" => r.got = licensed
    /\ q.op = "gadgets" => r.got = gadgets

LEMMA ItServes ==
    ASSUME SessionTyped, NEW i \in DOMAIN wire, ServeRequest(i)
    PROVE  /\ wire[i].at = "asked"
           /\ \E r \in RequestState :
                 /\ Serves(wire[i], r) /\ Answer(wire[i], r)
                 /\ version' = IF r.ok /\ r.op = "logout" THEN version + 1 ELSE version
                 /\ gadgets' = IF r.ok /\ r.op = "install" THEN gadgets + 1 ELSE gadgets
                 /\ licensed' \in Editions /\ (~(r.ok /\ r.op = "activate") => licensed' = licensed)
<1> DEFINE q == wire[i]
           ok == q.op = "login" \/ q.cookie = version
           got == CASE q.op = "login" -> version
                    [] q.op = "license" -> licensed
                    [] q.op = "gadgets" -> gadgets
                    [] OTHER -> 0
           r == [q EXCEPT !.at = "served", !.ok = ok, !.got = got]
<1>1. /\ q.at = "asked" /\ wire' = [wire EXCEPT ![i] = r]
      /\ version' = IF ok /\ q.op = "logout" THEN version + 1 ELSE version
      /\ gadgets' = IF ok /\ q.op = "install" THEN gadgets + 1 ELSE gadgets
      /\ \E edition \in Editions : licensed' = IF ok /\ q.op = "activate" THEN edition ELSE licensed
  BY DEF ServeRequest
<1>2. q \in RequestState /\ q.op \in Ops /\ q \in Out(wire, q.op)
  BY OnTheWire
<1>3. got \in Nat \cup Editions
  BY DEF SessionTyped
<1>4. /\ q.op = "login" => got = version
      /\ q.op = "license" => got = licensed
      /\ q.op = "gadgets" => got = gadgets
  OBVIOUS
<1>5. ok \in BOOLEAN /\ (ok <=> q.op = "login" \/ q.cookie = version)
  OBVIOUS
<1> HIDE DEF q, ok, got
<1>6. r \in RequestState /\ r.op = q.op /\ r.cookie = q.cookie /\ r.at = "served" /\ r.ok = ok /\ r.got = got
  BY <1>2, <1>3, <1>5 DEF RequestState
<1> HIDE DEF r
<1>7. Serves(q, r)
  <2>1. wire \in Seq(RequestState) /\ r.op = wire[i].op
    BY <1>6 DEF SessionTyped, q
  <2>2. wire' = [wire EXCEPT ![i] = r]
    BY <1>1
  <2>3. /\ wire' \in Seq(RequestState)
        /\ \A op \in Ops :
              /\ Out(wire', op) \subseteq Out(wire, op) \cup {r}
              /\ Out(wire, op) \ {q} \subseteq Out(wire', op)
              /\ op # r.op => Out(wire', op) = Out(wire, op)
              /\ op = r.op => r \in Out(wire', op)
              /\ Single(wire, op) => Single(wire', op) /\ (op = r.op => Out(wire', op) = {r})
    <3>1. q = wire[i]
      BY DEF q
    <3> HIDE DEF SessionTyped
    <3> QED
      BY ZenonT(30), <1>6, <2>1, <2>2, <3>1, ServedWire
  <2> QED
    BY <1>2, <1>6, <2>3 DEF Serves
<1>8. Answer(q, r)
  BY <1>4, <1>5, <1>6 DEF Answer, Served
<1>9. licensed' \in Editions /\ (~(r.ok /\ r.op = "activate") => licensed' = licensed)
  BY <1>1, <1>6 DEF SessionTyped
<1> QED
  BY <1>1, <1>6, <1>7, <1>8, <1>9 DEF q

\* The requests a step sends, and whether it sends any of that kind twice.
Crosses(sent) == history'.crossed = history.crossed \cup {r.op : r \in {s \in sent : Out(wire, s.op) # {}}}

\* What follows from the answer to a request: the gadgets are fetched for who
\* signs in and after one was installed, the edition after it was changed.
Follows(q, ok, sent) ==
    /\ \A r \in sent :
          /\ r.at = "asked"
          /\ \/ /\ r.op = "gadgets" /\ r.cookie = jar'
                /\ (isAuthenticated' /\ ~isAuthenticated) \/ (q.op = "install" /\ ok)
             \/ r.op = "license" /\ q.op = "activate" /\ ok
    /\ (isAuthenticated' /\ ~isAuthenticated) \/ (q.op = "install" /\ ok) => \E r \in sent : r.op = "gadgets"
    /\ q.op = "activate" /\ ok => \E r \in sent : r.op = "license"

\* And what becomes of the contexts.
Contexts(q, ok) ==
    /\ isAuthenticated' = CASE q.op = "probe" -> ok
                             [] q.op = "login" -> ok \/ isAuthenticated
                             [] q.op = "logout" -> FALSE
                             [] OTHER -> isAuthenticated
    /\ loading' = (loading /\ q.op # "probe")
    /\ jar' = IF q.op = "login" /\ ok THEN q.got ELSE IF q.op = "logout" /\ ok THEN 0 ELSE jar
    /\ q.op = "license" => tier' = (IF ok THEN q.got ELSE "standard") /\ history'.answered = ok
    /\ q.op # "license" => tier' = tier /\ history'.answered = history.answered
    /\ history'.again = history.again /\ history' \in HistoryState
    /\ isAuthenticated /\ isAuthenticated' =>
          installed' = IF q.op = "gadgets" /\ ok THEN q.got ELSE installed
    /\ UNCHANGED <<version, licensed, gadgets, gate>>

LEMMA SentHistory ==
    ASSUME history \in HistoryState, NEW op \in Ops, Fetching(op),
           NEW r, r.op = op
    PROVE  /\ Crosses({r}) /\ history' \in HistoryState
           /\ history'.answered = history.answered /\ history'.again = history.again
<1>1. history' = [history EXCEPT !.crossed = IF InFlight(op) THEN @ \cup {op} ELSE @]
  BY DEF Fetching
<1>2. /\ history.crossed \in SUBSET Ops /\ history.answered \in BOOLEAN /\ history.again \in BOOLEAN
      /\ (InFlight(op) <=> Out(wire, op) # {})
  BY Flying DEF HistoryState
<1>3. history' \in HistoryState /\ history'.answered = history.answered /\ history'.again = history.again
      /\ history'.crossed = IF Out(wire, op) # {} THEN history.crossed \cup {op} ELSE history.crossed
  BY <1>1, <1>2 DEF HistoryState
<1>4. {x.op : x \in {s \in {r} : Out(wire, s.op) # {}}} = IF Out(wire, op) # {} THEN {op} ELSE {}
  OBVIOUS
<1> QED
  BY <1>3, <1>4 DEF Crosses

LEMMA NoneSent ==
    ASSUME history' = history, history \in HistoryState
    PROVE  /\ Crosses({}) /\ history' \in HistoryState
           /\ history'.answered = history.answered /\ history'.again = history.again
<1>1. {x.op : x \in {s \in {} : Out(wire, s.op) # {}}} = {}
  OBVIOUS
<1> QED
  BY <1>1 DEF Crosses

LEMMA ItIsDone ==
    ASSUME SessionTyped, NEW i \in DOMAIN wire, NEW ok \in BOOLEAN, Done(i, ok)
    PROVE  \E sent \in SUBSET RequestState :
              Ends(wire[i], sent) /\ Follows(wire[i], ok, sent) /\ Crosses(sent) /\ Contexts(wire[i], ok)
<1> DEFINE q == wire[i]
           left == RemoveAt(wire, i)
<1>1. q \in RequestState /\ q.op \in Ops /\ q \in Out(wire, q.op)
  BY OnTheWire
<1>2. /\ \/ q.op = "probe" /\ FetchUserDone(ok, left)
         \/ q.op = "login" /\ LoginDone(ok, q.got, left)
         \/ q.op = "logout" /\ LogoutDone(ok, left)
         \/ q.op = "license" /\ FetchLicenseDone(ok, q.got, left)
         \/ q.op = "gadgets" /\ RefreshDone(ok, q.got, left)
         \/ q.op = "install" /\ InstallDone(ok, left)
         \/ q.op = "activate" /\ ActivateDone(ok, left)
      /\ UNCHANGED <<version, licensed, gadgets, gate>>
  BY DEF Done
<1>3. wire' = left => Ends(q, {})
  BY ItEnds
<1>4. \A r \in RequestState : r.op # q.op /\ wire' = Append(left, r) => Ends(q, {r})
  BY ItEndsAndSends
<1>5. history \in HistoryState /\ jar \in Nat /\ isAuthenticated \in BOOLEAN /\ loading \in BOOLEAN
  BY DEF SessionTyped
<1>6. q.op = "login" => q.got \in Nat
  BY <1>1 DEF SessionTyped
<1> HIDE DEF q, left
<1>7. ASSUME NEW b \in BOOLEAN, NEW cookie \in Nat, SetIsAuthenticated(b, cookie, left),
             q.op \in {"probe", "login", "logout"}, jar' = cookie
      PROVE  /\ \E sent \in SUBSET RequestState : Ends(q, sent) /\ Follows(q, ok, sent) /\ Crosses(sent)
             /\ isAuthenticated' = b /\ (isAuthenticated /\ b => installed' = installed)
             /\ history' \in HistoryState
             /\ history'.answered = history.answered /\ history'.again = history.again
  <2>1. isAuthenticated' = b
    BY <1>7 DEF SetIsAuthenticated
  <2>2. CASE b /\ ~isAuthenticated
    <3> DEFINE r == Request("gadgets", cookie)
    <3>1. r \in RequestState /\ r.op = "gadgets" /\ r.cookie = cookie /\ r.at = "asked"
      BY ARequest DEF Ops
    <3>2. wire' = Append(left, r) /\ Fetching("gadgets")
      BY <1>7, <2>2 DEF SetIsAuthenticated
    <3> HIDE DEF r
    <3>3. Ends(q, {r})
      BY <1>4, <1>7, <3>1, <3>2
    <3>4. Follows(q, ok, {r})
      BY <1>7, <2>1, <2>2, <3>1 DEF Follows
    <3>5. /\ Crosses({r}) /\ history' \in HistoryState
          /\ history'.answered = history.answered /\ history'.again = history.again
      BY <1>5, <3>1, <3>2, SentHistory DEF Ops
    <3> QED
      BY <2>1, <2>2, <3>1, <3>3, <3>4, <3>5
  <2>3. CASE ~(b /\ ~isAuthenticated)
    <3>1. /\ wire' = left /\ history' = history
          /\ isAuthenticated /\ b => installed' = installed
      BY <1>7, <2>3 DEF SetIsAuthenticated
    <3>2. Ends(q, {}) /\ Follows(q, ok, {})
      BY <1>3, <1>7, <2>1, <2>3, <3>1 DEF Follows
    <3> QED
      BY <1>5, <2>1, <3>1, <3>2, NoneSent
  <2> QED
    BY <2>2, <2>3
<1>8. ASSUME wire' = left, history' = history, isAuthenticated' = isAuthenticated,
             ~(q.op \in {"install", "activate"} /\ ok)
      PROVE  /\ \E sent \in SUBSET RequestState : Ends(q, sent) /\ Follows(q, ok, sent) /\ Crosses(sent)
             /\ history' \in HistoryState
             /\ history'.answered = history.answered /\ history'.again = history.again
  <2>1. Ends(q, {}) /\ Follows(q, ok, {})
    BY <1>3, <1>8 DEF Follows
  <2> QED
    BY <1>5, <1>8, <2>1, NoneSent
<1>9. ASSUME NEW op \in {"gadgets", "license"}, wire' = Append(left, Request(op, jar)), Fetching(op),
             jar' = jar, isAuthenticated' = isAuthenticated, ok,
             op = "gadgets" => q.op = "install", op = "license" => q.op = "activate"
      PROVE  /\ \E sent \in SUBSET RequestState : Ends(q, sent) /\ Follows(q, ok, sent) /\ Crosses(sent)
             /\ history' \in HistoryState
             /\ history'.answered = history.answered /\ history'.again = history.again
  <2> DEFINE r == Request(op, jar)
  <2>1. r \in RequestState /\ r.op = op /\ r.cookie = jar /\ r.at = "asked" /\ op \in Ops
    BY <1>5, ARequest DEF Ops
  <2>2. wire' = Append(left, r)
    BY <1>9
  <2> HIDE DEF r
  <2>3. Ends(q, {r})
    BY <1>4, <1>9, <2>1, <2>2
  <2>4. Follows(q, ok, {r})
    BY <1>9, <2>1 DEF Follows
  <2>5. /\ Crosses({r}) /\ history' \in HistoryState
        /\ history'.answered = history.answered /\ history'.again = history.again
    BY <1>5, <1>9, <2>1, SentHistory
  <2> QED
    BY <2>1, <2>3, <2>4, <2>5
<1> SUFFICES \E sent \in SUBSET RequestState :
                Ends(q, sent) /\ Follows(q, ok, sent) /\ Crosses(sent) /\ Contexts(q, ok)
  BY DEF q
<1>10. CASE q.op = "probe"
  <2>1. SetIsAuthenticated(ok, jar, left) /\ loading' = FALSE /\ jar' = jar /\ tier' = tier
    BY <1>2, <1>10 DEF FetchUserDone
  <2>2. /\ \E sent \in SUBSET RequestState : Ends(q, sent) /\ Follows(q, ok, sent) /\ Crosses(sent)
        /\ isAuthenticated' = ok /\ (isAuthenticated /\ ok => installed' = installed)
        /\ history' \in HistoryState
        /\ history'.answered = history.answered /\ history'.again = history.again
    BY <1>5, <1>7, <1>10, <2>1
  <2>3. Contexts(q, ok)
    BY <1>2, <1>5, <1>10, <2>1, <2>2 DEF Contexts
  <2> QED
    BY <2>2, <2>3
<1>11. CASE q.op = "login"
  <2>1. LoginDone(ok, q.got, left)
    BY <1>2, <1>11
  <2>2. CASE ok
    <3>1. /\ SetIsAuthenticated(TRUE, q.got, left) /\ jar' = q.got
          /\ loading' = loading /\ tier' = tier
      BY <2>1, <2>2 DEF LoginDone
    <3>2. /\ \E sent \in SUBSET RequestState : Ends(q, sent) /\ Follows(q, ok, sent) /\ Crosses(sent)
          /\ isAuthenticated' = TRUE /\ (isAuthenticated => installed' = installed)
          /\ history' \in HistoryState
          /\ history'.answered = history.answered /\ history'.again = history.again
      BY <1>6, <1>7, <1>11, <3>1
    <3>3. Contexts(q, ok)
      BY <1>2, <1>5, <1>11, <2>2, <3>1, <3>2 DEF Contexts
    <3> QED
      BY <3>2, <3>3
  <2>3. CASE ~ok
    <3>1. /\ wire' = left /\ UNCHANGED <<isAuthenticated, installed, history, jar, loading, tier>>
      BY <2>1, <2>3 DEF LoginDone
    <3>2. Contexts(q, ok)
      BY <1>2, <1>5, <1>11, <2>3, <3>1 DEF Contexts
    <3> QED
      BY <1>8, <1>11, <3>1, <3>2
  <2> QED
    BY <2>2, <2>3
<1>12. CASE q.op = "logout"
  <2>1. /\ jar' = (IF ok THEN 0 ELSE jar) /\ SetIsAuthenticated(FALSE, jar', left)
        /\ loading' = loading /\ tier' = tier
    BY <1>2, <1>12 DEF LogoutDone
  <2>2. jar' \in Nat
    BY <1>5, <2>1
  <2>3. /\ \E sent \in SUBSET RequestState : Ends(q, sent) /\ Follows(q, ok, sent) /\ Crosses(sent)
        /\ isAuthenticated' = FALSE
        /\ history' \in HistoryState
        /\ history'.answered = history.answered /\ history'.again = history.again
    BY <1>7, <1>12, <2>1, <2>2
  <2>4. Contexts(q, ok)
    BY <1>2, <1>5, <1>12, <2>1, <2>3 DEF Contexts
  <2> QED
    BY <2>3, <2>4
<1>13. CASE q.op = "license"
  <2>1. /\ tier' = (IF ok THEN q.got ELSE "standard") /\ wire' = left
        /\ history' = [history EXCEPT !.answered = ok]
        /\ UNCHANGED <<jar, isAuthenticated, loading, installed>>
    BY <1>2, <1>13 DEF FetchLicenseDone
  <2>2. history' \in HistoryState /\ history'.answered = ok /\ history'.again = history.again
        /\ history'.crossed = history.crossed
    BY <1>5, <2>1 DEF HistoryState
  <2>3. {x.op : x \in {s \in {} : Out(wire, s.op) # {}}} = {}
    OBVIOUS
  <2>4. Crosses({})
    BY <2>2, <2>3 DEF Crosses
  <2>5. Ends(q, {}) /\ Follows(q, ok, {})
    BY <1>3, <1>13, <2>1 DEF Follows
  <2>6. Contexts(q, ok)
    BY <1>2, <1>5, <1>13, <2>1, <2>2 DEF Contexts
  <2> QED
    BY <2>4, <2>5, <2>6
<1>14. CASE q.op = "gadgets"
  <2>1. /\ installed' = (IF ok THEN q.got ELSE installed) /\ wire' = left
        /\ UNCHANGED <<jar, isAuthenticated, loading, tier, history>>
    BY <1>2, <1>14 DEF RefreshDone
  <2>2. Contexts(q, ok)
    BY <1>2, <1>5, <1>14, <2>1 DEF Contexts
  <2> QED
    BY <1>8, <1>14, <2>1, <2>2
<1>15. CASE q.op \in {"install", "activate"}
  <2>1. UNCHANGED <<jar, isAuthenticated, loading, tier, installed>>
    BY <1>2, <1>15 DEF InstallDone, ActivateDone
  <2>2. CASE ~ok
    <3>1. wire' = left /\ history' = history
      BY <1>2, <1>15, <2>2 DEF InstallDone, ActivateDone
    <3>2. Contexts(q, ok)
      BY <1>2, <1>5, <1>15, <2>1, <2>2, <3>1 DEF Contexts
    <3> QED
      BY <1>8, <2>1, <2>2, <3>1, <3>2
  <2>3. CASE ok
    <3>1. PICK op \in {"gadgets", "license"} :
             /\ wire' = Append(left, Request(op, jar)) /\ Fetching(op)
             /\ op = "gadgets" => q.op = "install"
             /\ op = "license" => q.op = "activate"
      BY <1>2, <1>15, <2>3 DEF InstallDone, ActivateDone, FetchLicense
    <3>2. /\ \E sent \in SUBSET RequestState : Ends(q, sent) /\ Follows(q, ok, sent) /\ Crosses(sent)
          /\ history' \in HistoryState
          /\ history'.answered = history.answered /\ history'.again = history.again
      BY <1>9, <2>1, <2>3, <3>1
    <3>3. Contexts(q, ok)
      BY <1>2, <1>5, <1>15, <2>1, <2>3, <3>2 DEF Contexts
    <3> QED
      BY <3>2, <3>3
  <2> QED
    BY <2>2, <2>3
<1> QED
  BY <1>1, <1>10, <1>11, <1>12, <1>13, <1>14, <1>15 DEF Ops

\* Each step in these terms: the page is loaded, the user has a request sent,
\* the wizard goes on, the server answers, an answer arrives or is lost.
LEMMA Mounted ==
    ASSUME NEW cookie \in Nat
    PROVE  LET w == <<Request("probe", cookie), Request("license", cookie)>> IN
           /\ w \in Seq(RequestState)
           /\ Out(w, "probe") = {Request("probe", cookie)}
           /\ Out(w, "license") = {Request("license", cookie)}
           /\ \A op \in Ops : Single(w, op) /\ (op \notin {"probe", "license"} => Out(w, op) = {})
<1> DEFINE p == Request("probe", cookie)
           l == Request("license", cookie)
           w == <<p, l>>
<1>1. /\ p \in RequestState /\ p.op = "probe"
      /\ l \in RequestState /\ l.op = "license"
  BY ARequest DEF Ops
<1> HIDE DEF p, l
<1>2. w \in Seq(RequestState) /\ DOMAIN w = 1 .. 2 /\ w[1] = p /\ w[2] = l
  BY <1>1
<1> HIDE DEF w
<1>3. \A i \in DOMAIN w : (i = 1 /\ w[i] = p) \/ (i = 2 /\ w[i] = l)
  BY <1>2
<1>4. 1 \in DOMAIN w /\ 2 \in DOMAIN w
  BY <1>2
<1>5. Out(w, "probe") = {p} /\ Out(w, "license") = {l}
  BY <1>1, <1>2, <1>3, <1>4 DEF Out
<1>6. \A op \in Ops : Single(w, op) /\ (op \notin {"probe", "license"} => Out(w, op) = {})
  BY <1>1, <1>3 DEF Out, Single
<1> QED
  BY <1>2, <1>5, <1>6 DEF w, p, l

UserRequest(r) ==
    /\ Sends(r) /\ r.at = "asked" /\ r.cookie = jar /\ r.got = 0
    /\ gate = "routes" /\ ~loading
    /\ \/ r.op = "login" /\ ~isAuthenticated /\ Out(wire, "login") = {} /\ used'.logins > 0
       \/ r.op \in {"logout", "install", "activate"} /\ isAuthenticated /\ used'.logins = used.logins
    /\ r.op = "activate" => Out(wire, "activate") = {}
    /\ history' \in HistoryState
    /\ history'.crossed = history.crossed /\ history'.answered = history.answered
    /\ history'.again = (history.again \/ (r.op = "logout" /\ Out(wire, "logout") # {}))
    /\ used' \in UsedState /\ (used'.lost = 0 <=> used.lost = 0)
    /\ UNCHANGED <<version, licensed, gadgets, jar, gate, isAuthenticated, loading, tier, installed>>

LEMMA TheUser ==
    ASSUME SessionTyped, Login \/ Logout \/ Install \/ Activate
    PROVE  \E r \in RequestState : UserRequest(r)
<1> DEFINE R(op) == Request(op, jar)
<1>1. /\ history \in HistoryState /\ used \in UsedState /\ jar \in Nat
      /\ history.crossed \in SUBSET Ops /\ history.answered \in BOOLEAN /\ history.again \in BOOLEAN
  BY DEF SessionTyped, HistoryState
<1>2. \A op \in Ops :
                     /\ R(op) \in RequestState /\ R(op).op = op /\ R(op).cookie = jar
                     /\ R(op).at = "asked" /\ R(op).got = 0
                     /\ wire' = Append(wire, R(op)) => Sends(R(op))
  BY <1>1, ARequest, ItSends
<1> HIDE DEF R
<1>3. CASE Login
  <2>1. /\ wire' = Append(wire, R("login")) /\ Count("logins") /\ gate = "routes" /\ ~loading
        /\ ~isAuthenticated /\ Out(wire, "login") = {}
        /\ UNCHANGED <<version, licensed, gadgets, jar, gate, isAuthenticated, loading, tier, installed, history>>
    BY <1>3, Flying DEF Login, PublicRoute, R
  <2>2. used' \in UsedState /\ (used'.lost = 0 <=> used.lost = 0) /\ used'.logins > 0
    BY <1>1, <2>1, Counted
  <2>3. UserRequest(R("login"))
    BY <1>1, <1>2, <2>1, <2>2 DEF UserRequest, Ops
  <2> QED
    BY <1>2, <2>3 DEF Ops
<1>4. CASE Logout
  <2>1. /\ wire' = Append(wire, R("logout")) /\ Count("logouts") /\ gate = "routes" /\ ~loading
        /\ isAuthenticated
        /\ history' = [history EXCEPT !.again = @ \/ InFlight("logout")]
        /\ UNCHANGED <<version, licensed, gadgets, jar, gate, isAuthenticated, loading, tier, installed>>
    BY <1>4 DEF Logout, ProtectedRoute, R
  <2>2. used' \in UsedState /\ (used'.lost = 0 <=> used.lost = 0) /\ used'.logins = used.logins
    BY <1>1, <2>1, Counted
  <2>3. /\ history' \in HistoryState
        /\ history'.crossed = history.crossed /\ history'.answered = history.answered
        /\ history'.again = (history.again \/ Out(wire, "logout") # {})
    <3>1. InFlight("logout") <=> Out(wire, "logout") # {}
      BY Flying
    <3>2. InFlight("logout") \in BOOLEAN
      BY DEF InFlight
    <3> QED
      BY <1>1, <2>1, <3>1, <3>2 DEF HistoryState
  <2>4. UserRequest(R("logout"))
    BY <1>1, <1>2, <2>1, <2>2, <2>3 DEF UserRequest, Ops
  <2> QED
    BY <1>2, <2>4 DEF Ops
<1>5. CASE Install
  <2>1. /\ wire' = Append(wire, R("install")) /\ Count("installs") /\ gate = "routes" /\ ~loading
        /\ isAuthenticated
        /\ UNCHANGED <<version, licensed, gadgets, jar, gate, isAuthenticated, loading, tier, installed, history>>
    BY <1>5 DEF Install, ProtectedRoute, R
  <2>2. used' \in UsedState /\ (used'.lost = 0 <=> used.lost = 0) /\ used'.logins = used.logins
    BY <1>1, <2>1, Counted
  <2>3. UserRequest(R("install"))
    BY <1>1, <1>2, <2>1, <2>2 DEF UserRequest, Ops
  <2> QED
    BY <1>2, <2>3 DEF Ops
<1>6. CASE Activate
  <2>1. /\ wire' = Append(wire, R("activate")) /\ Count("changes") /\ gate = "routes" /\ ~loading
        /\ isAuthenticated /\ Out(wire, "activate") = {}
        /\ UNCHANGED <<version, licensed, gadgets, jar, gate, isAuthenticated, loading, tier, installed, history>>
    BY <1>6, Flying DEF Activate, ProtectedRoute, R
  <2>2. used' \in UsedState /\ (used'.lost = 0 <=> used.lost = 0) /\ used'.logins = used.logins
    BY <1>1, <2>1, Counted
  <2>3. UserRequest(R("activate"))
    BY <1>1, <1>2, <2>1, <2>2 DEF UserRequest, Ops
  <2> QED
    BY <1>2, <2>3 DEF Ops
<1> QED
  BY <1>3, <1>4, <1>5, <1>6

\* The wizard is over: the edition is fetched once more.
LEMMA TheWizard ==
    ASSUME SessionTyped, FinishWizard
    PROVE  \E r \in RequestState :
              /\ Sends(r) /\ r.op = "license" /\ r.at = "asked" /\ Crosses({r})
              /\ history' \in HistoryState
              /\ history'.answered = history.answered /\ history'.again = history.again
<1> DEFINE r == Request("license", jar)
<1>1. r \in RequestState /\ r.op = "license" /\ r.at = "asked" /\ history \in HistoryState
  BY ARequest DEF Ops, SessionTyped
<1>2. wire' = Append(wire, r) /\ Fetching("license")
  BY DEF FinishWizard, FetchLicense
<1> HIDE DEF r
<1>3. Sends(r)
  BY <1>1, <1>2, ItSends
<1>4. /\ Crosses({r}) /\ history' \in HistoryState
      /\ history'.answered = history.answered /\ history'.again = history.again
  BY <1>1, <1>2, SentHistory DEF Ops
<1> QED
  BY <1>1, <1>3, <1>4

Over(q, ok, sent) ==
    /\ Ends(q, sent) /\ Follows(q, ok, sent) /\ Crosses(sent) /\ Contexts(q, ok)
    /\ used' \in UsedState /\ used'.logins = used.logins
    /\ used'.lost = 0 => used.lost = 0 /\ Served(q) /\ ok = q.ok

LEMMA TheAnswer ==
    ASSUME SessionTyped, NEW i \in DOMAIN wire, AnswerRequest(i) \/ LoseRequest(i)
    PROVE  \E q \in RequestState, ok \in BOOLEAN, sent \in SUBSET RequestState : Over(q, ok, sent)
<1>1. wire[i] \in RequestState /\ wire[i].ok \in BOOLEAN /\ used \in UsedState
  BY OnTheWire DEF RequestState, SessionTyped
<1>2. CASE AnswerRequest(i)
  <2>1. Done(i, wire[i].ok) /\ Served(wire[i]) /\ used' = used
    BY <1>2 DEF AnswerRequest, Served
  <2>2. PICK sent \in SUBSET RequestState :
           /\ Ends(wire[i], sent) /\ Follows(wire[i], wire[i].ok, sent)
           /\ Crosses(sent) /\ Contexts(wire[i], wire[i].ok)
    BY <1>1, <2>1, ItIsDone
  <2>3. Over(wire[i], wire[i].ok, sent)
    BY <1>1, <2>1, <2>2 DEF Over
  <2> QED
    BY <1>1, <2>3
<1>3. CASE LoseRequest(i)
  <2>1. Done(i, FALSE) /\ Count("lost")
    BY <1>3 DEF LoseRequest
  <2>2. PICK sent \in SUBSET RequestState :
           /\ Ends(wire[i], sent) /\ Follows(wire[i], FALSE, sent)
           /\ Crosses(sent) /\ Contexts(wire[i], FALSE)
    BY <2>1, ItIsDone
  <2>3. used' \in UsedState /\ used'.lost # 0 /\ used'.logins = used.logins
    BY <1>1, <2>1, Counted
  <2>4. Over(wire[i], FALSE, sent)
    BY <2>2, <2>3 DEF Over
  <2> QED
    BY <1>1, <2>4
<1> QED
  BY <1>2, <1>3

\* The answer to a request the server has not seen, or has.
LEMMA TheServer ==
    ASSUME SessionTyped, NEW i \in DOMAIN wire, ServeRequest(i)
    PROVE  \E q, r \in RequestState :
              /\ q.at = "asked" /\ Serves(q, r) /\ Answer(q, r)
              /\ version' = IF r.ok /\ r.op = "logout" THEN version + 1 ELSE version
              /\ gadgets' = IF r.ok /\ r.op = "install" THEN gadgets + 1 ELSE gadgets
              /\ licensed' \in Editions /\ (~(r.ok /\ r.op = "activate") => licensed' = licensed)
              /\ UNCHANGED <<jar, gate, isAuthenticated, loading, tier, installed, used, history>>
<1>1. UNCHANGED <<jar, gate, isAuthenticated, loading, tier, installed, used, history>>
  BY DEF ServeRequest
<1> QED
  BY <1>1, ItServes, OnTheWire

Setup == OnAdminCreated \/ WizardLicense

LEMMA Loaded ==
    ASSUME SessionTyped, Reload
    PROVE  /\ wire' \in Seq(RequestState)
           /\ Out(wire', "probe") = {Request("probe", jar)}
           /\ Out(wire', "license") = {Request("license", jar)}
           /\ \A op \in Ops : Single(wire', op) /\ (op \notin {"probe", "license"} => Out(wire', op) = {})
           /\ gate' = "routes" /\ isAuthenticated' = FALSE /\ loading' = TRUE
           /\ UNCHANGED <<version, licensed, gadgets, jar>>
           /\ history' = [crossed |-> {}, answered |-> FALSE, again |-> FALSE]
           /\ used' \in UsedState /\ used'.logins = used.logins
<1>1. jar \in Nat /\ used \in UsedState
  BY DEF SessionTyped
<1>2. wire' = <<Request("probe", jar), Request("license", jar)>>
  BY DEF Reload, Mount
<1>3. used' \in UsedState /\ used'.logins = used.logins
  BY <1>1, Counted DEF Reload
<1>4. /\ wire' \in Seq(RequestState)
      /\ Out(wire', "probe") = {Request("probe", jar)}
      /\ Out(wire', "license") = {Request("license", jar)}
      /\ \A op \in Ops : Single(wire', op) /\ (op \notin {"probe", "license"} => Out(wire', op) = {})
  BY <1>1, <1>2, Mounted
<1> QED
  BY <1>3, <1>4 DEF Reload

LEMMA TypedStep ==
    ASSUME SessionTyped, SessionNext
    PROVE  SessionTyped'
<1>1. CASE Reload
  <2>1. history' \in HistoryState
    <3>1. history' = [crossed |-> {}, answered |-> FALSE, again |-> FALSE]
      BY <1>1 DEF Reload
    <3> QED
      BY <3>1 DEF HistoryState
  <2>2. Out(wire', "login") = {}
    BY <1>1, Loaded DEF Ops
  <2> QED
    BY <1>1, <2>1, <2>2, Loaded DEF SessionTyped
<1>2. CASE Login \/ Logout \/ Install \/ Activate
  <2>1. PICK r \in RequestState : UserRequest(r)
    BY <1>2, TheUser
  <2>2. wire' \in Seq(RequestState) /\ \A q \in Out(wire', "login") : q.got \in Nat
    BY <2>1 DEF UserRequest, Sends, Ops, SessionTyped
  <2> QED
    BY <2>1, <2>2 DEF UserRequest, SessionTyped
<1>3. CASE Setup
  BY <1>3 DEF Setup, OnAdminCreated, WizardLicense, SessionTyped, Editions
<1>4. CASE FinishWizard
  <2>1. PICK r \in RequestState : /\ Sends(r) /\ r.op = "license" /\ history' \in HistoryState
    BY <1>4, TheWizard
  <2>2. wire' \in Seq(RequestState) /\ Out(wire', "login") = Out(wire, "login")
    BY <2>1 DEF Sends, Ops
  <2> QED
    BY <1>4, <2>1, <2>2 DEF FinishWizard, SessionTyped
<1>5. ASSUME NEW i \in DOMAIN wire, ServeRequest(i) PROVE SessionTyped'
  <2>1. PICK q \in RequestState, r \in RequestState :
           /\ Serves(q, r) /\ Answer(q, r)
           /\ version' = IF r.ok /\ r.op = "logout" THEN version + 1 ELSE version
           /\ gadgets' = IF r.ok /\ r.op = "install" THEN gadgets + 1 ELSE gadgets
           /\ licensed' \in Editions
           /\ UNCHANGED <<jar, gate, isAuthenticated, loading, tier, installed, used, history>>
    BY <1>5, TheServer
  <2>2. wire' \in Seq(RequestState)
    BY <2>1 DEF Serves
  <2>3. \A x \in Out(wire', "login") : x.got \in Nat
    <3>1. \A x \in Out(wire', "login") : x \in Out(wire, "login") \/ (x = r /\ q.op = "login")
      BY <2>1 DEF Serves, Ops
    <3> QED
      BY <2>1, <3>1 DEF Answer, SessionTyped
  <2>4. version' \in Nat \ {0} /\ gadgets' \in Nat
    BY <2>1 DEF SessionTyped
  <2> QED
    BY <2>1, <2>2, <2>3, <2>4 DEF SessionTyped
<1>6. ASSUME NEW i \in DOMAIN wire, AnswerRequest(i) \/ LoseRequest(i) PROVE SessionTyped'
  <2>1. PICK q \in RequestState, ok \in BOOLEAN, sent \in SUBSET RequestState : Over(q, ok, sent)
    BY <1>6, TheAnswer
  <2>2. wire' \in Seq(RequestState)
    BY <2>1 DEF Over, Ends
  <2>3. \A r \in sent : r.op \in {"gadgets", "license"}
    BY <2>1 DEF Over, Follows
  <2>4. Out(wire', "login") \subseteq Out(wire, "login")
    BY <2>1, <2>3 DEF Over, Ends, Ops
  <2>5. q.op = "login" => q.got \in Nat
    BY <2>1 DEF Over, Ends, SessionTyped
  <2>6. isAuthenticated' \in BOOLEAN /\ loading' \in BOOLEAN /\ jar' \in Nat
    BY <2>1, <2>5 DEF Over, Contexts, SessionTyped
  <2> QED
    BY <2>1, <2>2, <2>4, <2>6 DEF Over, Contexts, SessionTyped
<1> QED
  BY <1>1, <1>2, <1>3, <1>4, <1>5, <1>6 DEF SessionNext, Setup

LEMMA ProbingStep ==
    ASSUME SessionTyped, Probing, SessionNext
    PROVE  Probing'
<1>1. CASE Reload
  BY <1>1, Loaded DEF Probing, Ops
<1>2. CASE Login \/ Logout \/ Install \/ Activate
  <2>1. PICK r \in RequestState : UserRequest(r)
    BY <1>2, TheUser
  <2>2. /\ Single(wire', "probe") /\ Single(wire', "login") /\ Single(wire', "activate")
        /\ \A op \in {"license", "gadgets"} : Single(wire, op) => Single(wire', op)
        /\ Out(wire', "probe") = Out(wire, "probe")
    BY <2>1 DEF UserRequest, Sends, Ops, Probing
  <2> QED
    BY <2>1, <2>2 DEF UserRequest, Probing
<1>3. CASE Setup
  BY <1>3 DEF Setup, OnAdminCreated, WizardLicense, Probing
<1>4. CASE FinishWizard
  <2>1. PICK r \in RequestState : Sends(r) /\ r.op = "license" /\ Crosses({r})
    BY <1>4, TheWizard
  <2>2. /\ \A op \in {"probe", "login", "activate", "gadgets"} : Single(wire, op) => Single(wire', op)
        /\ Single(wire, "license") /\ Out(wire, "license") = {} => Single(wire', "license")
        /\ \A op \in {"probe", "login", "logout"} : Out(wire', op) = Out(wire, op)
    BY <2>1 DEF Sends, Ops
  <2>3. /\ history.crossed \subseteq history'.crossed
        /\ Out(wire, "license") # {} => "license" \in history'.crossed
    BY <2>1 DEF Crosses
  <2> QED
    BY <1>4, <2>2, <2>3 DEF FinishWizard, Probing
<1>5. ASSUME NEW i \in DOMAIN wire, ServeRequest(i) PROVE Probing'
  <2>1. PICK q \in RequestState, r \in RequestState :
           Serves(q, r) /\ UNCHANGED <<gate, isAuthenticated, loading, used, history>>
    BY <1>5, TheServer
  <2>2. /\ \A op \in Ops : Single(wire, op) => Single(wire', op)
        /\ \A op \in Ops : Out(wire', op) # {} <=> Out(wire, op) # {}
    BY <2>1 DEF Serves
  <2> QED
    BY <2>1, <2>2 DEF Probing, Ops
<1>6. ASSUME NEW i \in DOMAIN wire, AnswerRequest(i) \/ LoseRequest(i) PROVE Probing'
  <2>1. PICK q \in RequestState, ok \in BOOLEAN, sent \in SUBSET RequestState : Over(q, ok, sent)
    BY <1>6, TheAnswer
  <2>2. \A r \in sent : r.op \in {"gadgets", "license"}
    BY <2>1 DEF Over, Follows
  <2>3. \A op \in {"probe", "login", "logout", "activate"} :
           /\ Single(wire, op) => Single(wire', op)
           /\ Out(wire', op) \subseteq Out(wire, op)
           /\ op # q.op => Out(wire', op) = Out(wire, op)
           /\ Single(wire, op) /\ op = q.op => Out(wire', op) = {}
    <3> SUFFICES ASSUME NEW op \in {"probe", "login", "logout", "activate"}
                 PROVE  /\ Single(wire, op) => Single(wire', op)
                        /\ Out(wire', op) \subseteq Out(wire, op)
                        /\ op # q.op => Out(wire', op) = Out(wire, op)
                        /\ Single(wire, op) /\ op = q.op => Out(wire', op) = {}
      OBVIOUS
    <3>1. op \in Ops /\ \A r \in sent : r.op # op
      BY <2>2 DEF Ops
    <3>2. Ends(q, sent)
      BY <2>1 DEF Over
    <3> QED
      BY <3>1, <3>2, NoneAdded
  <2>4. \A op \in {"license", "gadgets"} \ history'.crossed : Single(wire', op)
    <3> SUFFICES ASSUME NEW op \in {"license", "gadgets"}, op \notin history'.crossed
                 PROVE  Single(wire', op)
      OBVIOUS
    <3>1. op \notin history.crossed /\ \A r \in sent : r.op = op => Out(wire, op) = {}
      BY <2>1 DEF Over, Crosses
    <3>2. Single(wire, op)
      BY <3>1 DEF Probing
    <3> QED
      BY <2>1, <3>1, <3>2 DEF Over, Ends, Ops
  <2>5. q.op \in Ops /\ q \in Out(wire, q.op)
    BY <2>1 DEF Over, Ends, RequestState
  <2>6. /\ loading' = (loading /\ q.op # "probe") /\ used'.logins = used.logins /\ gate' = gate
        /\ isAuthenticated' = CASE q.op = "probe" -> ok
                             [] q.op = "login" -> ok \/ isAuthenticated
                             [] q.op = "logout" -> FALSE
                             [] OTHER -> isAuthenticated
    BY <2>1 DEF Over, Contexts
  <2>7. loading' <=> Out(wire', "probe") # {}
    BY <2>3, <2>5, <2>6 DEF Probing
  <2>8. loading' => ~isAuthenticated' /\ Out(wire', "login") = {} /\ Out(wire', "logout") = {}
    BY <2>3, <2>5, <2>6 DEF Probing
  <2>9. Single(wire', "probe") /\ Single(wire', "login") /\ Single(wire', "activate")
    BY <2>3 DEF Probing
  <2> QED
    BY <2>4, <2>6, <2>7, <2>8, <2>9 DEF Probing
<1> QED
  BY <1>1, <1>2, <1>3, <1>4, <1>5, <1>6 DEF SessionNext, Setup

LEMMA CookiesStep ==
    ASSUME SessionTyped, Probing, InOrder => Cookies, SessionNext, InOrder'
    PROVE  Cookies'
<1> USE DEF InOrder
<1>1. CASE Reload
  <2>1. \A q \in Out(wire', "probe") : q.cookie = jar /\ ~Served(q)
    <3>1. Request("probe", jar).cookie = jar /\ Request("probe", jar).at = "asked"
      BY DEF Request
    <3> QED
      BY <1>1, <3>1, Loaded DEF Served
  <2>2. Out(wire', "login") = {} /\ Out(wire', "logout") = {} /\ Single(wire', "logout")
    BY <1>1, Loaded DEF Ops
  <2> QED
    BY <1>1, <2>1, <2>2, Loaded DEF Cookies
<1>2. CASE Login \/ Logout \/ Install \/ Activate
  <2>1. PICK r \in RequestState : UserRequest(r)
    BY <1>2, TheUser
  <2>2. /\ InOrder /\ (r.op = "logout" => Out(wire, "logout") = {}) /\ ~loading
        /\ r.at = "asked" /\ r.cookie = jar
        /\ UNCHANGED <<version, jar, isAuthenticated, loading>>
    BY <2>1 DEF UserRequest
  <2>3. Cookies
    BY <2>2
  <2>4. /\ \A op \in {"login", "logout", "probe"} :
              Out(wire', op) = IF op = r.op THEN Out(wire, op) \cup {r} ELSE Out(wire, op)
        /\ Single(wire', "logout") /\ Out(wire, "probe") = {} /\ r.op # "probe"
    BY <2>1, <2>2, <2>3 DEF UserRequest, Sends, Ops, Probing, Cookies
  <2>5. CASE r.op = "login"
    <3>1. /\ ~isAuthenticated /\ Out(wire, "login") = {}
          /\ Out(wire', "login") = {r} /\ Out(wire', "logout") = Out(wire, "logout") /\ Out(wire', "probe") = {}
      BY <2>1, <2>4, <2>5 DEF UserRequest
    <3> QED
      BY <2>2, <2>3, <2>4, <3>1 DEF Cookies, Served
  <2>6. CASE r.op = "logout"
    <3>1. /\ isAuthenticated /\ used'.logins = used.logins
          /\ Out(wire', "logout") = {r} /\ Out(wire', "login") = Out(wire, "login") /\ Out(wire', "probe") = {}
      BY <2>1, <2>2, <2>4, <2>6 DEF UserRequest
    <3> QED
      BY <2>2, <2>3, <2>4, <2>6, <3>1 DEF Cookies, Served
  <2>7. CASE r.op \notin {"login", "logout"}
    <3>1. /\ used'.logins = used.logins
          /\ Out(wire', "logout") = Out(wire, "logout") /\ Out(wire', "login") = Out(wire, "login")
          /\ Out(wire', "probe") = {}
      BY <2>1, <2>4, <2>7 DEF UserRequest
    <3> QED
      BY <2>2, <2>3, <2>4, <3>1 DEF Cookies
  <2> QED
    BY <2>5, <2>6, <2>7
<1>3. CASE Setup
  <2>1. /\ UNCHANGED <<version, isAuthenticated, loading, wire, used, history>>
        /\ jar' = jar \/ (gate = "wizard" /\ jar = 0 /\ jar' = version)
    BY <1>3 DEF Setup, OnAdminCreated, WizardLicense
  <2>2. Cookies /\ (jar' = jar \/ (used.logins = 0 /\ jar = 0 /\ jar' = version))
    BY <2>1 DEF Probing
  <2>3. CASE jar' = jar
    BY <2>1, <2>2, <2>3 DEF Cookies
  <2>4. CASE jar' # jar
    <3>1. used.logins = 0 /\ jar = 0 /\ jar' = version
      BY <2>2, <2>4
    <3>2. \A q \in Out(wire, "probe") : q.cookie = 0 /\ (Served(q) => (q.ok <=> q.cookie = version))
      BY <2>2, <3>1 DEF Cookies
    <3>3. \A q \in Out(wire, "logout") : IF Served(q) THEN q.ok ELSE q.cookie = version
      BY <2>2 DEF Cookies
    <3> QED
      BY <2>1, <2>2, <3>1, <3>2, <3>3 DEF Cookies
  <2> QED
    BY <2>3, <2>4
<1>4. CASE FinishWizard
  <2>1. PICK r \in RequestState : Sends(r) /\ r.op = "license" /\ history'.again = history.again
    BY <1>4, TheWizard
  <2>2. /\ Out(wire', "login") = Out(wire, "login") /\ Out(wire', "logout") = Out(wire, "logout")
        /\ Out(wire', "probe") = Out(wire, "probe")
        /\ (Single(wire, "logout") => Single(wire', "logout"))
    BY <2>1 DEF Sends, Ops
  <2>3. UNCHANGED <<version, jar, isAuthenticated, loading, used>>
    BY <1>4 DEF FinishWizard
  <2> QED
    BY <2>1, <2>2, <2>3 DEF Cookies
<1>5. ASSUME NEW i \in DOMAIN wire, ServeRequest(i) PROVE Cookies'
  <2>1. PICK q \in RequestState, r \in RequestState :
           /\ q.at = "asked" /\ Serves(q, r) /\ Answer(q, r)
           /\ version' = IF r.ok /\ r.op = "logout" THEN version + 1 ELSE version
           /\ UNCHANGED <<jar, gate, isAuthenticated, loading, used, history>>
    BY <1>5, TheServer
  <2>2. Cookies /\ ~Served(q) /\ q \in Out(wire, q.op) /\ Served(r) /\ r.op = q.op /\ q.op \in Ops
    BY <2>1 DEF Served, Serves, Answer, RequestState
  <2>3. \A op \in {"login", "logout", "probe"} :
           /\ op # q.op => Out(wire', op) = Out(wire, op)
           /\ op = q.op => Out(wire', op) = {r}
           /\ Single(wire', op)
    BY <2>1, <2>2 DEF Serves, Probing, Cookies, Ops
  <2>4. CASE q.op = "login"
    <3>1. /\ Out(wire', "login") = {r} /\ Out(wire', "logout") = Out(wire, "logout")
          /\ Out(wire', "probe") = Out(wire, "probe") /\ Out(wire, "login") # {}
      BY <2>2, <2>3, <2>4
    <3>2. r.ok /\ r.got = version /\ version' = version
      BY <2>1, <2>2, <2>4 DEF Answer
    <3> QED
      BY <2>1, <2>2, <2>3, <3>1, <3>2 DEF Cookies
  <2>5. CASE q.op = "logout"
    <3>1. /\ Out(wire', "logout") = {r} /\ isAuthenticated /\ ~loading
          /\ Out(wire', "login") = {} /\ Out(wire', "probe") = {}
      BY <2>2, <2>3, <2>5 DEF Cookies, Probing
    <3>2. r.ok
      BY <2>1, <2>2, <2>5 DEF Answer, Cookies
    <3> QED
      BY <2>1, <2>2, <2>3, <3>1, <3>2 DEF Cookies
  <2>6. CASE q.op = "probe"
    <3>1. /\ Out(wire', "probe") = {r} /\ Out(wire', "login") = Out(wire, "login")
          /\ Out(wire', "logout") = Out(wire, "logout")
      BY <2>3, <2>6
    <3>2. version' = version /\ r.cookie = q.cookie /\ (r.ok <=> r.cookie = version)
      BY <2>1, <2>2, <2>6 DEF Answer
    <3>3. q.cookie = jar \/ (used.logins = 0 /\ q.cookie = 0)
      BY <2>2, <2>6 DEF Cookies
    <3> QED
      BY <2>1, <2>2, <2>3, <3>1, <3>2, <3>3 DEF Cookies
  <2>7. CASE q.op \notin {"login", "logout", "probe"}
    <3>1. /\ Out(wire', "probe") = Out(wire, "probe") /\ Out(wire', "login") = Out(wire, "login")
          /\ Out(wire', "logout") = Out(wire, "logout")
      BY <2>3, <2>7
    <3>2. version' = version
      BY <2>1, <2>2, <2>7
    <3> QED
      BY <2>1, <2>2, <2>3, <3>1, <3>2 DEF Cookies
  <2> QED
    BY <2>4, <2>5, <2>6, <2>7
<1>6. ASSUME NEW i \in DOMAIN wire, AnswerRequest(i) \/ LoseRequest(i) PROVE Cookies'
  <2>1. PICK q \in RequestState, ok \in BOOLEAN, sent \in SUBSET RequestState : Over(q, ok, sent)
    BY <1>6, TheAnswer
  <2>2. /\ InOrder /\ Served(q) /\ ok = q.ok /\ Ends(q, sent) /\ Contexts(q, ok) /\ q \in Out(wire, q.op)
        /\ \A r \in sent : r.op \in {"gadgets", "license"}
        /\ version' = version /\ used'.logins = used.logins
    BY <2>1 DEF Over, Contexts, Follows, Ends
  <2>3. Cookies /\ q.op \in Ops /\ version \in Nat \ {0} /\ isAuthenticated \in BOOLEAN
    BY <2>2 DEF RequestState, SessionTyped
  <2>4. \A op \in {"login", "logout", "probe"} :
           /\ op # q.op => Out(wire', op) = Out(wire, op)
           /\ op = q.op => Out(wire', op) = {}
           /\ Single(wire', op)
    BY <2>2, <2>3, NoneAdded DEF Probing, Cookies, Ops
  <2>5. CASE q.op = "probe"
    <3>1. /\ Out(wire', "probe") = {} /\ Out(wire', "login") = {} /\ Out(wire', "logout") = {}
          /\ ~isAuthenticated
      BY <2>2, <2>4, <2>5 DEF Probing
    <3>2. isAuthenticated' = ok /\ jar' = jar
      BY <2>2, <2>5 DEF Contexts
    <3>3. (q.cookie = jar \/ (used.logins = 0 /\ q.cookie = 0)) /\ (ok <=> q.cookie = version)
      BY <2>2, <2>3, <2>5 DEF Cookies
    <3>4. (ok => jar = version) /\ (~ok /\ used.logins > 0 => jar # version)
      BY <2>3, <3>3
    <3> QED
      BY <2>2, <2>4, <3>1, <3>2, <3>4 DEF Cookies
  <2>6. CASE q.op = "login"
    <3>1. /\ Out(wire', "login") = {} /\ Out(wire, "logout") = {} /\ Out(wire', "logout") = {} /\ ~loading
          /\ Out(wire', "probe") = {}
      BY <2>2, <2>3, <2>4, <2>6 DEF Cookies, Probing
    <3>2. ok /\ q.got = version
      BY <2>2, <2>3, <2>6 DEF Cookies
    <3>3. isAuthenticated' /\ jar' = version
      BY <2>2, <2>6, <3>2 DEF Contexts
    <3> QED
      BY <2>2, <2>4, <3>1, <3>3 DEF Cookies
  <2>7. CASE q.op = "logout"
    <3>1. /\ Out(wire', "login") = {} /\ Out(wire', "logout") = {} /\ Out(wire', "probe") = {}
      BY <2>2, <2>3, <2>4, <2>7 DEF Cookies, Probing
    <3>2. ok
      BY <2>2, <2>3, <2>7 DEF Cookies
    <3>3. ~isAuthenticated' /\ jar' = 0
      BY <2>2, <2>7, <3>2 DEF Contexts
    <3> QED
      BY <2>2, <2>3, <2>4, <3>1, <3>3 DEF Cookies
  <2>8. CASE q.op \notin {"probe", "login", "logout"}
    <3>1. isAuthenticated' = isAuthenticated /\ jar' = jar /\ (loading' <=> loading)
      BY <2>2, <2>8 DEF Contexts
    <3>2. /\ Out(wire', "login") = Out(wire, "login") /\ Out(wire', "logout") = Out(wire, "logout")
          /\ Out(wire', "probe") = Out(wire, "probe")
      BY <2>4, <2>8
    <3> QED
      BY <2>2, <2>3, <2>4, <3>1, <3>2 DEF Cookies
  <2> QED
    BY <2>5, <2>6, <2>7, <2>8
<1> QED
  BY <1>1, <1>2, <1>3, <1>4, <1>5, <1>6 DEF SessionNext, Setup

\* What the server has done and the client does not know yet is not forgotten
\* before it is answered.
LEMMA StillTook ==
    ASSUME NEW q, NEW r, Serves(q, r), ~Served(q), NEW op \in Ops
    PROVE  /\ Took(op) => Took(op)'
           /\ op = q.op /\ Served(r) /\ r.ok => Took(op)'
<1>1. Out(wire, op) \ {q} \subseteq Out(wire', op) /\ (op = q.op => r \in Out(wire', op))
  BY DEF Serves
<1> QED
  BY <1>1 DEF Took

LEMMA TookUntil ==
    ASSUME NEW q, NEW sent, Ends(q, sent), NEW op \in Ops, op = q.op => ~q.ok
    PROVE  Took(op) => Took(op)'
<1>1. Out(wire, op) \ {q} \subseteq Out(wire', op) /\ q \in Out(wire, q.op)
  BY DEF Ends
<1>2. \A x \in Out(wire, op) : x.op = op
  BY DEF Out
<1> QED
  BY <1>1, <1>2 DEF Took

LEMMA EditionStep ==
    ASSUME SessionTyped, Probing, SessionNext,
           used.lost = 0 /\ gate = "routes" /\ "license" \notin history.crossed => Edition,
           used'.lost = 0, gate' = "routes", "license" \notin history'.crossed
    PROVE  Edition'
<1>1. CASE Reload
  <2>1. Out(wire', "license") = {Request("license", jar)} /\ ~Served(Request("license", jar))
    BY <1>1, Loaded DEF Request, Served
  <2> QED
    BY <2>1 DEF Edition
<1>2. CASE Login \/ Logout \/ Install \/ Activate
  <2>1. PICK r \in RequestState : UserRequest(r)
    BY <1>2, TheUser
  <2>2. /\ Edition /\ UNCHANGED <<licensed, tier>> /\ history'.answered = history.answered
        /\ ~Served(r) /\ r.op \notin {"license"}
    BY <2>1 DEF UserRequest, Served
  <2>3. Out(wire', "license") = Out(wire, "license")
        /\ Out(wire, "activate") \subseteq Out(wire', "activate")
    BY <2>1, <2>2 DEF UserRequest, Sends, Ops
  <2>4. Took("activate") => Took("activate")'
    BY <2>3 DEF Took
  <2> QED
    BY <2>2, <2>3, <2>4 DEF Edition
<1>3. CASE Setup
  <2>1. Edition /\ UNCHANGED <<licensed, tier, wire, history>>
    BY <1>3 DEF Setup, OnAdminCreated, WizardLicense
  <2> QED
    BY <2>1 DEF Edition, Took
<1>4. CASE FinishWizard
  <2>1. PICK r \in RequestState : Sends(r) /\ r.op = "license" /\ r.at = "asked" /\ Crosses({r})
    BY <1>4, TheWizard
  <2>2. Out(wire, "license") = {}
    BY <2>1 DEF Crosses
  <2>3. Out(wire', "license") = {r} /\ ~Served(r)
    BY <2>1, <2>2 DEF Sends, Ops, Served
  <2> QED
    BY <2>3 DEF Edition
<1>5. ASSUME NEW i \in DOMAIN wire, ServeRequest(i) PROVE Edition'
  <2>1. PICK q \in RequestState, r \in RequestState :
           /\ q.at = "asked" /\ Serves(q, r) /\ Answer(q, r)
           /\ ~(r.ok /\ r.op = "activate") => licensed' = licensed
           /\ UNCHANGED <<gate, tier, used, history>>
    BY <1>5, TheServer
  <2>2. Edition /\ Single(wire, "license") /\ ~Served(q) /\ r.op = q.op /\ q.op \in Ops /\ Served(r)
        /\ q \in Out(wire, q.op)
    BY <2>1 DEF Served, Answer, RequestState, Probing, Serves
  <2>3. CASE q.op = "license"
    <3>1. Out(wire', "license") = {r} /\ Out(wire', "activate") = Out(wire, "activate")
      BY <2>1, <2>2, <2>3 DEF Serves, Ops
    <3>2. licensed' = licensed /\ r.got = licensed
      BY <2>1, <2>2, <2>3 DEF Answer
    <3> QED
      BY <3>1, <3>2 DEF Edition
  <2>4. CASE q.op = "activate"
    <3>1. Out(wire', "license") = Out(wire, "license")
      BY <2>1, <2>4 DEF Serves, Ops
    <3>2. (Took("activate") => Took("activate")') /\ (r.ok => Took("activate")')
      BY <2>1, <2>2, <2>4, StillTook DEF Ops
    <3>3. ~r.ok => licensed' = licensed
      BY <2>1
    <3> QED
      BY <2>1, <2>2, <3>1, <3>2, <3>3 DEF Edition
  <2>5. CASE q.op \notin {"license", "activate"}
    <3>1. Out(wire', "license") = Out(wire, "license") /\ Out(wire', "activate") = Out(wire, "activate")
      BY <2>1, <2>5 DEF Serves, Ops
    <3>2. licensed' = licensed
      BY <2>1, <2>2, <2>5
    <3> QED
      BY <2>1, <2>2, <3>1, <3>2 DEF Edition, Took
  <2> QED
    BY <2>3, <2>4, <2>5
<1>6. ASSUME NEW i \in DOMAIN wire, AnswerRequest(i) \/ LoseRequest(i) PROVE Edition'
  <2>1. PICK q \in RequestState, ok \in BOOLEAN, sent \in SUBSET RequestState : Over(q, ok, sent)
    BY <1>6, TheAnswer
  <2>2. /\ used.lost = 0 /\ Served(q) /\ ok = q.ok /\ Ends(q, sent) /\ Contexts(q, ok) /\ q \in Out(wire, q.op)
        /\ Follows(q, ok, sent) /\ Crosses(sent) /\ q.op \in Ops /\ gate' = gate /\ licensed' = licensed
    BY <2>1 DEF Over, Contexts, Ends, RequestState
  <2>3. "license" \notin history.crossed
    BY <2>2 DEF Crosses
  <2>4. Edition /\ Single(wire, "license") /\ Single(wire, "activate")
    BY <2>2, <2>3 DEF Probing
  <2>5. CASE q.op = "activate" /\ ok
    <3>1. PICK r \in sent : r.op = "license"
      BY <2>2, <2>5 DEF Follows
    <3>2. Out(wire, "license") = {}
      BY <2>2, <3>1 DEF Crosses
    <3>3. Out(wire', "license") = {x \in sent : x.op = "license"}
      BY <2>2, <2>5, <3>2 DEF Ends, Ops
    <3>4. Out(wire', "license") # {} /\ \A x \in Out(wire', "license") : ~Served(x)
      BY <2>2, <3>1, <3>3 DEF Follows, Served
    <3> QED
      BY <3>4 DEF Edition
  <2>6. CASE ~(q.op = "activate" /\ ok)
    <3>1. \A r \in sent : r.op = "gadgets"
      BY <2>2, <2>6 DEF Follows
    <3>2. /\ Out(wire', "license") \subseteq Out(wire, "license")
          /\ q.op # "license" => Out(wire', "license") = Out(wire, "license")
          /\ q.op = "license" => Out(wire', "license") = {}
      BY <2>2, <2>4, <3>1, NoneAdded DEF Ops
    <3>3. Took("activate") => Took("activate")'
      BY <2>2, <2>6, TookUntil DEF Ops
    <3>4. CASE q.op = "license"
      <4>1. tier' = (IF ok THEN q.got ELSE "standard") /\ history'.answered = ok
        BY <2>2, <3>4 DEF Contexts
      <4>2. ok /\ ~Took("activate") => q.got = licensed
        BY <2>2, <2>4, <3>4 DEF Edition
      <4> QED
        BY <2>2, <3>2, <3>3, <3>4, <4>1, <4>2 DEF Edition
    <3>5. CASE q.op # "license"
      <4>1. tier' = tier /\ history'.answered = history.answered
        BY <2>2, <3>5 DEF Contexts
      <4> QED
        BY <2>2, <2>4, <3>2, <3>3, <3>5, <4>1 DEF Edition
    <3> QED
      BY <3>4, <3>5
  <2> QED
    BY <2>5, <2>6
<1> QED
  BY <1>1, <1>2, <1>3, <1>4, <1>5, <1>6 DEF SessionNext, Setup

LEMMA CookieIsGood ==
    ASSUME Cookies, isAuthenticated, ~Took("logout")
    PROVE  jar = version
<1>1. CASE Out(wire, "logout") = {}
  BY <1>1 DEF Cookies
<1>2. CASE Out(wire, "logout") # {}
  BY <1>2 DEF Cookies, Took
<1> QED
  BY <1>1, <1>2

LEMMA GadgetsStep ==
    ASSUME SessionTyped, Probing, InOrder => Cookies, SessionNext, Cookies',
           InOrder /\ "gadgets" \notin history.crossed => Gadgets,
           InOrder', "gadgets" \notin history'.crossed
    PROVE  Gadgets'
<1> USE DEF InOrder
<1>1. CASE Reload
  BY <1>1, Loaded DEF Gadgets
<1>2. CASE Login \/ Logout \/ Install \/ Activate
  <2>1. PICK r \in RequestState : UserRequest(r)
    BY <1>2, TheUser
  <2>2. /\ Gadgets /\ UNCHANGED <<version, gadgets, isAuthenticated, installed>> /\ ~Served(r)
        /\ r.op # "gadgets"
    BY <2>1 DEF UserRequest, Served
  <2>3. /\ Out(wire', "gadgets") = Out(wire, "gadgets")
        /\ Out(wire, "install") \subseteq Out(wire', "install")
        /\ Out(wire, "logout") \subseteq Out(wire', "logout")
    BY <2>1, <2>2 DEF UserRequest, Sends, Ops
  <2>4. (Took("install") => Took("install")') /\ (Took("logout") => Took("logout")')
    BY <2>3 DEF Took
  <2> QED
    BY <2>2, <2>3, <2>4 DEF Gadgets
<1>3. CASE Setup
  <2>1. Gadgets /\ UNCHANGED <<version, gadgets, isAuthenticated, installed, wire>>
    BY <1>3 DEF Setup, OnAdminCreated, WizardLicense
  <2> QED
    BY <2>1 DEF Gadgets, Took
<1>4. CASE FinishWizard
  <2>1. PICK r \in RequestState : /\ Sends(r) /\ r.op = "license" /\ Crosses({r})
                                /\ history'.again = history.again
    BY <1>4, TheWizard
  <2>2. \A op \in {"gadgets", "install", "logout"} : Out(wire', op) = Out(wire, op)
    BY <2>1 DEF Sends, Ops
  <2>3. Gadgets /\ UNCHANGED <<version, gadgets, isAuthenticated, installed>>
    BY <1>4, <2>1 DEF FinishWizard, Crosses
  <2> QED
    BY <2>2, <2>3 DEF Gadgets, Took
<1>5. ASSUME NEW i \in DOMAIN wire, ServeRequest(i) PROVE Gadgets'
  <2>1. PICK q \in RequestState, r \in RequestState :
           /\ q.at = "asked" /\ Serves(q, r) /\ Answer(q, r)
           /\ version' = IF r.ok /\ r.op = "logout" THEN version + 1 ELSE version
           /\ gadgets' = IF r.ok /\ r.op = "install" THEN gadgets + 1 ELSE gadgets
           /\ UNCHANGED <<isAuthenticated, installed, used, history>>
    BY <1>5, TheServer
  <2>2. /\ Gadgets /\ Cookies /\ Single(wire, "gadgets") /\ ~Served(q) /\ r.op = q.op /\ q.op \in Ops
        /\ Served(r) /\ q \in Out(wire, q.op)
    BY <2>1 DEF Served, Answer, RequestState, Probing, Serves
  <2>3. CASE q.op = "gadgets"
    <3>1. /\ Out(wire', "gadgets") = {r}
          /\ Out(wire', "install") = Out(wire, "install") /\ Out(wire', "logout") = Out(wire, "logout")
      BY <2>1, <2>2, <2>3 DEF Serves, Ops
    <3>2. gadgets' = gadgets /\ version' = version
      BY <2>1, <2>2, <2>3
    <3>3. isAuthenticated /\ ~Took("logout") => q.cookie = version
      BY <2>2, <2>3 DEF Gadgets
    <3>4. r.cookie = q.cookie /\ (q.cookie = version => r.ok) /\ r.got = gadgets
      BY <2>1, <2>3 DEF Answer
    <3> QED
      BY <2>1, <3>1, <3>2, <3>3, <3>4 DEF Gadgets, Took
  <2>4. CASE q.op = "install"
    <3>1. Out(wire', "gadgets") = Out(wire, "gadgets") /\ Out(wire', "logout") = Out(wire, "logout")
      BY <2>1, <2>4 DEF Serves, Ops
    <3>2. (Took("install") => Took("install")') /\ (r.ok => Took("install")')
      BY <2>1, <2>2, <2>4, StillTook DEF Ops
    <3>3. version' = version /\ (~r.ok => gadgets' = gadgets)
      BY <2>1, <2>2, <2>4
    <3>4. Took("logout")' <=> Took("logout")
      BY <3>1 DEF Took
    <3> QED
      BY <2>1, <2>2, <3>1, <3>2, <3>3, <3>4 DEF Gadgets
  <2>5. CASE q.op = "logout"
    <3>1. r.ok
      BY <2>1, <2>2, <2>5 DEF Answer, Cookies
    <3>2. Took("logout")'
      BY <2>1, <2>2, <2>5, <3>1, StillTook DEF Ops
    <3> QED
      BY <3>2 DEF Gadgets
  <2>6. CASE q.op \notin {"gadgets", "install", "logout"}
    <3>1. \A op \in {"gadgets", "install", "logout"} : Out(wire', op) = Out(wire, op)
      BY <2>1, <2>6 DEF Serves, Ops
    <3>2. gadgets' = gadgets /\ version' = version
      BY <2>1, <2>2, <2>6
    <3> QED
      BY <2>1, <2>2, <3>1, <3>2 DEF Gadgets, Took
  <2> QED
    BY <2>3, <2>4, <2>5, <2>6
<1>6. ASSUME NEW i \in DOMAIN wire, AnswerRequest(i) \/ LoseRequest(i) PROVE Gadgets'
  <2>1. PICK q \in RequestState, ok \in BOOLEAN, sent \in SUBSET RequestState : Over(q, ok, sent)
    BY <1>6, TheAnswer
  <2>2. /\ InOrder /\ Served(q) /\ ok = q.ok /\ Ends(q, sent) /\ Contexts(q, ok) /\ q \in Out(wire, q.op)
        /\ Follows(q, ok, sent) /\ Crosses(sent) /\ q.op \in Ops
        /\ version' = version /\ gadgets' = gadgets
    BY <2>1 DEF Over, Contexts, Ends, RequestState
  <2>3. "gadgets" \notin history.crossed
    BY <2>2 DEF Crosses
  <2>4. Gadgets /\ Single(wire, "gadgets") /\ Cookies
    BY <2>2, <2>3 DEF Probing
  <2> SUFFICES ASSUME isAuthenticated', ~Took("logout")'
               PROVE  /\ \A x \in Out(wire', "gadgets") :
                            /\ x.cookie = version
                            /\ Served(x) => x.ok /\ (~Took("install")' => x.got = gadgets)
                      /\ Out(wire', "gadgets") = {} /\ ~Took("install")' => installed' = gadgets
    BY <2>2 DEF Gadgets
  <2>5. CASE \E r \in sent : r.op = "gadgets"
    <3>1. PICK r \in sent : r.op = "gadgets"
      BY <2>5
    <3>2. Out(wire, "gadgets") = {} /\ q.op # "gadgets"
      BY <2>2, <3>1 DEF Crosses, Ends
    <3>3. Out(wire', "gadgets") = {x \in sent : x.op = "gadgets"}
      BY <2>2, <3>2 DEF Ends, Ops
    <3>4. Out(wire', "gadgets") # {} /\ \A x \in Out(wire', "gadgets") : x.cookie = jar' /\ ~Served(x)
      BY <2>2, <3>1, <3>3 DEF Follows, Served
    <3>5. jar' = version
      <4>1. (Cookies /\ isAuthenticated /\ ~Took("logout") => jar = version)'
        BY CookieIsGood, PTL
      <4> QED
        BY <2>2, <4>1
    <3> QED
      BY <3>4, <3>5
  <2>6. CASE ~(\E r \in sent : r.op = "gadgets")
    <3>1. isAuthenticated /\ ~(q.op = "install" /\ ok)
      BY <2>2, <2>6 DEF Follows
    <3>2. q.op # "logout"
      BY <2>2 DEF Contexts
    <3>3. ~Took("logout") /\ (Took("install") => Took("install")')
      BY <2>2, <3>1, <3>2, TookUntil DEF Ops
    <3>4. /\ Out(wire', "gadgets") \subseteq Out(wire, "gadgets")
          /\ q.op # "gadgets" => Out(wire', "gadgets") = Out(wire, "gadgets")
      BY <2>2, <2>6, NoneAdded DEF Ops
    <3>5. /\ \A x \in Out(wire, "gadgets") :
                /\ x.cookie = version
                /\ Served(x) => x.ok /\ (~Took("install") => x.got = gadgets)
          /\ Out(wire, "gadgets") = {} /\ ~Took("install") => installed = gadgets
      BY <2>4, <3>1, <3>3 DEF Gadgets
    <3>6. installed' = IF q.op = "gadgets" /\ ok THEN q.got ELSE installed
      BY <2>2, <3>1 DEF Contexts
    <3>7. CASE q.op = "gadgets"
      <4>1. ok /\ (~Took("install") => q.got = gadgets)
        BY <2>2, <3>5, <3>7
      <4> QED
        BY <3>3, <3>4, <3>5, <3>6, <3>7, <4>1
    <3>8. CASE q.op # "gadgets"
      BY <3>3, <3>4, <3>5, <3>6, <3>8
    <3> QED
      BY <3>7, <3>8
  <2> QED
    BY <2>5, <2>6
<1> QED
  BY <1>1, <1>2, <1>3, <1>4, <1>5, <1>6 DEF SessionNext, Setup

LEMMA SessionInitInv == SessionInit => SessionInv
<1> SUFFICES ASSUME SessionInit PROVE SessionInv
  OBVIOUS
<1>1. /\ wire \in Seq(RequestState)
      /\ Out(wire, "probe") = {Request("probe", 0)}
      /\ Out(wire, "license") = {Request("license", 0)}
      /\ \A op \in Ops : Single(wire, op) /\ (op \notin {"probe", "license"} => Out(wire, op) = {})
  BY Mounted DEF SessionInit
<1>2. ~Served(Request("probe", 0)) /\ Request("probe", 0).cookie = 0 /\ ~Served(Request("license", 0))
  BY DEF Request, Served
<1>3. used \in UsedState /\ history \in HistoryState
  BY DEF SessionInit, UsedState, HistoryState
<1>4. Out(wire, "login") = {} /\ Out(wire, "logout") = {} /\ Single(wire, "logout")
  BY <1>1 DEF Ops
<1>5. SessionTyped
  <2>1. /\ version \in Nat \ {0} /\ jar \in Nat /\ gadgets \in Nat /\ licensed \in Editions
        /\ isAuthenticated \in BOOLEAN /\ loading \in BOOLEAN /\ gate \in {"wizard", "routes"}
    <3>1. /\ version = 1 /\ jar = 0 /\ gadgets = 0 /\ licensed = "standard"
          /\ isAuthenticated = FALSE /\ loading = TRUE /\ gate \in {"wizard", "routes"}
      BY DEF SessionInit
    <3>2. version \in Nat \ {0} /\ jar \in Nat /\ gadgets \in Nat
      BY <3>1
    <3>3. isAuthenticated \in BOOLEAN /\ loading \in BOOLEAN
      BY <3>1
    <3> QED
      BY <3>1, <3>2, <3>3 DEF Editions
  <2> QED
    BY <1>1, <1>3, <1>4, <2>1 DEF SessionTyped
<1>6. Probing
  BY <1>1, <1>4 DEF SessionInit, Probing, Ops
<1>7. Cookies
  BY <1>1, <1>2, <1>4 DEF SessionInit, Cookies
<1>8. Edition
  BY <1>1, <1>2 DEF SessionInit, Edition
<1>9. Gadgets
  BY DEF SessionInit, Gadgets
<1> QED
  BY <1>5, <1>6, <1>7, <1>8, <1>9 DEF SessionInv

LEMMA SessionStep ==
    ASSUME SessionInv, [SessionNext]_session
    PROVE  SessionInv'
<1>1. CASE UNCHANGED session
  BY <1>1 DEF session, SessionInv, SessionTyped, Probing, Cookies, InOrder, Edition, Gadgets, Took
<1>2. CASE SessionNext
  <2>1. SessionTyped /\ Probing /\ (InOrder => Cookies)
    BY DEF SessionInv
  <2>2. SessionTyped' /\ Probing'
    BY <1>2, <2>1, TypedStep, ProbingStep
  <2>3. InOrder' => Cookies'
    BY <1>2, <2>1, CookiesStep
  <2>4. used'.lost = 0 /\ gate' = "routes" /\ "license" \notin history'.crossed => Edition'
    BY <1>2, <2>1, EditionStep DEF SessionInv
  <2>5. InOrder' /\ "gadgets" \notin history'.crossed => Gadgets'
    BY <1>2, <2>1, <2>3, GadgetsStep DEF SessionInv
  <2> QED
    BY <2>2, <2>3, <2>4, <2>5 DEF SessionInv
<1> QED
  BY <1>1, <1>2

LEMMA SessionInvHolds == SessionSpec => []SessionInv
  BY SessionInitInv, SessionStep, PTL DEF SessionSpec

\* However many logins, logouts, reloads and changes overtake each other: once
\* everything is answered the client believes it is signed in exactly when the
\* server takes its cookie (AuthContext, PublicRoute and ProtectedRoute).
THEOREM SessionsAgree == SessionSpec => []SessionAgrees
<1>1. SessionInv => SessionAgrees
  <2> SUFFICES ASSUME SessionInv, Settled, ~history.again, used.logins > 0
               PROVE  isAuthenticated <=> jar = version
    BY DEF SessionAgrees
  <2>1. \A op \in Ops : Out(wire, op) = {}
    BY DEF Settled, Silent, Out
  <2>2. Cookies /\ ~loading /\ isAuthenticated \in BOOLEAN
    BY <2>1 DEF SessionInv, SessionTyped, Probing, InOrder, Settled, Ops
  <2> QED
    BY <2>1, <2>2 DEF Cookies, Ops
<1> QED
  BY <1>1, SessionInvHolds, PTL

\* And the contexts show the server's edition and the server's gadgets
\* (LicenseContext, GadgetContext and whoever tells them of a change).
THEOREM CopiesAreCurrent == SessionSpec => []CopiesFollow
<1>1. SessionInv => CopiesFollow
  <2> SUFFICES ASSUME SessionInv, Settled PROVE CopiesFollow
    BY DEF CopiesFollow
  <2>1. \A op \in Ops : Out(wire, op) = {} /\ ~Took(op)
    BY DEF Settled, Silent, Out, Took
  <2>2. used.lost = 0
    BY DEF Settled
  <2>3. gate = "routes" /\ "license" \notin history.crossed /\ history.answered => tier = licensed
    BY <2>1, <2>2 DEF SessionInv, Edition, Ops
  <2>4. isAuthenticated /\ ~history.again /\ "gadgets" \notin history.crossed => installed = gadgets
    BY <2>1, <2>2 DEF SessionInv, InOrder, Gadgets, Ops
  <2> QED
    BY <2>3, <2>4 DEF CopiesFollow
<1> QED
  BY <1>1, SessionInvHolds, PTL
================================================================================
