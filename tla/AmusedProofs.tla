---------------------------- MODULE AmusedProofs ----------------------------
(***************************************************************************)
(* Safety of the daemon for every set of songs, queues of any length and   *)
(* pipes of any length.                                                    *)
(*                                                                         *)
(* The player comes first, on its own: it never reaches one of its fatal   *)
(* errors, whoever talks to it (PlayerGood: a track is enqueued exactly    *)
(* while the process is about to start it, and no order is read in that    *)
(* state).  The invariant of the daemon joins that, a well-formed queue    *)
(* (module PlaylistProofs) and a current song whenever the daemon is       *)
(* active and between two events.                                          *)
(* What monitors can rely on comes last: their events only observe the     *)
(* daemon (DaemonObserved), so that all of this holds of the observed one. *)
(***************************************************************************)
EXTENDS Monitor, PlayerAlone, PlaylistProofs

PlayerGood == PlayerTypeOK /\ PlayerInv

LEMMA PlayerInitGood == PlayerInit => PlayerGood
  BY DEF PlayerInit, PlayerGood, PlayerTypeOK, PlayerInv, NeverFatal, PlayerPlace

(* The head of the pipe is an order, and a PLAY carries a song.            *)
LEMMA HeadOrder ==
    ASSUME toPlayer \in Seq(OrderMsg), toPlayer # <<>>
    PROVE  /\ Tail(toPlayer) \in Seq(OrderMsg)
           /\ Head(toPlayer) \in OrderMsg
           /\ Head(toPlayer).type = "PLAY" => Head(toPlayer).song \in Song
  <1>1. Tail(toPlayer) \in Seq(OrderMsg) /\ Head(toPlayer) \in OrderMsg
    OBVIOUS
  <1>2. QED
    BY <1>1 DEF OrderMsg

(* What a call of player_dispatch() does in a place where it is made.      *)
LEMMA DispatchGood ==
    ASSUME PlayerGood, NEW place \in {"idle", "playing", "paused"}, pc = place,
           toPlayer # <<>>, toPlayer' = Tail(toPlayer), toMain' = toMain,
           nextfd' = FdAfter(Head(toPlayer)),
           pc' \in {"idle", "starting", "playing", "paused"},
           (nextfd' # None) <=> (pc' = "starting"),
           pc' \in {"playing", "paused"} => place # "idle",
           track' = IF pc' \in {"playing", "paused"} THEN track ELSE None
    PROVE  PlayerGood'
  <1>1. /\ toPlayer \in Seq(OrderMsg) /\ toMain \in Seq(Report)
        /\ nextfd \in Song \cup {None} /\ track \in Song \cup {None}
        /\ (track # None) <=> (pc \in {"playing", "paused"})
    BY DEF PlayerGood, PlayerTypeOK, PlayerInv
  <1>2. toPlayer' \in Seq(OrderMsg)
    BY <1>1, HeadOrder
  <1>3. nextfd' \in Song \cup {None}
    BY <1>1, HeadOrder DEF FdAfter
  <1>4. track' \in Song \cup {None} /\ pc' \in PlayerPlace
    BY <1>1 DEF PlayerPlace
  <1>5. (track' # None) <=> (pc' \in {"playing", "paused"})
    BY <1>1
  <1>6. PlayerTypeOK'
    BY <1>1, <1>2, <1>3, <1>4 DEF PlayerTypeOK
  <1>7. PlayerInv'
    BY <1>5 DEF PlayerInv, NeverFatal
  <1>8. QED
    BY <1>6, <1>7 DEF PlayerGood

(* Every step of the process preserves the invariant.                      *)
LEMMA PlayerStepGood ==
    ASSUME PlayerGood, PlayerNext
    PROVE  PlayerGood'
  <1> DEFINE m == Head(toPlayer)
  <1>1. /\ nextfd \in Song \cup {None} /\ track \in Song \cup {None}
        /\ toPlayer \in Seq(OrderMsg) /\ toMain \in Seq(Report)
        /\ (nextfd # None) <=> (pc = "starting")
        /\ (track # None) <=> (pc \in {"playing", "paused"})
    BY DEF PlayerGood, PlayerTypeOK, PlayerInv
  <1>2. pc # "starting" => ~AlreadyEnqueued(m)
    BY <1>1 DEF AlreadyEnqueued
  <1>3. pc # "starting" /\ toPlayer # <<>> => (FdAfter(m) # None => m.type = "PLAY")
    BY <1>1 DEF FdAfter
  <1>4. toPlayer # <<>> /\ m.type = "PLAY" => FdAfter(m) # None
    BY <1>1, HeadOrder, NoneIsNoSong DEF FdAfter
  <1>5. CASE DispatchIdle
    <2>1. /\ pc = "idle" /\ toPlayer # <<>> /\ toPlayer' = Tail(toPlayer)
          /\ toMain' = toMain /\ nextfd' = FdAfter(m) /\ pc' = BackToLoop(FdAfter(m))
          /\ track' = IF pc' \in {"playing", "paused"} THEN track ELSE None
      BY <1>2, <1>5 DEF DispatchIdle, Dispatch, AfterIdle
    <2>2. pc' \in {"idle", "starting"} /\ ((nextfd' # None) <=> (pc' = "starting"))
      BY <2>1 DEF BackToLoop
    <2>3. QED
      BY <2>1, <2>2, DispatchGood
  <1>6. CASE DispatchPlaying
    <2>1. /\ pc = "playing" /\ toPlayer # <<>> /\ toPlayer' = Tail(toPlayer)
          /\ toMain' = toMain /\ nextfd' = FdAfter(m) /\ pc' = AfterPlaying(m)
          /\ track' = IF pc' \in {"playing", "paused"} THEN track ELSE None
      BY <1>2, <1>6 DEF DispatchPlaying, Dispatch
    <2>2. CASE m.type = "PLAY"
      BY <2>1, <2>2, <1>4, DispatchGood DEF AfterPlaying, Returned, BackToLoop
    <2>3. CASE m.type # "PLAY"
      <3>1. nextfd' = None
        BY <2>1, <2>3, <1>1 DEF FdAfter
      <3>2. pc' \in {"idle", "playing", "paused"}
        BY <2>1, <2>3, <3>1 DEF AfterPlaying, Returned, BackToLoop
      <3>3. QED
        BY <2>1, <3>1, <3>2, DispatchGood
    <2>4. QED
      BY <2>2, <2>3
  <1>7. CASE DispatchPaused
    <2>1. /\ pc = "paused" /\ toPlayer # <<>> /\ toPlayer' = Tail(toPlayer)
          /\ toMain' = toMain /\ nextfd' = FdAfter(m) /\ pc' = AfterPaused(m)
          /\ track' = IF pc' \in {"playing", "paused"} THEN track ELSE None
      BY <1>2, <1>7 DEF DispatchPaused, Dispatch
    <2>2. CASE m.type = "PLAY"
      BY <2>1, <2>2, <1>4, DispatchGood DEF AfterPaused, Returned, BackToLoop
    <2>3. CASE m.type # "PLAY"
      <3>1. nextfd' = None
        BY <2>1, <2>3, <1>1 DEF FdAfter
      <3>2. pc' \in {"idle", "playing"}
        BY <2>1, <2>3, <3>1 DEF AfterPaused, Returned, BackToLoop
      <3>3. QED
        BY <2>1, <3>1, <3>2, DispatchGood
    <2>4. QED
      BY <2>2, <2>3
  <1>8. CASE PlayNext
    <2>1. nextfd # None /\ pc' = "playing" /\ track' = nextfd /\ nextfd' = None
          /\ toPlayer' = toPlayer /\ toMain' = toMain
      BY <1>1, <1>8 DEF PlayNext
    <2>2. QED
      BY <1>1, <2>1 DEF PlayerGood, PlayerTypeOK, PlayerInv, NeverFatal, PlayerPlace
  <1>9. ASSUME NEW t \in {"EOF", "ERR"}, Finish(t)
        PROVE  PlayerGood'
    <2>1. pc = "playing" /\ track \in Song
      BY <1>1, <1>9 DEF Finish
    <2>2. [type |-> t, song |-> track] \in Report
      BY <1>9, <2>1 DEF Report
    <2>3. toMain' \in Seq(Report)
      BY <1>1, <1>9, <2>2 DEF Finish
    <2>4. pc' = "idle" /\ track' = None /\ toPlayer' = toPlayer /\ nextfd' = nextfd
      BY <1>9 DEF Finish
    <2>5. QED
      BY <1>1, <2>1, <2>3, <2>4
      DEF PlayerGood, PlayerTypeOK, PlayerInv, NeverFatal, PlayerPlace
  <1>10. QED
    BY <1>5, <1>6, <1>7, <1>8, <1>9 DEF PlayerNext, EndOfTrack, DecodeError

(* Whatever its peer sends, the process never dies of "track already       *)
(* enqueued", nor of the assertion in player_playnext().                   *)
THEOREM PlayerNeverFatal == AloneSpec => [](PlayerTypeOK /\ NeverFatal)
  <1>1. PlayerGood /\ [AloneNext]_playerVars => PlayerGood'
    <2> SUFFICES ASSUME PlayerGood, [AloneNext]_playerVars PROVE PlayerGood'
      OBVIOUS
    <2>1. CASE PlayerNext
      BY <2>1, PlayerStepGood
    <2>2. CASE PeerSends
      <3>1. toPlayer' \in Seq(OrderMsg)
        BY <2>2 DEF PeerSends, PlayerGood, PlayerTypeOK
      <3>2. QED
        BY <2>2, <3>1 DEF PeerSends, PlayerGood, PlayerTypeOK, PlayerInv, NeverFatal
    <2>3. CASE PeerReads
      <3>1. toMain' \in Seq(Report)
        BY <2>3 DEF PeerReads, PlayerGood, PlayerTypeOK
      <3>2. QED
        BY <2>3, <3>1 DEF PeerReads, PlayerGood, PlayerTypeOK, PlayerInv, NeverFatal
    <2>4. CASE UNCHANGED playerVars
      BY <2>4 DEF playerVars, PlayerGood, PlayerTypeOK, PlayerInv, NeverFatal
    <2>5. QED
      BY <2>1, <2>2, <2>3, <2>4 DEF AloneNext
  <1>2. PlayerGood => PlayerTypeOK /\ NeverFatal
    BY DEF PlayerGood, PlayerInv
  <1>3. QED
    BY PlayerInitGood, <1>1, <1>2, PTL DEF AloneSpec

-----------------------------------------------------------------------------

MainTypeOK == /\ mode \in ModeType
              /\ at \in {"ready", "advance", "previous"}
              /\ tail \in {<<>>, <<Msg("SEEK")>>}
              /\ from \in Song \cup {None}
              /\ asked \in {"play", "pause", "stop"}

IInv == PlayerGood /\ MainTypeOK /\ WellFormed(pl) /\ ActiveHasSong

LEMMA IInvImplies == IInv => TypeOK /\ OffInRange /\ NeverFatal
  BY DEF IInv, PlayerGood, PlayerInv, MainTypeOK, WellFormed, TypeOK, OffInRange

LEMMA InitGood == Init => IInv
  <1> SUFFICES ASSUME Init PROVE IInv
    OBVIOUS
  <1>1. PlayerGood
    BY PlayerInitGood DEF Init
  <1>2. WellFormed(pl)
    BY DEF Init, InitPlaylist, WellFormed, PlaylistType, PlayState
  <1>3. MainTypeOK
    BY DEF Init, InitMode, ModeType, MainTypeOK
  <1>4. ActiveHasSong
    BY DEF Init, InitPlaylist, ActiveHasSong
  <1>5. QED
    BY <1>1, <1>2, <1>3, <1>4 DEF IInv

-----------------------------------------------------------------------------
(* What the main process does to the pipes keeps the player's invariant.   *)
LEMMA OrderMsgs ==
    /\ \A t \in Order \ {"PLAY"} : <<Msg(t)>> \in Seq(OrderMsg)
    /\ \A s \in Song : <<PlayMsg(s)>> \in Seq(OrderMsg)
    /\ \A s \in Song : <<Msg("STOP"), PlayMsg(s)>> \in Seq(OrderMsg)
    /\ <<>> \in Seq(OrderMsg)
  <1>1. \A t \in Order \ {"PLAY"} : Msg(t) \in OrderMsg
    BY DEF Msg, OrderMsg
  <1>2. \A s \in Song : PlayMsg(s) \in OrderMsg
    BY DEF PlayMsg, OrderMsg
  <1>3. Msg("STOP") \in OrderMsg
    BY <1>1 DEF Order
  <1>4. QED
    BY <1>1, <1>2, <1>3

LEMMA PipesGood ==
    ASSUME PlayerGood, toPlayer' \in Seq(OrderMsg), toMain' \in Seq(Report),
           UNCHANGED <<pc, nextfd, track>>
    PROVE  PlayerGood'
  BY DEF PlayerGood, PlayerTypeOK, PlayerInv, NeverFatal

LEMMA SendGood ==
    ASSUME PlayerGood, NEW ms \in Seq(OrderMsg), Send(ms)
    PROVE  toPlayer' \in Seq(OrderMsg)
  <1>1. toPlayer \in Seq(OrderMsg)
    BY DEF PlayerGood, PlayerTypeOK
  <1>2. QED
    BY <1>1, ConcatProperties DEF Send

LEMMA TailGood ==
    ASSUME MainTypeOK, NEW ms \in Seq(OrderMsg)
    PROVE  tail \in Seq(OrderMsg) /\ ms \o tail \in Seq(OrderMsg)
  <1>1. tail \in Seq(OrderMsg)
    BY OrderMsgs DEF MainTypeOK, Order
  <1>2. QED
    BY <1>1, ConcatProperties

(* The song main_play_song() opens, and the queue it leaves.               *)
LEMMA PlaySongGood ==
    ASSUME NEW q, WellFormed(q), PlaySong(q)
    PROVE  q.cur \in Song /\ WellFormed(pl') /\ pl'.cur = q.cur /\ pl'.off = q.off
           /\ pl'.songs = q.songs /\ pl'.state = "playing"
  <1>1. q.cur \in Song /\ pl' = [q EXCEPT !.state = "playing"]
    BY OpenAssumption DEF PlaySong, MayOpen
  <1>2. q \in PlaylistType /\ "playing" \in PlayState
    BY DEF WellFormed, PlayState
  <1>3. pl' \in PlaylistType
    BY <1>1, <1>2, UpdateType
  <1>4. pl'.cur = q.cur /\ pl'.off = q.off /\ pl'.songs = q.songs /\ pl'.state = "playing"
    BY <1>1, <1>2 DEF PlaylistType
  <1>5. QED
    BY <1>1, <1>3, <1>4 DEF WellFormed, Offsets

-----------------------------------------------------------------------------
(* The loops of the main process.                                          *)
LEMMA LoopGood ==
    ASSUME IInv, MainLoop
    PROVE  IInv'
  <1>1. /\ PlayerGood /\ MainTypeOK /\ WellFormed(pl) /\ mode.repeatAll \in BOOLEAN
        /\ toMain \in Seq(Report)
    BY DEF IInv, MainTypeOK, ModeType, PlayerGood, PlayerTypeOK
  <1>2. PICK q : /\ Stepped(q)
                 /\ \/ q.state = "stopped" /\ pl' = q /\ Done(<<>>)
                    \/ q.state # "stopped" /\ PlaySong(q) /\ Done(<<PlayMsg(q.cur)>>)
                    \/ /\ q.state # "stopped" /\ SkipSong(q)
                       /\ UNCHANGED <<toPlayer, at, tail, from>>
                 /\ UNCHANGED <<mode, asked, toMain, pc, nextfd, track>>
                 /\ at # "ready"
    <2>1. CASE AdvanceStep
      BY <2>1, <1>1, AdvanceStepped DEF AdvanceStep, LoopStep
    <2>2. CASE PreviousStep
      BY <2>2, <1>1, PreviousStepped DEF PreviousStep, LoopStep
    <2>3. QED
      BY <2>1, <2>2 DEF MainLoop
  <1>3. WellFormed(q)
    BY <1>2 DEF Stepped
  <1>4. CASE pl' = q /\ q.state = "stopped" /\ Done(<<>>)
    <2>1. toPlayer' \in Seq(OrderMsg)
      BY <1>1, <1>4, OrderMsgs, TailGood, SendGood DEF Done
    <2>2. PlayerGood'
      BY <1>1, <1>2, <2>1, PipesGood
    <2>3. MainTypeOK'
      BY <1>1, <1>2, <1>4 DEF Done, MainTypeOK
    <2>4. QED
      BY <1>3, <1>4, <2>2, <2>3 DEF IInv, ActiveHasSong
  <1>5. CASE PlaySong(q) /\ Done(<<PlayMsg(q.cur)>>)
    <2>1. q.cur \in Song /\ WellFormed(pl') /\ pl'.cur = q.cur
      BY <1>3, <1>5, PlaySongGood
    <2>2. toPlayer' \in Seq(OrderMsg)
      BY <1>1, <1>5, <2>1, OrderMsgs, TailGood, SendGood DEF Done
    <2>3. PlayerGood'
      BY <1>1, <1>2, <2>2, PipesGood
    <2>4. MainTypeOK'
      BY <1>1, <1>2, <1>5 DEF Done, MainTypeOK
    <2>5. QED
      BY <2>1, <2>3, <2>4, NoneIsNoSong DEF IInv, ActiveHasSong
  <1>6. CASE SkipSong(q) /\ UNCHANGED <<toPlayer, at, tail, from>>
    <2>1. WellFormed(pl')
      BY <1>3, <1>6, DropWellFormed DEF SkipSong
    <2>2. PlayerGood'
      BY <1>1, <1>2, <1>6, PipesGood DEF PlayerGood, PlayerTypeOK
    <2>3. MainTypeOK'
      BY <1>1, <1>2, <1>6 DEF MainTypeOK
    <2>4. QED
      BY <1>2, <1>6, <2>1, <2>2, <2>3 DEF IInv, ActiveHasSong
  <1>7. QED
    BY <1>2, <1>4, <1>5, <1>6

-----------------------------------------------------------------------------
(* The pieces the commands are made of.                                    *)
MainKept == /\ WellFormed(pl') /\ ActiveHasSong'
            /\ toPlayer' \in Seq(OrderMsg)
            /\ at' \in {"ready", "advance", "previous"}
            /\ tail' \in {<<>>, <<Msg("SEEK")>>}
            /\ from' \in Song \cup {None}

LEMMA ResumeKept ==
    ASSUME IInv, at = "ready", NEW ms \in {<<>>, <<Msg("SEEK")>>}, Resume(ms)
    PROVE  MainKept
  <1>1. /\ PlayerGood /\ MainTypeOK /\ WellFormed(pl) /\ toPlayer \in Seq(OrderMsg)
    BY DEF IInv, PlayerGood, PlayerTypeOK
  <1>2. CASE PlaySong(pl) /\ Send(<<PlayMsg(pl.cur)>> \o ms) /\ UNCHANGED <<at, tail, from>>
    <2>1. pl.cur \in Song /\ WellFormed(pl') /\ pl'.cur = pl.cur
      BY <1>1, <1>2, PlaySongGood
    <2>2. <<PlayMsg(pl.cur)>> \in Seq(OrderMsg) /\ ms \in Seq(OrderMsg)
      BY <2>1, OrderMsgs DEF Order
    <2>3. <<PlayMsg(pl.cur)>> \o ms \in Seq(OrderMsg)
      BY <2>2, ConcatProperties
    <2>4. toPlayer' \in Seq(OrderMsg)
      BY <1>1, <1>2, <2>3, SendGood
    <2>5. QED
      BY <1>1, <1>2, <2>1, <2>4, NoneIsNoSong DEF MainKept, MainTypeOK, ActiveHasSong
  <1>3. CASE SkipSong(pl) /\ at' = "advance" /\ tail' = ms /\ UNCHANGED <<toPlayer, from>>
    <2>1. WellFormed(pl')
      BY <1>1, <1>3, DropWellFormed DEF SkipSong
    <2>2. QED
      BY <1>1, <1>3, <2>1 DEF MainKept, MainTypeOK, ActiveHasSong
  <1>4. CASE at' = "advance" /\ tail' = ms /\ UNCHANGED <<toPlayer, pl, from>>
    BY <1>1, <1>4 DEF MainKept, MainTypeOK, ActiveHasSong
  <1>5. QED
    BY <1>2, <1>3, <1>4 DEF Resume

LEMMA SwitchKept ==
    ASSUME IInv, at = "ready", NEW old \in PlayState, NEW new \in PlayState,
           NEW order \in Order \ {"PLAY"}, Switch(old, new, order),
           old = "stopped" => new = "stopped"
    PROVE  MainKept
  <1>1. /\ PlayerGood /\ MainTypeOK /\ pl \in PlaylistType /\ WellFormed(pl)
    BY DEF IInv, WellFormed
  <1>2. /\ pl' = [pl EXCEPT !.state = new] /\ pl.state = old
        /\ UNCHANGED <<at, tail, from>> /\ Send(<<Msg(order)>>)
    BY DEF Switch
  <1>3. pl' \in PlaylistType
    BY <1>1, <1>2, UpdateType
  <1>4. pl'.songs = pl.songs /\ pl'.off = pl.off /\ pl'.cur = pl.cur /\ pl'.state = new
    BY <1>1, <1>2 DEF PlaylistType
  <1>5. WellFormed(pl')
    BY <1>1, <1>3, <1>4 DEF WellFormed, Offsets
  <1>6. ActiveHasSong'
    BY <1>2, <1>4 DEF IInv, ActiveHasSong
  <1>7. toPlayer' \in Seq(OrderMsg)
    BY <1>1, <1>2, OrderMsgs, SendGood
  <1>8. QED
    BY <1>1, <1>2, <1>5, <1>6, <1>7 DEF MainKept, MainTypeOK

LEMMA SkipKept ==
    ASSUME IInv, NEW loop \in {"advance", "previous"}, Skip(loop)
    PROVE  MainKept
  <1>1. PlayerGood /\ MainTypeOK /\ WellFormed(pl)
    BY DEF IInv
  <1>2. toPlayer' \in Seq(OrderMsg)
    BY <1>1, OrderMsgs, SendGood DEF Skip, Order
  <1>3. pl.off # -1 => SongAt(pl, pl.off) \in Song
    BY <1>1 DEF WellFormed, SongAt, Offsets, PlaylistType
  <1>4. pl' = pl /\ at' = loop /\ tail' = tail /\ from' \in Song \cup {None}
    BY <1>3 DEF Skip
  <1>5. QED
    BY <1>1, <1>2, <1>4 DEF MainKept, MainTypeOK, ActiveHasSong

LEMMA JumpKept ==
    ASSUME IInv, NEW S, CtlJump(S)
    PROVE  MainKept
  <1>1. PlayerGood /\ MainTypeOK /\ WellFormed(pl) /\ pl \in PlaylistType
    BY DEF IInv, WellFormed
  <1>2. PICK i \in FirstIn(pl.songs, S) :
           LET q == PlayAt(pl, i) IN
           \/ PlaySong(q) /\ Send(<<Msg("STOP"), PlayMsg(q.cur)>>) /\ UNCHANGED at
           \/ SkipSong(q) /\ Send(<<Msg("STOP")>>) /\ at' = "advance"
    BY DEF CtlJump
  <1> DEFINE q == PlayAt(pl, i)
  <1>3. i \in Offsets(pl)
    BY <1>2 DEF FirstIn, Offsets
  <1>4. WellFormed(q) /\ q.cur \in Song
    BY <1>1, <1>3, PlayAtWellFormed
  <1>5. tail' = tail /\ from' = from
    BY DEF CtlJump
  <1> HIDE DEF q
  <1>6. CASE PlaySong(q) /\ Send(<<Msg("STOP"), PlayMsg(q.cur)>>) /\ UNCHANGED at
    <2>1. WellFormed(pl') /\ pl'.cur = q.cur
      BY <1>4, <1>6, PlaySongGood
    <2>2. toPlayer' \in Seq(OrderMsg)
      BY <1>1, <1>4, <1>6, OrderMsgs, SendGood
    <2>3. QED
      BY <1>1, <1>4, <1>5, <1>6, <2>1, <2>2, NoneIsNoSong
      DEF MainKept, MainTypeOK, ActiveHasSong
  <1>7. CASE SkipSong(q) /\ Send(<<Msg("STOP")>>) /\ at' = "advance"
    <2>1. WellFormed(pl')
      BY <1>4, <1>7, DropWellFormed DEF SkipSong
    <2>2. toPlayer' \in Seq(OrderMsg)
      BY <1>1, <1>7, OrderMsgs, SendGood DEF Order
    <2>3. QED
      BY <1>1, <1>5, <1>7, <2>1, <2>2 DEF MainKept, MainTypeOK, ActiveHasSong
  <1>8. QED
    BY <1>2, <1>6, <1>7 DEF q

(* Every command that edits the queue gives an edited queue.               *)
LEMMA EditEdited ==
    ASSUME WellFormed(pl), EditQueue
    PROVE  /\ Edited(pl, pl')
           /\ Positions \subseteq {-1} /\ Matched(pl) => Matched(pl')
  <1>1. CASE CtlFlush
    BY <1>1, TruncateEdited DEF CtlFlush
  <1>2. ASSUME NEW s \in Song, CtlAdd(s)
        PROVE  Edited(pl, pl') /\ (Matched(pl) => Matched(pl'))
    BY <1>2, EnqueueEdited DEF CtlAdd
  <1>3. ASSUME NEW all \in BOOLEAN, CtlShuffle(all)
        PROVE  Edited(pl, pl') /\ (Matched(pl) => Matched(pl'))
    BY <1>3, ShuffleEdited DEF CtlShuffle
  <1>4. ASSUME NEW new \in Loads, NEW off \in Positions, CtlCommit(new, off)
        PROVE  Edited(pl, pl') /\ (off = -1 => Matched(pl'))
    <2>1. new \in Seq(Song) /\ off \in Int
      BY LoadsAssumption
    <2>2. PICK i \in SwapOffset(pl, new, off) : pl' = Swap(pl, new, i)
      BY <1>4 DEF CtlCommit
    <2>3. QED
      BY <2>1, <2>2, SwapEdited
  <1>5. QED
    BY <1>1, <1>2, <1>3, <1>4 DEF EditQueue

LEMMA EditKept ==
    ASSUME IInv, EditQueue
    PROVE  MainKept
  <1>1. PlayerGood /\ MainTypeOK /\ WellFormed(pl) /\ toPlayer \in Seq(OrderMsg)
    BY DEF IInv, PlayerGood, PlayerTypeOK
  <1>2. Edited(pl, pl')
    BY <1>1, EditEdited
  <1>3. at' = at /\ tail' = tail /\ from' = from /\ toPlayer' = toPlayer
    BY DEF EditQueue, CtlFlush, CtlAdd, CtlShuffle, CtlCommit, Edit
  <1>4. ActiveHasSong'
    BY <1>2, <1>3 DEF IInv, ActiveHasSong, Edited
  <1>5. QED
    BY <1>1, <1>2, <1>3, <1>4 DEF MainKept, MainTypeOK, Edited

LEMMA ModeKept ==
    ASSUME IInv, CtlMode
    PROVE  MainKept
  <1>1. PlayerGood /\ MainTypeOK /\ WellFormed(pl) /\ toPlayer \in Seq(OrderMsg)
    BY DEF IInv, PlayerGood, PlayerTypeOK
  <1>2. UNCHANGED <<pl, at, tail, from, toPlayer>>
    BY DEF CtlMode
  <1>3. QED
    BY <1>1, <1>2 DEF IInv, MainKept, MainTypeOK, ActiveHasSong

(* Every command preserves the invariant.                                  *)
LEMMA ClientGood ==
    ASSUME IInv, Client
    PROVE  IInv'
  <1>1. /\ PlayerGood /\ MainTypeOK /\ toMain \in Seq(Report)
    BY DEF IInv, PlayerGood, PlayerTypeOK
  <1>2. UNCHANGED <<toMain, pc, nextfd, track>> /\ at = "ready"
    BY DEF Client, Command, CtlPlay, CtlToggle, CtlPause, CtlStop, CtlNext, CtlPrev,
           Skip, CtlJump, CtlSeek, CtlMode, EditQueue, CtlFlush, CtlAdd, CtlShuffle,
           CtlCommit, Edit
  <1>3. mode' \in ModeType /\ asked' \in {"play", "pause", "stop"}
    BY <1>1, ModesAssumption
    DEF Client, Asks, CtlPlay, CtlToggle, CtlPause, CtlStop, CtlNext, CtlPrev,
        Skip, CtlJump, CtlSeek, CtlMode, EditQueue, CtlFlush, CtlAdd, CtlShuffle,
        CtlCommit, Edit, MainTypeOK
  <1>4. MainKept
    <2>1. /\ "STOP" \in Order \ {"PLAY"} /\ "PAUSE" \in Order \ {"PLAY"}
          /\ "RESUME" \in Order \ {"PLAY"} /\ "SEEK" \in Order \ {"PLAY"}
          /\ "stopped" \in PlayState /\ "playing" \in PlayState /\ "paused" \in PlayState
      BY DEF Order, PlayState
    <2>2. CASE CtlPlay
      <3>1. CASE UNCHANGED <<pl, at, tail, from, toPlayer>>
        BY <1>1, <3>1 DEF IInv, MainKept, MainTypeOK, ActiveHasSong, PlayerGood, PlayerTypeOK
      <3>2. QED
        BY <1>2, <2>1, <2>2, <3>1, ResumeKept, SwitchKept DEF CtlPlay
    <2>3. CASE CtlToggle
      BY <1>2, <2>1, <2>3, ResumeKept, SwitchKept DEF CtlToggle
    <2>4. CASE CtlPause
      BY <1>2, <2>1, <2>4, SwitchKept DEF CtlPause
    <2>5. CASE CtlStop
      <3>1. CASE UNCHANGED <<pl, at, tail, from, toPlayer>>
        BY <1>1, <3>1 DEF IInv, MainKept, MainTypeOK, ActiveHasSong, PlayerGood, PlayerTypeOK
      <3>2. QED
        BY <1>2, <2>1, <2>5, <3>1, SwitchKept DEF CtlStop
    <2>6. CASE CtlNext \/ CtlPrev
      BY <2>6, SkipKept DEF CtlNext, CtlPrev
    <2>7. CASE \E s \in Song : CtlJump({s})
      BY <2>7, JumpKept
    <2>8. CASE CtlSeek
      BY <1>2, <2>1, <2>8, ResumeKept, SwitchKept DEF CtlSeek
    <2>9. CASE CtlMode
      BY <2>9, ModeKept
    <2>10. CASE EditQueue
      BY <2>10, EditKept
    <2>11. QED
      BY <2>2, <2>3, <2>4, <2>5, <2>6, <2>7, <2>8, <2>9, <2>10 DEF Client
  <1>5. PlayerGood'
    BY <1>1, <1>2, <1>4, PipesGood DEF MainKept
  <1>6. MainTypeOK'
    BY <1>3, <1>4 DEF MainKept, MainTypeOK
  <1>7. QED
    BY <1>4, <1>5, <1>6 DEF IInv, MainKept

(* So does every message of the player.                                    *)
LEMMA HandleGood ==
    ASSUME IInv, HandlePlayer
    PROVE  IInv'
  <1>1. /\ PlayerGood /\ MainTypeOK /\ WellFormed(pl)
        /\ toMain \in Seq(Report) /\ toPlayer \in Seq(OrderMsg)
    BY DEF IInv, PlayerGood, PlayerTypeOK
  <1>2. /\ toMain # <<>> /\ toMain' = Tail(toMain) /\ at = "ready"
        /\ UNCHANGED <<mode, tail, from, asked, pc, nextfd, track>>
    BY DEF HandlePlayer, HandleEof, HandleErr, Receive
  <1>3. toMain' \in Seq(Report)
    BY <1>1, <1>2
  <1>4. CASE at' = "advance" /\ UNCHANGED toPlayer /\ pl' \in {pl, DropCurrent(pl)}
    <2>1. WellFormed(pl')
      BY <1>1, <1>4, DropWellFormed
    <2>2. PlayerGood'
      BY <1>1, <1>2, <1>3, <1>4, PipesGood
    <2>3. MainTypeOK'
      BY <1>1, <1>2, <1>4 DEF MainTypeOK
    <2>4. QED
      BY <1>4, <2>1, <2>2, <2>3 DEF IInv, ActiveHasSong
  <1>5. CASE PlaySong(pl) /\ Send(<<PlayMsg(pl.cur)>>) /\ UNCHANGED at
    <2>1. pl.cur \in Song /\ WellFormed(pl') /\ pl'.cur = pl.cur
      BY <1>1, <1>5, PlaySongGood
    <2>2. toPlayer' \in Seq(OrderMsg)
      BY <1>1, <1>5, <2>1, OrderMsgs, SendGood
    <2>3. PlayerGood'
      BY <1>1, <1>2, <1>3, <2>2, PipesGood
    <2>4. MainTypeOK'
      BY <1>1, <1>2, <1>5 DEF MainTypeOK
    <2>5. QED
      BY <2>1, <2>3, <2>4, NoneIsNoSong DEF IInv, ActiveHasSong
  <1>6. CASE HandleErr
    BY <1>4, <1>6 DEF HandleErr
  <1>7. CASE HandleEof
    <2>1. \/ PlaySong(pl) /\ Send(<<PlayMsg(pl.cur)>>) /\ UNCHANGED at
          \/ at' = "advance" /\ UNCHANGED toPlayer /\ pl' \in {pl, DropCurrent(pl)}
      BY <1>7 DEF HandleEof, SkipSong
    <2>2. QED
      BY <2>1, <1>4, <1>5
  <1>8. QED
    BY <1>6, <1>7 DEF HandlePlayer

LEMMA PlayerStepKept ==
    ASSUME IInv, PlayerStep
    PROVE  IInv'
  <1>1. PlayerGood'
    BY PlayerStepGood DEF IInv, PlayerStep
  <1>2. UNCHANGED mainVars
    BY DEF PlayerStep
  <1>3. QED
    BY <1>1, <1>2 DEF IInv, mainVars, MainTypeOK, WellFormed, Offsets, ActiveHasSong

-----------------------------------------------------------------------------
LEMMA Inductive == IInv /\ [Next]_vars => IInv'
  <1> SUFFICES ASSUME IInv, [Next]_vars PROVE IInv'
    OBVIOUS
  <1>1. CASE MainLoop
    BY <1>1, LoopGood
  <1>2. CASE Client
    BY <1>2, ClientGood
  <1>3. CASE HandlePlayer
    BY <1>3, HandleGood
  <1>4. CASE PlayerStep
    BY <1>4, PlayerStepKept
  <1>5. CASE UNCHANGED vars
    BY <1>5 DEF vars, mainVars, playerVars, IInv, PlayerGood, PlayerTypeOK, PlayerInv,
                NeverFatal, MainTypeOK, WellFormed, Offsets, ActiveHasSong
  <1>6. QED
    BY <1>1, <1>2, <1>3, <1>4, <1>5 DEF Next

LEMMA Invariance == Spec => []IInv
  BY InitGood, Inductive, PTL DEF Spec

(* The queue offset never leaves the queue, whatever clients and player do *)
(* and in whatever order: playlist.c indexes songs[] with it unchecked.    *)
THEOREM OffsetStaysInRange == Spec => [](TypeOK /\ OffInRange)
  BY Invariance, IInvImplies, PTL

(* playlist_shuffle() can produce exactly the cyclic permutations of the   *)
(* songs that are not pinned, each with the current song where the queue's *)
(* offset is: of several it leaves none where it was, and the draws reach  *)
(* every such order.  The closed form of module Playlist, which SHUFFLE is *)
(* here, is thus what the loop does to any queue the daemon may have.      *)
THEOREM LoopIsTheShuffle == Spec => []LoopMatches
  <1>1. ASSUME IInv PROVE LoopMatches
    <2>1. pl \in PlaylistType /\ pl.off \in Offsets(pl) \cup {-1}
      BY <1>1 DEF IInv, WellFormed
    <2>2. pl.songs \in Seq(ToSet(pl.songs))
      BY <2>1, SeqDef DEF PlaylistType, ToSet
    <2>3. pl.off \in -1 .. Len(pl.songs) - 1
      BY <2>1, LenProperties DEF PlaylistType, Offsets
    <2>4. pl = [songs |-> pl.songs, off |-> pl.off, cur |-> pl.cur, state |-> pl.state]
      BY <2>1 DEF PlaylistType
    <2>5. IsQueue(pl)
      BY <2>2, <2>3, <2>4 DEF IsQueue
    <2>6. QED
      BY <2>5, ProducedAreShuffles DEF LoopMatches
  <1>2. QED
    BY Invariance, <1>1, PTL

(* A daemon that plays or is paused has a current song.                    *)
THEOREM ActiveDaemonHasSong == Spec => []ActiveHasSong
  <1>1. IInv => ActiveHasSong
    BY DEF IInv
  <1>2. QED
    BY Invariance, <1>1, PTL

(* The player of the composed system never reaches a fatal error.          *)
THEOREM DaemonNeverKillsPlayer == Spec => []NeverFatal
  BY Invariance, IInvImplies, PTL

-----------------------------------------------------------------------------
(* As long as no load asks for a position of its own, the queue position   *)
(* is always that of the current song, so that what is shown as current,   *)
(* dropped after an error or removed once played is the song being played. *)
LEMMA PositionInductive ==
    ASSUME Positions \subseteq {-1}, IInv, PositionIsCurrent, [Next]_vars
    PROVE  PositionIsCurrent'
  <1>1. PlayerGood /\ MainTypeOK /\ WellFormed(pl) /\ (at = "ready" => Matched(pl))
    BY DEF IInv, PositionIsCurrent, Matched
  <1>2. ASSUME at' = "ready" => Matched(pl') PROVE PositionIsCurrent'
    BY <1>2 DEF PositionIsCurrent, Matched, SongAt
  <1>3. ASSUME NEW q, WellFormed(q), Matched(q), PlaySong(q) PROVE Matched(pl')
    <2>1. pl'.cur = q.cur /\ pl'.off = q.off /\ pl'.songs = q.songs
      BY <1>3, PlaySongGood
    <2>2. QED
      BY <1>3, <2>1 DEF Matched, SongAt
  <1>4. CASE MainLoop
    <2>1. PICK q : /\ Stepped(q)
                   /\ \/ pl' = q
                      \/ PlaySong(q)
                      \/ at # "ready" /\ at' = at
      <3>1. mode.repeatAll \in BOOLEAN
        BY <1>1 DEF MainTypeOK, ModeType
      <3>2. CASE AdvanceStep
        BY <1>1, <3>1, <3>2, AdvanceStepped DEF AdvanceStep, LoopStep
      <3>3. CASE PreviousStep
        BY <1>1, <3>1, <3>3, PreviousStepped DEF PreviousStep, LoopStep
      <3>4. QED
        BY <1>4, <3>2, <3>3 DEF MainLoop
    <2>2. WellFormed(q) /\ Matched(q)
      BY <2>1 DEF Stepped
    <2>3. at' = "ready" => Matched(pl')
      BY <2>1, <2>2, <1>3
    <2>4. QED
      BY <2>3, <1>2
  <1>5. ASSUME NEW old, NEW new, NEW order, Switch(old, new, order), at = "ready"
        PROVE  Matched(pl')
    <2>1. pl'.cur = pl.cur /\ pl'.off = pl.off /\ pl'.songs = pl.songs
      BY <1>1, <1>5 DEF Switch, WellFormed, PlaylistType
    <2>2. QED
      BY <1>1, <1>5, <2>1 DEF Matched, SongAt
  <1>6. ASSUME NEW ms, Resume(ms), at = "ready"
        PROVE  at' = "ready" => Matched(pl')
    BY <1>1, <1>3, <1>6 DEF Resume
  <1>7. CASE CtlPlay \/ CtlToggle \/ CtlPause \/ CtlStop \/ CtlSeek
    <2>1. at = "ready"
      BY <1>7 DEF CtlPlay, CtlToggle, CtlPause, CtlStop, CtlSeek, Command
    <2>2. CASE UNCHANGED <<pl, at, tail, from, toPlayer>>
      BY <2>2 DEF PositionIsCurrent, SongAt
    <2>3. QED
      BY <2>1, <2>2, <1>2, <1>5, <1>6, <1>7
      DEF CtlPlay, CtlToggle, CtlPause, CtlStop, CtlSeek
  <1>8. CASE CtlNext \/ CtlPrev
    BY <1>2, <1>8 DEF CtlNext, CtlPrev, Skip
  <1>9. ASSUME NEW S, CtlJump(S) PROVE PositionIsCurrent'
    <2>1. PICK i \in FirstIn(pl.songs, S) : PlaySong(PlayAt(pl, i)) \/ at' = "advance"
      BY <1>9 DEF CtlJump
    <2>2. WellFormed(PlayAt(pl, i)) /\ Matched(PlayAt(pl, i))
      BY <1>1, <2>1, PlayAtWellFormed DEF FirstIn, Offsets, WellFormed
    <2>3. QED
      BY <2>1, <2>2, <1>2, <1>3
  <1>10. CASE CtlMode
    BY <1>10 DEF CtlMode, PositionIsCurrent, SongAt
  <1>11. CASE EditQueue
    <2>1. at = "ready"
      BY <1>11 DEF EditQueue, CtlFlush, CtlAdd, CtlShuffle, CtlCommit, Edit, Command
    <2>2. QED
      BY <2>1, <1>1, <1>2, <1>11, EditEdited
  <1>12. CASE HandlePlayer
    <2>1. PlaySong(pl) \/ at' = "advance"
      BY <1>12 DEF HandlePlayer, HandleEof, HandleErr
    <2>2. at = "ready"
      BY <1>12 DEF HandlePlayer, HandleEof, HandleErr, Receive
    <2>3. QED
      BY <2>1, <2>2, <1>1, <1>2, <1>3
  <1>13. CASE PlayerStep \/ UNCHANGED vars
    BY <1>13 DEF PlayerStep, vars, mainVars, PositionIsCurrent, SongAt
  <1>14. QED
    BY <1>4, <1>7, <1>8, <1>9, <1>10, <1>11, <1>12, <1>13 DEF Next, Client

(* The queue position is that of the current song, if no load asks for an  *)
(* explicit position (`show -p` and playlist_dropcurrent() rely on it).    *)
THEOREM PositionFollowsCurrent ==
    ASSUME Positions \subseteq {-1}
    PROVE  Spec => []PositionIsCurrent
  <1>1. Init => PositionIsCurrent
    BY DEF Init, InitPlaylist, PositionIsCurrent
  <1>2. IInv /\ PositionIsCurrent /\ [Next]_vars => PositionIsCurrent'
    BY PositionInductive
  <1>3. QED
    BY <1>1, <1>2, Invariance, PTL DEF Spec

-----------------------------------------------------------------------------
(* Daemon and player agree once the pipes are empty.  What is known before *)
(* that is where the orders in the pipe will lead: p is the order that     *)
(* starts the current song, 0 if the player has taken it up already; the   *)
(* orders behind it only pause and go on, and the last one, if any, leaves *)
(* the player in the state the daemon is in.  A PAUSE never follows a      *)
(* PAUSE, which would end the track.  Nothing is known while a report is   *)
(* on its way: the daemon will answer it by starting a song, or stop.      *)
Within == {"PAUSE", "RESUME", "SEEK"}

TakenUp(p) ==
    IF p = 0 THEN \/ pc = "starting" /\ nextfd = pl.cur
                  \/ pc \in {"playing", "paused"} /\ track = pl.cur
    ELSE toPlayer[p] = PlayMsg(pl.cur)

(* The player will be paused once it has obeyed the k-th order.            *)
PausedAt(k, p) == IF k = p THEN p = 0 /\ pc = "paused" ELSE toPlayer[k].type = "PAUSE"

LeadsHere(p) ==
    /\ TakenUp(p)
    /\ \A k \in p + 1 .. Len(toPlayer) :
          toPlayer[k].type \in Within /\ ~(PausedAt(k - 1, p) /\ PausedAt(k, p))
    /\ (pl.state = "paused") <=> PausedAt(Len(toPlayer), p)

Obeyed == at = "ready" /\ toMain = <<>> /\ pl.state # "stopped" =>
             \E p \in 0 .. Len(toPlayer) : LeadsHere(p)

LEMMA ObeyedAgrees == IInv /\ Obeyed => Agreement
  <1> SUFFICES ASSUME IInv, Obeyed, Quiet, pl.state \in {"playing", "paused"}
               PROVE  pc = pl.state /\ track = pl.cur
    BY DEF Agreement
  <1>1. PICK p \in 0 .. Len(toPlayer) : LeadsHere(p)
    BY DEF Quiet, Obeyed
  <1>2. p = 0 /\ Len(toPlayer) = 0
    BY <1>1 DEF Quiet
  <1>3. QED
    BY <1>1, <1>2 DEF LeadsHere, TakenUp, PausedAt, Quiet

(* A PLAY that was just sent, with or without a SEEK behind it.            *)
LEMMA PlaySent ==
    ASSUME toPlayer \in Seq(OrderMsg), NEW s \in Song, NEW t \in {<<>>, <<Msg("SEEK")>>},
           pl'.cur = s, pl'.state = "playing",
           \/ toPlayer' = toPlayer \o (<<PlayMsg(s)>> \o t)
           \/ t = <<>> /\ toPlayer' = toPlayer \o <<Msg("STOP"), PlayMsg(s)>>
    PROVE  Obeyed'
  <1> DEFINE n == Len(toPlayer)
  <1>1. n \in Nat
    OBVIOUS
  <1>2. PICK p \in 1 .. Len(toPlayer') :
           /\ toPlayer'[p] = PlayMsg(s)
           /\ \A k \in p + 1 .. Len(toPlayer') : toPlayer'[k] = Msg("SEEK")
           /\ Len(toPlayer') \in Nat
    <2>1. CASE t = <<>> /\ toPlayer' = toPlayer \o <<Msg("STOP"), PlayMsg(s)>>
      <3>1. Len(toPlayer') = n + 2 /\ toPlayer'[n + 2] = PlayMsg(s)
        BY <1>1, <2>1
      <3>2. QED
        BY <1>1, <3>1
    <2>2. CASE t = <<>> /\ toPlayer' = toPlayer \o (<<PlayMsg(s)>> \o t)
      <3>1. Len(toPlayer') = n + 1 /\ toPlayer'[n + 1] = PlayMsg(s)
        BY <1>1, <2>2
      <3>2. QED
        BY <1>1, <3>1
    <2>3. CASE t = <<Msg("SEEK")>> /\ toPlayer' = toPlayer \o (<<PlayMsg(s)>> \o t)
      <3>1. Len(toPlayer') = n + 2 /\ toPlayer'[n + 1] = PlayMsg(s)
            /\ toPlayer'[n + 2] = Msg("SEEK")
        BY <1>1, <2>3
      <3>2. QED
        BY <1>1, <3>1
    <2>4. QED
      BY <2>1, <2>2, <2>3
  <1>3. LeadsHere(p)'
    <2>1. TakenUp(p)'
      BY <1>2 DEF TakenUp
    <2>2. \A k \in p .. Len(toPlayer') : ~PausedAt(k, p)'
      BY <1>2 DEF PausedAt, Msg
    <2>3. \A k \in p + 1 .. Len(toPlayer') : toPlayer'[k].type \in Within
      BY <1>2 DEF Within, Msg
    <2>4. Len(toPlayer') \in p .. Len(toPlayer')
      BY <1>2
    <2>5. \A k \in p + 1 .. Len(toPlayer') : k \in p .. Len(toPlayer')
      BY <1>2
    <2>6. QED
      BY <2>1, <2>2, <2>3, <2>4, <2>5 DEF LeadsHere
  <1>4. QED
    BY <1>2, <1>3 DEF Obeyed

(* An order sent to a player that is on its way to the daemon's state.     *)
LEMMA SwitchObeyed ==
    ASSUME IInv, Obeyed, at = "ready", NEW old \in PlayState, NEW new \in PlayState,
           NEW order \in {"PAUSE", "RESUME", "SEEK"}, Switch(old, new, order),
           new = "stopped" \/ (old # "stopped" /\ ((order = "PAUSE") <=> (new = "paused"))),
           order = "PAUSE" => old = "playing", UNCHANGED <<toMain, pc, nextfd, track>>
    PROVE  Obeyed'
  <1> SUFFICES ASSUME toMain = <<>>, new # "stopped" PROVE Obeyed'
    <2>1. pl'.state = new
      BY DEF Switch, IInv, WellFormed, PlaylistType
    <2>2. QED
      BY <2>1 DEF Obeyed
  <1>1. pl.state = old /\ old # "stopped" /\ pl'.state = new /\ pl'.cur = pl.cur
    BY DEF Switch, IInv, WellFormed, PlaylistType
  <1>2. toPlayer \in Seq(OrderMsg) /\ toPlayer' = Append(toPlayer, Msg(order))
    <2>1. toPlayer \in Seq(OrderMsg) /\ toPlayer' = toPlayer \o <<Msg(order)>>
      BY DEF Switch, Send, IInv, PlayerGood, PlayerTypeOK
    <2>2. QED
      BY <2>1
  <1>3. PICK p \in 0 .. Len(toPlayer) : LeadsHere(p)
    BY <1>1 DEF Obeyed
  <1>n. PICK n \in Nat : n = Len(toPlayer)
    BY <1>2
  <1>4. /\ Len(toPlayer) = n /\ Len(toPlayer') = n + 1 /\ p \in 0 .. n + 1 /\ p # n + 1
        /\ \A k \in 1 .. n : toPlayer'[k] = toPlayer[k]
        /\ toPlayer'[n + 1].type = order
    BY <1>2, <1>3, <1>n DEF Msg
  <1>5. \A k \in p .. n : PausedAt(k, p)' <=> PausedAt(k, p)
    <2> SUFFICES ASSUME NEW k \in p .. n PROVE PausedAt(k, p)' <=> PausedAt(k, p)
      OBVIOUS
    <2>1. k # p => toPlayer'[k] = toPlayer[k]
      BY <1>4
    <2>2. QED
      BY <2>1 DEF PausedAt
  <1>6. PausedAt(n + 1, p)' <=> order = "PAUSE"
    BY <1>4 DEF PausedAt
  <1>7. PausedAt(n, p) <=> old = "paused"
    BY <1>1, <1>3, <1>4 DEF LeadsHere
  <1>8. TakenUp(p)'
    BY <1>1, <1>3, <1>4 DEF LeadsHere, TakenUp
  <1>9. ASSUME NEW k \in p + 1 .. n + 1
        PROVE  toPlayer'[k].type \in Within /\ ~(PausedAt(k - 1, p) /\ PausedAt(k, p))'
    <2>1. CASE k = n + 1
      <3>1. PausedAt(k - 1, p)' <=> PausedAt(n, p)
        BY <1>4, <1>5, <2>1
      <3>2. QED
        BY <1>1, <1>4, <1>6, <1>7, <2>1, <3>1 DEF Within
    <2>2. CASE k # n + 1
      <3>1. k \in p + 1 .. n /\ k \in p .. n /\ k - 1 \in p .. n /\ k \in 1 .. n
        BY <1>4, <2>2
      <3>2. QED
        BY <1>3, <1>4, <1>5, <3>1 DEF LeadsHere
    <2>3. QED
      BY <2>1, <2>2
  <1>10. pl'.state = "paused" <=> PausedAt(n + 1, p)'
    BY <1>1, <1>6 DEF PlayState
  <1>11. LeadsHere(p)'
    BY <1>4, <1>8, <1>9, <1>10 DEF LeadsHere
  <1>12. QED
    BY <1>4, <1>11 DEF Obeyed

(* The player reads an order: the others lead where they led.              *)
LEMMA ReadLeads ==
    ASSUME toPlayer \in Seq(OrderMsg), toPlayer # <<>>, toPlayer' = Tail(toPlayer),
           NEW p \in 0 .. Len(toPlayer), LeadsHere(p), pl' = pl,
           NEW r \in 0 .. Len(toPlayer'), r = IF p = 0 THEN 0 ELSE p - 1,
           TakenUp(r)', PausedAt(r, r)' <=> PausedAt(r + 1, p)
    PROVE  LeadsHere(r)'
  <1>n. PICK n \in Nat : n = Len(toPlayer')
    OBVIOUS
  <1>1. /\ Len(toPlayer') = n /\ Len(toPlayer) = n + 1
        /\ \A k \in 1 .. n : toPlayer'[k] = toPlayer[k + 1]
    BY <1>n
  <1>2. \A k \in r .. n : PausedAt(k, r)' <=> PausedAt(k + 1, p)
    <2> SUFFICES ASSUME NEW k \in r .. n, k # r
                 PROVE  PausedAt(k, r)' <=> PausedAt(k + 1, p)
      OBVIOUS
    <2>1. k \in 1 .. n /\ k + 1 # p
      BY <1>1
    <2>2. QED
      BY <1>1, <2>1 DEF PausedAt
  <1>3. ASSUME NEW k \in r + 1 .. n
        PROVE  toPlayer'[k].type \in Within /\ ~(PausedAt(k - 1, r) /\ PausedAt(k, r))'
    <2>1. /\ k \in 1 .. n /\ k - 1 \in r .. n /\ k \in r .. n
          /\ k + 1 \in p + 1 .. Len(toPlayer) /\ (k + 1) - 1 = k /\ (k - 1) + 1 = k
      BY <1>1
    <2>2. ~(PausedAt(k, p) /\ PausedAt(k + 1, p)) /\ toPlayer[k + 1].type \in Within
      BY <2>1 DEF LeadsHere
    <2>3. (PausedAt(k - 1, r)' <=> PausedAt(k, p)) /\ (PausedAt(k, r)' <=> PausedAt(k + 1, p))
      BY <1>2, <2>1
    <2>4. QED
      BY <1>1, <2>1, <2>2, <2>3
  <1>4. n \in r .. n /\ n + 1 = Len(toPlayer)
    BY <1>1
  <1>5. (pl.state = "paused") <=> PausedAt(n + 1, p)
    BY <1>4 DEF LeadsHere
  <1>6. (pl'.state = "paused") <=> PausedAt(n, r)'
    BY <1>2, <1>4, <1>5
  <1>7. QED
    BY <1>1, <1>3, <1>6 DEF LeadsHere

LEMMA ReadObeyed ==
    ASSUME IInv, Obeyed, NEW place \in {"idle", "playing", "paused"}, NEW go,
           pc = place, toPlayer # <<>>, toPlayer' = Tail(toPlayer),
           UNCHANGED <<mainVars, toMain>>,
           nextfd' = FdAfter(Head(toPlayer)), pc' = go,
           track' = IF pc' \in {"playing", "paused"} THEN track ELSE None,
           Head(toPlayer).type = "PLAY" => go = "starting",
           Head(toPlayer).type = "PAUSE" /\ place = "playing" => go = "paused",
           Head(toPlayer).type \in {"RESUME", "SEEK"} /\ place # "idle" => go = "playing"
    PROVE  Obeyed'
  <1> SUFFICES ASSUME at = "ready", toMain = <<>>, pl.state # "stopped" PROVE Obeyed'
    BY DEF Obeyed, mainVars
  <1> DEFINE m == Head(toPlayer)
  <1>1. /\ toPlayer \in Seq(OrderMsg) /\ pl' = pl /\ Len(toPlayer) \in Nat
        /\ Len(toPlayer') = Len(toPlayer) - 1 /\ Len(toPlayer) > 0 /\ m = toPlayer[1]
        /\ \A k \in 1 .. Len(toPlayer') : toPlayer'[k] = toPlayer[k + 1]
    BY DEF IInv, PlayerGood, PlayerTypeOK, mainVars
  <1>2. PICK p \in 0 .. Len(toPlayer) : LeadsHere(p)
    BY DEF Obeyed
  <1> DEFINE r == IF p = 0 THEN 0 ELSE p - 1
  <1>3. r \in 0 .. Len(toPlayer')
    BY <1>1
  <1>4. TakenUp(r)' /\ (PausedAt(r, r)' <=> PausedAt(r + 1, p))
    <2>1. CASE p > 1
      <3>1. r = p - 1 /\ r # 0 /\ r \in 1 .. Len(toPlayer') /\ r + 1 = p /\ p # 0
        BY <1>1, <2>1
      <3>2. toPlayer'[r] = PlayMsg(pl.cur)
        BY <1>1, <1>2, <3>1 DEF LeadsHere, TakenUp
      <3>3. TakenUp(r)'
        BY <1>1, <3>1, <3>2 DEF TakenUp
      <3>4. ~PausedAt(r, r)' /\ ~PausedAt(r + 1, p)
        BY <3>1 DEF PausedAt
      <3>5. QED
        BY <3>3, <3>4
    <2>2. CASE p = 1
      <3>1. r = 0 /\ r + 1 = p
        BY <2>2
      <3>2. m = PlayMsg(pl.cur)
        BY <1>1, <1>2, <2>2 DEF LeadsHere, TakenUp
      <3>3. pc' = "starting" /\ nextfd' = pl.cur
        BY <3>2 DEF PlayMsg, FdAfter
      <3>4. TakenUp(r)'
        BY <1>1, <3>1, <3>3 DEF TakenUp
      <3>5. ~PausedAt(r, r)' /\ ~PausedAt(r + 1, p)
        BY <3>1, <3>3, <2>2 DEF PausedAt
      <3>6. QED
        BY <3>4, <3>5
    <2>3. CASE p = 0
      <3>1. r = 0 /\ pc \in {"playing", "paused"} /\ track = pl.cur
        BY <1>2, <2>3 DEF LeadsHere, TakenUp
      <3>2. 1 \in p + 1 .. Len(toPlayer) /\ 1 - 1 = 0
        BY <1>1, <2>3
      <3>3. m.type \in Within /\ ~(pc = "paused" /\ m.type = "PAUSE")
        BY <1>1, <1>2, <2>3, <3>2 DEF LeadsHere, PausedAt
      <3>4. pc' \in {"playing", "paused"} /\ (pc' = "paused" <=> m.type = "PAUSE")
        BY <3>1, <3>3 DEF Within
      <3>5. TakenUp(r)'
        BY <1>1, <3>1, <3>4 DEF TakenUp
      <3>6. PausedAt(r, r)' <=> PausedAt(r + 1, p)
        BY <1>1, <2>3, <3>1, <3>4 DEF PausedAt
      <3>7. QED
        BY <3>5, <3>6
    <2>4. QED
      BY <2>1, <2>2, <2>3
  <1>5. LeadsHere(r)'
    <2> HIDE DEF r
    <2>1. r = IF p = 0 THEN 0 ELSE p - 1
      BY DEF r
    <2>2. QED
      BY <1>1, <1>2, <1>3, <1>4, <2>1, ReadLeads
  <1>6. QED
    BY <1>3, <1>5 DEF Obeyed

(* The playing search of the main process ends with a PLAY, or stops.      *)
LEMMA LoopObeyed ==
    ASSUME IInv, MainLoop
    PROVE  Obeyed'
  <1>1. WellFormed(pl) /\ mode.repeatAll \in BOOLEAN /\ toPlayer \in Seq(OrderMsg)
        /\ tail \in {<<>>, <<Msg("SEEK")>>}
    BY DEF IInv, MainTypeOK, ModeType, PlayerGood, PlayerTypeOK
  <1>2. PICK q : /\ WellFormed(q)
                 /\ \/ q.state = "stopped" /\ pl' = q
                    \/ PlaySong(q) /\ Done(<<PlayMsg(q.cur)>>)
                    \/ at # "ready" /\ at' = at
    <2>1. CASE AdvanceStep
      BY <2>1, <1>1, AdvanceStepped DEF AdvanceStep, LoopStep, Stepped
    <2>2. CASE PreviousStep
      BY <2>2, <1>1, PreviousStepped DEF PreviousStep, LoopStep, Stepped
    <2>3. QED
      BY <2>1, <2>2 DEF MainLoop
  <1>3. CASE PlaySong(q) /\ Done(<<PlayMsg(q.cur)>>)
    <2>1. q.cur \in Song /\ pl'.cur = q.cur /\ pl'.state = "playing"
      BY <1>2, <1>3, PlaySongGood
    <2>2. toPlayer' = toPlayer \o (<<PlayMsg(q.cur)>> \o tail)
      BY <1>3 DEF Done, Send
    <2>3. QED
      BY <1>1, <2>1, <2>2, PlaySent
  <1>4. QED
    BY <1>2, <1>3 DEF Obeyed

LEMMA ResumeObeyed ==
    ASSUME IInv, NEW ms \in {<<>>, <<Msg("SEEK")>>}, Resume(ms)
    PROVE  Obeyed'
  <1>1. WellFormed(pl) /\ toPlayer \in Seq(OrderMsg)
    BY DEF IInv, PlayerGood, PlayerTypeOK
  <1>2. CASE PlaySong(pl) /\ Send(<<PlayMsg(pl.cur)>> \o ms)
    <2>1. pl.cur \in Song /\ pl'.cur = pl.cur /\ pl'.state = "playing"
      BY <1>1, <1>2, PlaySongGood
    <2>2. QED
      BY <1>1, <1>2, <2>1, PlaySent DEF Send
  <1>3. CASE at' = "advance"
    BY <1>3 DEF Obeyed
  <1>4. QED
    BY <1>2, <1>3 DEF Resume

(* What neither sends an order nor changes what is being played.           *)
LEMMA KeptObeyed ==
    ASSUME Obeyed, UNCHANGED <<toPlayer, toMain, pc, nextfd, track, at>>,
           pl'.state = pl.state, pl.state # "stopped" => pl'.cur = pl.cur
    PROVE  Obeyed'
  <1> SUFFICES ASSUME at = "ready", toMain = <<>>, pl.state # "stopped" PROVE Obeyed'
    BY DEF Obeyed
  <1>1. PICK p \in 0 .. Len(toPlayer) : LeadsHere(p)
    BY DEF Obeyed
  <1>2. pl'.cur = pl.cur /\ p \in 0 .. Len(toPlayer')
    OBVIOUS
  <1>3. LeadsHere(p)'
    BY <1>1, <1>2 DEF LeadsHere, TakenUp, PausedAt
  <1>4. QED
    BY <1>2, <1>3 DEF Obeyed

LEMMA ClientObeyed ==
    ASSUME IInv, Obeyed, Client
    PROVE  Obeyed'
  <1>1. at = "ready" /\ toPlayer \in Seq(OrderMsg) /\ UNCHANGED <<toMain, pc, nextfd, track>>
    BY DEF IInv, PlayerGood, PlayerTypeOK, Client, Command, CtlPlay, CtlToggle, CtlPause,
           CtlStop, CtlNext, CtlPrev, Skip, CtlJump, CtlSeek, CtlMode, EditQueue,
           CtlFlush, CtlAdd, CtlShuffle, CtlCommit, Edit
  <1>2. WellFormed(pl) /\ pl \in PlaylistType
    BY DEF IInv, WellFormed
  <1>3. "playing" \in PlayState /\ "paused" \in PlayState /\ "stopped" \in PlayState
    BY DEF PlayState
  <1>4. Switch("paused", "playing", "RESUME") => Obeyed'
    BY <1>1, <1>3, SwitchObeyed
  <1>5. Switch("playing", "paused", "PAUSE") => Obeyed'
    BY <1>1, <1>3, SwitchObeyed
  <1>6. \A old \in {"playing", "paused"} : Switch(old, "playing", "SEEK") => Obeyed'
    BY <1>1, <1>3, SwitchObeyed
  <1>7. CASE CtlPlay
    <2>1. CASE UNCHANGED <<pl, at, tail, from, toPlayer>>
      BY <1>1, <2>1, KeptObeyed
    <2>2. QED
      BY <1>4, <1>7, <2>1, ResumeObeyed DEF CtlPlay
  <1>8. CASE CtlToggle
    BY <1>4, <1>5, <1>8, ResumeObeyed DEF CtlToggle
  <1>9. CASE CtlPause
    BY <1>5, <1>9 DEF CtlPause
  <1>10. CASE CtlStop
    BY <1>2, <1>10 DEF CtlStop, Switch, Obeyed, PlaylistType
  <1>11. CASE CtlNext \/ CtlPrev
    BY <1>11 DEF CtlNext, CtlPrev, Skip, Obeyed
  <1>12. ASSUME NEW S, CtlJump(S) PROVE Obeyed'
    <2>1. PICK i \in FirstIn(pl.songs, S) :
             LET q == PlayAt(pl, i) IN
             \/ PlaySong(q) /\ Send(<<Msg("STOP"), PlayMsg(q.cur)>>)
             \/ at' = "advance"
      BY <1>12 DEF CtlJump
    <2>2. WellFormed(PlayAt(pl, i))
      BY <1>2, <2>1, PlayAtWellFormed DEF FirstIn, Offsets
    <2> DEFINE q == PlayAt(pl, i)
    <2> HIDE DEF q
    <2>3. CASE PlaySong(q) /\ Send(<<Msg("STOP"), PlayMsg(q.cur)>>)
      <3>1. q.cur \in Song /\ pl'.cur = q.cur /\ pl'.state = "playing"
        BY <2>2, <2>3, PlaySongGood DEF q
      <3>2. QED
        BY <1>1, <2>3, <3>1, PlaySent DEF Send
    <2>4. CASE at' = "advance"
      BY <2>4 DEF Obeyed
    <2>5. QED
      BY <2>1, <2>3, <2>4 DEF q
  <1>13. CASE CtlSeek
    BY <1>6, <1>13, ResumeObeyed DEF CtlSeek
  <1>14. CASE CtlMode
    BY <1>1, <1>14, KeptObeyed DEF CtlMode
  <1>15. CASE EditQueue
    <2>1. Edited(pl, pl')
      BY <1>2, <1>15, EditEdited
    <2>2. UNCHANGED <<at, toPlayer>>
      BY <1>15 DEF EditQueue, CtlFlush, CtlAdd, CtlShuffle, CtlCommit, Edit
    <2>3. QED
      BY <1>1, <2>1, <2>2, KeptObeyed DEF Edited
  <1>16. QED
    BY <1>7, <1>8, <1>9, <1>10, <1>11, <1>12, <1>13, <1>14, <1>15 DEF Client

LEMMA HandleObeyed ==
    ASSUME IInv, HandlePlayer
    PROVE  Obeyed'
  <1>1. WellFormed(pl) /\ toPlayer \in Seq(OrderMsg)
    BY DEF IInv, PlayerGood, PlayerTypeOK
  <1>2. CASE PlaySong(pl) /\ Send(<<PlayMsg(pl.cur)>>)
    <2>1. pl.cur \in Song /\ pl'.cur = pl.cur /\ pl'.state = "playing"
      BY <1>1, <1>2, PlaySongGood
    <2>2. toPlayer' = toPlayer \o (<<PlayMsg(pl.cur)>> \o <<>>)
      BY <1>2 DEF Send
    <2>3. QED
      BY <1>1, <2>1, <2>2, PlaySent
  <1>3. CASE at' = "advance"
    BY <1>3 DEF Obeyed
  <1>4. QED
    BY <1>2, <1>3 DEF HandlePlayer, HandleEof, HandleErr

LEMMA PlayerObeyed ==
    ASSUME IInv, Obeyed, PlayerStep
    PROVE  Obeyed'
  <1>1. PlayerGood /\ UNCHANGED mainVars /\ toMain \in Seq(Report)
    BY DEF IInv, PlayerGood, PlayerTypeOK, PlayerStep
  <1>2. toPlayer # <<>> /\ pc \in {"idle", "playing", "paused"} =>
           Head(toPlayer) \in OrderMsg /\ ~AlreadyEnqueued(Head(toPlayer))
    BY <1>1 DEF PlayerGood, PlayerTypeOK, PlayerInv, AlreadyEnqueued
  <1> DEFINE m == Head(toPlayer)
  <1>3. CASE DispatchIdle
    <2>1. /\ pc = "idle" /\ toPlayer # <<>> /\ toPlayer' = Tail(toPlayer) /\ toMain' = toMain
          /\ nextfd' = FdAfter(m) /\ pc' = AfterIdle(m)
          /\ track' = IF pc' \in {"playing", "paused"} THEN track ELSE None
      BY <1>2, <1>3 DEF DispatchIdle, Dispatch
    <2>2. m.type = "PLAY" => AfterIdle(m) = "starting"
      BY <1>2, <2>1, NoneIsNoSong DEF AfterIdle, FdAfter, BackToLoop, OrderMsg, Order
    <2>3. QED
      BY <1>1, <2>1, <2>2, ReadObeyed
  <1>4. CASE DispatchPlaying
    <2>1. /\ pc = "playing" /\ toPlayer # <<>> /\ toPlayer' = Tail(toPlayer)
          /\ toMain' = toMain /\ nextfd' = FdAfter(m) /\ pc' = AfterPlaying(m)
          /\ track' = IF pc' \in {"playing", "paused"} THEN track ELSE None
      BY <1>2, <1>4 DEF DispatchPlaying, Dispatch
    <2>2. m \in OrderMsg
      BY <1>2, <2>1
    <2>3. m.type = "PLAY" => AfterPlaying(m) = "starting"
      BY <2>2, NoneIsNoSong
      DEF AfterPlaying, Returned, FdAfter, BackToLoop, OrderMsg, Order
    <2>4. /\ m.type = "PAUSE" => AfterPlaying(m) = "paused"
          /\ m.type \in {"RESUME", "SEEK"} => AfterPlaying(m) = "playing"
      BY <2>2 DEF AfterPlaying, Returned
    <2>5. QED
      BY <1>1, <2>1, <2>3, <2>4, ReadObeyed
  <1>5. CASE DispatchPaused
    <2>1. /\ pc = "paused" /\ toPlayer # <<>> /\ toPlayer' = Tail(toPlayer)
          /\ toMain' = toMain /\ nextfd' = FdAfter(m) /\ pc' = AfterPaused(m)
          /\ track' = IF pc' \in {"playing", "paused"} THEN track ELSE None
      BY <1>2, <1>5 DEF DispatchPaused, Dispatch
    <2>2. m \in OrderMsg
      BY <1>2, <2>1
    <2>3. m.type = "PLAY" => AfterPaused(m) = "starting"
      BY <2>2, NoneIsNoSong
      DEF AfterPaused, Returned, FdAfter, BackToLoop, OrderMsg, Order
    <2>4. m.type \in {"RESUME", "SEEK"} => AfterPaused(m) = "playing"
      BY <2>2 DEF AfterPaused, Returned
    <2>5. QED
      BY <1>1, <2>1, <2>3, <2>4, ReadObeyed
  <1>6. CASE PlayNext
    <2>1. /\ pc = "starting" /\ pc' = "playing" /\ track' = nextfd
          /\ UNCHANGED <<toPlayer, toMain>>
      BY <1>1, <1>6 DEF PlayNext, PlayerGood, PlayerInv
    <2> SUFFICES ASSUME at = "ready", toMain = <<>>, pl.state # "stopped" PROVE Obeyed'
      BY <1>1, <2>1 DEF Obeyed, mainVars
    <2>2. PICK p \in 0 .. Len(toPlayer) : LeadsHere(p)
      BY DEF Obeyed
    <2>3. pl' = pl
      BY <1>1 DEF mainVars
    <2>4. TakenUp(p)'
      BY <2>1, <2>2, <2>3 DEF LeadsHere, TakenUp
    <2>5. \A k \in p .. Len(toPlayer) : PausedAt(k, p)' <=> PausedAt(k, p)
      BY <2>1 DEF PausedAt
    <2>n. PICK n \in Nat : n = Len(toPlayer) /\ n = Len(toPlayer')
      BY <1>1, <2>1 DEF PlayerGood, PlayerTypeOK
    <2>6. ASSUME NEW k \in p + 1 .. n
          PROVE  toPlayer'[k].type \in Within /\ ~(PausedAt(k - 1, p) /\ PausedAt(k, p))'
      <3>1. k \in p .. n /\ k - 1 \in p .. n
        BY <2>n
      <3>2. QED
        BY <2>1, <2>2, <2>5, <2>n, <3>1 DEF LeadsHere
    <2>7. n \in p .. n
      BY <2>n
    <2>8. (pl'.state = "paused") <=> PausedAt(n, p)'
      BY <2>2, <2>3, <2>5, <2>7, <2>n DEF LeadsHere
    <2>9. LeadsHere(p)'
      BY <2>4, <2>6, <2>8, <2>n DEF LeadsHere
    <2>10. QED
      BY <2>1, <2>9 DEF Obeyed
  <1>7. CASE EndOfTrack \/ DecodeError
    <2>1. \E r : toMain' = Append(toMain, r)
      BY <1>7 DEF EndOfTrack, DecodeError, Finish
    <2>2. toMain' # <<>>
      BY <1>1, <2>1
    <2>3. QED
      BY <2>2 DEF Obeyed
  <1>8. QED
    BY <1>3, <1>4, <1>5, <1>6, <1>7 DEF PlayerStep, PlayerNext

LEMMA ActiveDaemonAgrees == Spec => []Agreement
  <1>1. Init => Obeyed
    BY DEF Init, InitPlaylist, Obeyed
  <1>2. IInv /\ Obeyed /\ [Next]_vars => Obeyed'
    <2> SUFFICES ASSUME IInv, Obeyed, [Next]_vars PROVE Obeyed'
      OBVIOUS
    <2>1. CASE UNCHANGED vars
      <3>1. UNCHANGED <<toPlayer, toMain, pc, nextfd, track, at, pl>>
        BY <2>1 DEF vars, mainVars, playerVars
      <3>2. QED
        BY <3>1, KeptObeyed
    <2>2. QED
      BY <2>1, LoopObeyed, ClientObeyed, HandleObeyed, PlayerObeyed DEF Next
  <1>3. QED
    BY <1>1, <1>2, Invariance, ObeyedAgrees, PTL DEF Spec

-----------------------------------------------------------------------------
(* What a search for the next song remembers: as long as it goes on, the   *)
(* song that NEXT was given at is the one it leaves behind.                *)
FromLeads == /\ at = "ready" => from = None
             /\ at = "advance" /\ from # None /\ pl.songs # <<>> => Behind(pl) = from

(* Steps outside of a search for the next song.                            *)
LEMMA FromElsewhere ==
    ASSUME IInv, FromLeads, Client \/ HandlePlayer \/ PreviousStep
    PROVE  FromLeads' /\ ~Plays("advance")
  <1>1. at = "ready" => from = None
    BY DEF FromLeads
  <1>2. CASE PreviousStep
    BY <1>2 DEF PreviousStep, LoopStep, Done, Plays, FromLeads
  <1>3. CASE HandlePlayer
    BY <1>1, <1>3 DEF HandlePlayer, HandleEof, HandleErr, Receive, Plays, FromLeads
  <1>4. CASE CtlNext \/ CtlPrev
    <2>1. pl.off \in Int /\ pl' = pl
      BY <1>4 DEF IInv, WellFormed, PlaylistType, CtlNext, CtlPrev, Skip
    <2>2. from' # None => Behind(pl) = from'
      BY <1>4, <2>1 DEF CtlNext, CtlPrev, Skip, Behind
    <2>3. QED
      BY <1>4, <2>1, <2>2 DEF CtlNext, CtlPrev, Skip, Command, Plays, FromLeads, Behind
  <1>5. CASE UNCHANGED from /\ at = "ready"
    BY <1>1, <1>5 DEF FromLeads, Plays
  <1>6. CASE Client /\ ~(CtlNext \/ CtlPrev)
    <2>1. UNCHANGED from /\ at = "ready"
      BY <1>6 DEF Client, CtlPlay, CtlToggle, CtlPause, CtlStop, CtlJump, CtlSeek, CtlMode,
                  EditQueue, CtlFlush, CtlAdd, CtlShuffle, CtlCommit, Edit, Command,
                  Resume, Switch
    <2>2. QED
      BY <1>5, <2>1
  <1>7. QED
    BY <1>2, <1>3, <1>4, <1>6

LEMMA FromAdvance ==
    ASSUME IInv, FromLeads, AdvanceStep
    PROVE  /\ FromLeads'
           /\ Plays("advance") => SongAt(pl', Predecessor(pl', pl'.off)) = from
  <1> DEFINE e == Advance(pl, mode.repeatAll)
  <1>1. WellFormed(pl) /\ mode.repeatAll \in BOOLEAN /\ at = "advance"
    BY DEF IInv, MainTypeOK, ModeType, AdvanceStep, LoopStep
  <1>2. WellFormed(e)
    BY <1>1, AdvanceStepped DEF Stepped
  <1>3. e.state # "stopped" =>
           /\ pl.songs # <<>> /\ e.off \in Offsets(e)
           /\ SongAt(e, Before(e, e.off)) = Behind(pl)
    BY <1>1, AdvanceLands
  <1>4. \/ e.state = "stopped" /\ pl' = e /\ Done(<<>>)
        \/ e.state # "stopped" /\ PlaySong(e) /\ Done(<<PlayMsg(e.cur)>>)
        \/ e.state # "stopped" /\ SkipSong(e) /\ UNCHANGED <<at, from>>
    BY DEF AdvanceStep, LoopStep
  <1> HIDE DEF e
  <1>5. CASE e.state = "stopped" /\ pl' = e /\ Done(<<>>)
    BY <1>5 DEF Done, FromLeads, Plays
  <1>6. CASE e.state # "stopped" /\ PlaySong(e) /\ Done(<<PlayMsg(e.cur)>>)
    <2>1. FromLeads'
      BY <1>6 DEF Done, FromLeads
    <2>2. pl'.songs = e.songs /\ pl'.off = e.off
      BY <1>2, <1>6, PlaySongGood
    <2>3. SongAt(pl', Predecessor(pl', pl'.off)) = Behind(pl)
      BY <1>3, <1>6, <2>2 DEF Predecessor, Before, SongAt
    <2>4. QED
      BY <1>1, <1>3, <1>6, <2>1, <2>3 DEF Plays, FromLeads
  <1>7. CASE e.state # "stopped" /\ SkipSong(e) /\ UNCHANGED <<at, from>>
    <2>1. pl' = DropCurrent(e) /\ e.off # -1
      BY <1>3, <1>7 DEF SkipSong, Offsets
    <2>2. pl'.songs # <<>> => Behind(pl') = Behind(pl)
      BY <1>2, <1>3, <1>7, <2>1, DropStaysBehind
    <2>3. QED
      BY <1>1, <1>3, <1>7, <2>2 DEF FromLeads, Plays, Behind, SongAt
  <1>8. QED
    BY <1>4, <1>5, <1>6, <1>7

(* NEXT plays the neighbour of the current song in the queue it leaves,    *)
(* however many songs in between could not be opened and were removed.     *)
THEOREM NextPlaysNeighbour == Spec => NextIsAdjacent
  <1>1. Init => FromLeads
    BY DEF Init, FromLeads
  <1>2. ASSUME IInv, FromLeads, [Next]_vars
        PROVE  /\ FromLeads'
               /\ Plays("advance") => SongAt(pl', Predecessor(pl', pl'.off)) = from
    <2>1. CASE UNCHANGED vars \/ PlayerStep
      <3>1. UNCHANGED <<pl, at, from>>
        BY <2>1 DEF vars, mainVars, PlayerStep
      <3>2. QED
        BY <1>2, <3>1 DEF FromLeads, Plays, Behind, SongAt
    <2>2. QED
      BY <1>2, <2>1, FromElsewhere, FromAdvance DEF Next, MainLoop
  <1>3. IInv /\ FromLeads /\ [Next]_vars =>
           FromLeads' /\ [Plays("advance") => SongAt(pl', Predecessor(pl', pl'.off)) = from]_vars
    BY <1>2
  <1>4. QED
    BY <1>1, <1>3, Invariance, PTL DEF Spec, NextIsAdjacent

-----------------------------------------------------------------------------
(* The daemon with its events for monitors.                                *)
LEMMA StepsObserved == MonitorNext => Next
  BY DEF MonitorNext, Observed, Loop, Play, Toggle, Move, Pause, Stop, Other, Err, Eof,
         Next, Client, HandlePlayer

(* Every step of the daemon with its events is one of the daemon without:  *)
(* control_notify() changes nothing that a handler reads, and no event is  *)
(* a condition of a command.                                               *)
THEOREM DaemonObserved == MonitorSpec => Spec
  <1>1. MonitorInit => Init
    BY DEF MonitorInit
  <1>2. [MonitorNext]_monitorVars => [Next]_vars
    BY StepsObserved DEF monitorVars
  <1>3. QED
    BY <1>1, <1>2, PTL DEF MonitorSpec, Spec

LEMMA ObservedInvariance == MonitorSpec => []IInv
  BY DaemonObserved, Invariance, PTL

(* Where the steps leave the daemon's state: what the proofs below need of *)
(* every handler.                                                          *)
LEMMA ResumeResult ==
    ASSUME IInv, NEW ms, Resume(ms), at = "ready"
    PROVE  \/ at' = "ready" /\ pl'.state = "playing"
           \/ at' = "advance" /\ tail' = ms
  <1>1. PlaySong(pl) => pl'.state = "playing"
    BY PlaySongGood DEF IInv
  <1>2. QED
    BY <1>1 DEF Resume

LEMMA SwitchResult ==
    ASSUME IInv, NEW old, NEW new, NEW order, Switch(old, new, order)
    PROVE  pl'.state = new /\ at' = at /\ pl.state = old
  BY DEF IInv, WellFormed, PlaylistType, Switch

LEMMA LoopResult ==
    ASSUME IInv, MainLoop
    PROVE  \/ at' = "ready" /\ pl'.state \in {"playing", "stopped"}
           \/ at' = at /\ tail' = tail
  <1>1. WellFormed(pl) /\ mode.repeatAll \in BOOLEAN
    BY DEF IInv, MainTypeOK, ModeType
  <1>2. PICK q : /\ WellFormed(q)
                 /\ \/ q.state = "stopped" /\ pl' = q /\ Done(<<>>)
                    \/ PlaySong(q) /\ Done(<<PlayMsg(q.cur)>>)
                    \/ UNCHANGED <<toPlayer, at, tail, from>>
    <2>1. CASE AdvanceStep
      BY <2>1, <1>1, AdvanceStepped DEF AdvanceStep, LoopStep, Stepped
    <2>2. CASE PreviousStep
      BY <2>2, <1>1, PreviousStepped DEF PreviousStep, LoopStep, Stepped
    <2>3. QED
      BY <2>1, <2>2 DEF MainLoop
  <1>3. PlaySong(q) => pl'.state = "playing"
    BY <1>2, PlaySongGood
  <1>4. QED
    BY <1>2, <1>3 DEF Done

LEMMA EditResult ==
    ASSUME IInv, CtlMode \/ EditQueue
    PROVE  pl'.state = pl.state /\ at' = at /\ at = "ready"
  <1>1. CASE CtlMode
    BY <1>1 DEF CtlMode, Command
  <1>2. CASE EditQueue
    <2>1. Edited(pl, pl')
      BY <1>2, EditEdited DEF IInv
    <2>2. at' = at /\ at = "ready"
      BY <1>2 DEF EditQueue, CtlFlush, CtlAdd, CtlShuffle, CtlCommit, Edit, Command
    <2>3. QED
      BY <2>1, <2>2 DEF Edited
  <1>3. QED
    BY <1>1, <1>2

LEMMA HandleResult ==
    ASSUME IInv, HandlePlayer
    PROVE  \/ at' = "ready" /\ pl'.state = "playing" /\ HandleEof /\ mode.repeatOne
           \/ at' = "advance"
  <1>1. PlaySong(pl) => pl'.state = "playing"
    BY PlaySongGood DEF IInv
  <1>2. at = "ready"
    BY DEF HandlePlayer, HandleEof, HandleErr, Receive
  <1>3. QED
    BY <1>1, <1>2 DEF HandlePlayer, HandleEof, HandleErr

-----------------------------------------------------------------------------
(* A handler owes an event only inside a loop.  A loop that owes none has  *)
(* announced the playback already, or is the one of a SEEK.                *)
OwedInv == /\ owed \in Owed
           /\ at = "ready" => owed = "nothing"
           /\ at # "ready" /\ owed = "nothing" => told = "playing" \/ tail # <<>>

MonitorInv == OwedInv /\ PausedIsTold

(* One step of the monitored daemon: the events it owes and has sent.      *)
LEMMA LoopTells ==
    ASSUME IInv, MonitorInv, Loop
    PROVE  MonitorInv' /\ (at' = "ready" /\ pl'.state = "playing"
                             => told' = "playing" \/ tail # <<>>)
  <1>1. at # "ready"
    BY DEF Loop, MainLoop, AdvanceStep, PreviousStep, LoopStep
  <1>2. \/ at' = "ready" /\ pl'.state \in {"playing", "stopped"}
        \/ at' = at /\ tail' = tail
    BY LoopResult DEF Loop
  <1>3. CASE at' = "ready"
    <2>1. /\ pl'.state \in {"playing", "stopped"} /\ owed' = "nothing"
          /\ told' = CASE owed = "play" -> "playing"
                       [] owed = "outcome" -> Outcome
                       [] OTHER -> told
      BY <1>1, <1>2, <1>3 DEF Loop, Now
    <2>2. QED
      BY <1>1, <1>3, <2>1 DEF MonitorInv, OwedInv, PausedIsTold, Owed, Outcome
  <1>4. CASE at' # "ready"
    BY <1>1, <1>2, <1>4 DEF Loop, Silently, MonitorInv, OwedInv, PausedIsTold
  <1>5. QED
    BY <1>3, <1>4

LEMMA CommandTells ==
    ASSUME IInv, MonitorInv, Play \/ Toggle \/ Move \/ Pause \/ Stop \/ Other
    PROVE  /\ MonitorInv'
           /\ at' = "ready" /\ pl'.state = "playing" /\ pl.state # "playing"
                => told' = "playing" \/ CtlSeek
  <1>1. at = "ready" /\ owed = "nothing"
    BY DEF Play, Toggle, Move, Pause, Stop, Other, CtlPlay, CtlToggle, CtlNext, CtlPrev,
           Skip, CtlJump, CtlPause, CtlStop, CtlSeek, CtlMode, EditQueue, CtlFlush, CtlAdd,
           CtlShuffle, CtlCommit, Edit, Command, MonitorInv, OwedInv
  <1>2. CASE Play
    <2>1. at' = "ready" => pl'.state = "playing"
      BY <1>1, <1>2, ResumeResult, SwitchResult DEF Play, CtlPlay
    <2>2. QED
      BY <1>2, <2>1 DEF Play, AtTheEnd, Now, MonitorInv, OwedInv, PausedIsTold, Owed
  <1>3. CASE Toggle
    <2>1. \/ pl.state = "playing" /\ pl'.state = "paused" /\ at' = "ready"
          \/ pl.state # "playing" /\ (at' = "ready" => pl'.state = "playing")
      BY <1>1, <1>3, ResumeResult, SwitchResult DEF Toggle, CtlToggle
    <2>2. QED
      BY <1>3, <2>1 DEF Toggle, Now, MonitorInv, OwedInv, PausedIsTold, Owed
  <1>4. CASE Move
    <2>1. at' = "ready" => pl'.state = "playing"
      <3>1. CASE CtlNext \/ CtlPrev
        BY <3>1 DEF CtlNext, CtlPrev, Skip
      <3>2. ASSUME NEW S, CtlJump(S) PROVE at' = "ready" => pl'.state = "playing"
        <4>1. PICK i \in FirstIn(pl.songs, S) : PlaySong(PlayAt(pl, i)) \/ at' = "advance"
          BY <3>2 DEF CtlJump
        <4>2. WellFormed(PlayAt(pl, i))
          BY <4>1, PlayAtWellFormed DEF IInv, WellFormed, FirstIn, Offsets
        <4>3. QED
          BY <4>1, <4>2, PlaySongGood
      <3>3. QED
        BY <1>4, <3>1, <3>2 DEF Move
    <2>2. QED
      BY <1>4, <2>1 DEF Move, Now, MonitorInv, OwedInv, PausedIsTold, Owed
  <1>5. CASE Pause
    <2>1. pl'.state = "paused" /\ at' = "ready"
      BY <1>1, <1>5, SwitchResult DEF Pause, CtlPause
    <2>2. QED
      BY <1>5, <2>1 DEF Pause, Now, MonitorInv, OwedInv, PausedIsTold, Owed
  <1>6. CASE Stop
    <2>1. pl'.state = "stopped" /\ at' = "ready"
      BY <1>1, <1>6, SwitchResult DEF Stop, CtlStop
    <2>2. QED
      BY <1>1, <1>6, <2>1 DEF Stop, Now, Silently, MonitorInv, OwedInv, PausedIsTold, Owed
  <1>7. CASE Other /\ CtlSeek
    <2>1. \/ at' = "ready" /\ pl'.state = "playing"
          \/ at' = "advance" /\ tail' = <<Msg("SEEK")>>
      BY <1>1, <1>7, ResumeResult, SwitchResult DEF CtlSeek
    <2>2. <<Msg("SEEK")>> # <<>>
      OBVIOUS
    <2>3. QED
      BY <1>1, <1>7, <2>1, <2>2
      DEF Other, Silently, MonitorInv, OwedInv, PausedIsTold, Owed
  <1>8. CASE Other /\ (CtlMode \/ EditQueue)
    <2>1. pl'.state = pl.state /\ at' = at /\ UNCHANGED <<told, owed>>
      BY <1>8, EditResult DEF Other, Silently
    <2>2. QED
      BY <1>1, <2>1 DEF MonitorInv, OwedInv, PausedIsTold
  <1>9. QED
    BY <1>2, <1>3, <1>4, <1>5, <1>6, <1>7, <1>8 DEF Other

LEMMA ReportTells ==
    ASSUME IInv, MonitorInv, Err \/ Eof
    PROVE  /\ MonitorInv'
           /\ at' = "ready" /\ pl'.state = "playing" => HandleEof /\ mode.repeatOne
  <1>1. \/ at' = "ready" /\ pl'.state = "playing" /\ HandleEof /\ mode.repeatOne
        \/ at' = "advance"
    BY HandleResult DEF Err, Eof, HandlePlayer
  <1>2. at = "ready" /\ owed = "nothing"
    BY DEF Err, Eof, HandleErr, HandleEof, Receive, MonitorInv, OwedInv
  <1>3. CASE Err
    BY <1>1, <1>2, <1>3
    DEF Err, HandleErr, AtTheEnd, MonitorInv, OwedInv, PausedIsTold, Owed
  <1>4. CASE Eof
    BY <1>1, <1>2, <1>4 DEF Eof, Silently, MonitorInv, OwedInv, PausedIsTold, Owed
  <1>5. QED
    BY <1>3, <1>4

LEMMA MonitorStep ==
    ASSUME IInv, MonitorInv, [MonitorNext]_monitorVars
    PROVE  /\ MonitorInv'
           /\ at' = "ready" /\ pl'.state = "playing" /\ pl.state # "playing"
                => \/ told' = "playing"
                   \/ CtlSeek \/ tail # <<>>
                   \/ HandleEof /\ mode.repeatOne
  <1>1. CASE Loop
    BY <1>1, LoopTells
  <1>2. CASE Play \/ Toggle \/ Move \/ Pause \/ Stop \/ Other
    BY <1>2, CommandTells
  <1>3. CASE Err \/ Eof
    BY <1>3, ReportTells
  <1>4. CASE UNCHANGED monitorVars \/ (PlayerStep /\ Silently)
    <2>1. UNCHANGED <<pl, at, tail, told, owed>>
      BY <1>4 DEF monitorVars, vars, mainVars, PlayerStep, Silently
    <2>2. QED
      BY <2>1 DEF MonitorInv, OwedInv, PausedIsTold
  <1>5. QED
    BY <1>1, <1>2, <1>3, <1>4 DEF MonitorNext, Observed

LEMMA MonitorInvariance == MonitorSpec => []MonitorInv
  <1>1. MonitorInit => MonitorInv
    BY DEF MonitorInit, Init, InitPlaylist, MonitorInv, OwedInv, PausedIsTold, Owed
  <1>2. IInv /\ MonitorInv /\ [MonitorNext]_monitorVars => MonitorInv'
    BY MonitorStep
  <1>3. QED
    BY <1>1, <1>2, ObservedInvariance, PTL DEF MonitorSpec

(* The last event about playback that a monitor saw of a paused daemon is  *)
(* the PAUSE, whatever handler paused it and whatever came since.          *)
THEOREM PauseIsAnnounced == MonitorSpec => []PausedIsTold
  BY MonitorInvariance, PTL DEF MonitorInv

(* A monitor hears of a playback that starts, however late the search for  *)
(* a playable file ends, but for a SEEK and a track played again whose end *)
(* crossed a PAUSE or a STOP.                                              *)
THEOREM StartIsAnnounced == MonitorSpec => StartIsTold
  <1>1. IInv /\ MonitorInv /\ [MonitorNext]_monitorVars =>
           [at' = "ready" /\ pl'.state = "playing" /\ pl.state # "playing"
              => \/ told' = "playing"
                 \/ CtlSeek \/ tail # <<>>
                 \/ HandleEof /\ mode.repeatOne]_monitorVars
    BY MonitorStep
  <1>2. QED
    BY <1>1, MonitorInvariance, ObservedInvariance, PTL DEF MonitorSpec, StartIsTold

-----------------------------------------------------------------------------
(* A daemon that has stopped, or is looking for a song, has sent the       *)
(* orders that leave the player idle, unless it is adrift.                 *)
SilentInv == (pl.state = "stopped" \/ at # "ready") /\ ~adrift => LeftIdle

LEMMA SentSilent ==
    ASSUME toPlayer \in Seq(OrderMsg), NEW t \in Order \ {"PLAY"}, UNCHANGED pc,
           toPlayer' = toPlayer \o <<Msg(t)>>,
           LeftIdle \/ t = "STOP"
    PROVE  LeftIdle'
  <1>n. PICK n \in Nat : n = Len(toPlayer)
    OBVIOUS
  <1>1. /\ Len(toPlayer') = n + 1 /\ toPlayer'[n + 1].type = t
        /\ \A k \in 1 .. n : toPlayer'[k] = toPlayer[k]
    BY <1>n DEF Msg
  <1>2. CASE t = "STOP"
    <2>1. n + 1 \in 0 .. Len(toPlayer') /\ n + 1 # 0
      BY <1>1
    <2>2. \A j \in (n + 1) + 1 .. Len(toPlayer') : FALSE
      BY <1>1
    <2>3. QED
      BY <1>1, <1>2, <2>1, <2>2 DEF LeftIdle
  <1>3. CASE LeftIdle
    <2>1. PICK k \in 0 .. n : /\ IF k = 0 THEN pc = "idle" ELSE toPlayer[k].type = "STOP"
                              /\ \A j \in k + 1 .. n : toPlayer[j].type # "PLAY"
      BY <1>n, <1>3 DEF LeftIdle
    <2>2. k \in 0 .. Len(toPlayer')
      BY <1>1
    <2>3. IF k = 0 THEN pc' = "idle" ELSE toPlayer'[k].type = "STOP"
      BY <1>1, <2>1
    <2>4. ASSUME NEW j \in k + 1 .. n + 1 PROVE toPlayer'[j].type # "PLAY"
      <3>1. k \in Nat /\ j \in Nat /\ k + 1 =< j /\ j =< n + 1
        BY <1>n
      <3>n. n \in Nat
        BY <1>n
      <3>e. (j = n + 1) \/ (j \in k + 1 .. n /\ j \in 1 .. n)
        BY ONLY <3>1, <3>n
      <3>2. QED
        BY <1>1, <2>1, <3>e
    <2>5. QED
      BY <1>1, <2>2, <2>3, <2>4 DEF LeftIdle
  <1>4. QED
    BY <1>2, <1>3

(* The player obeys an order: a PLAY is not among those after the last     *)
(* STOP, and all others that it reads when idle are lost.                  *)
LEMMA ReadSilent ==
    ASSUME toPlayer \in Seq(OrderMsg), toPlayer # <<>>, toPlayer' = Tail(toPlayer), LeftIdle,
           Head(toPlayer).type = "STOP" => pc' = "idle",
           pc = "idle" /\ Head(toPlayer).type # "PLAY" => pc' = "idle"
    PROVE  LeftIdle'
  <1>n. PICK n \in Nat : n = Len(toPlayer')
    OBVIOUS
  <1>1. /\ Len(toPlayer') = n /\ Len(toPlayer) = n + 1 /\ Head(toPlayer) = toPlayer[1]
        /\ \A k \in 1 .. n : toPlayer'[k] = toPlayer[k + 1]
    BY <1>n
  <1>2. PICK k \in 0 .. n + 1 : /\ IF k = 0 THEN pc = "idle" ELSE toPlayer[k].type = "STOP"
                                /\ \A j \in k + 1 .. n + 1 : toPlayer[j].type # "PLAY"
    BY <1>1 DEF LeftIdle
  <1> DEFINE r == IF k = 0 THEN 0 ELSE k - 1
  <1>3. /\ r \in 0 .. n
        /\ \A j \in r + 1 .. n : j \in 1 .. n /\ j + 1 \in k + 1 .. n + 1
    OBVIOUS
  <1>4. \A j \in r + 1 .. n : toPlayer'[j].type # "PLAY"
    BY <1>1, <1>2, <1>3
  <1>5. IF r = 0 THEN pc' = "idle" ELSE toPlayer'[r].type = "STOP"
    <2>1. CASE k = 0
      <3>1. 1 \in k + 1 .. n + 1
        BY <2>1
      <3>2. QED
        BY <1>1, <1>2, <2>1, <3>1
    <2>2. CASE k = 1
      BY <1>1, <1>2, <2>2
    <2>3. CASE k > 1
      <3>1. r \in 1 .. n /\ r + 1 = k /\ r # 0 /\ k # 0
        BY <2>3
      <3>2. QED
        BY <1>1, <1>2, <3>1
    <2>4. (k = 0) \/ (k = 1) \/ (k > 1)
      BY <1>2
    <2>5. QED
      BY ONLY <2>1, <2>2, <2>3, <2>4
  <1> HIDE DEF r
  <1>6. QED
    BY <1>1, <1>3, <1>4, <1>5 DEF LeftIdle

LEMMA PlayerSilent ==
    ASSUME IInv, LeftIdle, PlayerStep
    PROVE  LeftIdle'
  <1>1. /\ toPlayer \in Seq(OrderMsg) /\ (nextfd # None <=> pc = "starting")
        /\ pc # "fatal"
    BY DEF IInv, PlayerGood, PlayerTypeOK, PlayerInv, NeverFatal
  <1> DEFINE m == Head(toPlayer)
  <1>2. ASSUME toPlayer # <<>>, toPlayer' = Tail(toPlayer),
               m.type = "STOP" => pc' = "idle",
               pc = "idle" /\ m.type # "PLAY" => pc' = "idle"
        PROVE  LeftIdle'
    BY <1>1, <1>2, ReadSilent
  <1>3. nextfd = None /\ m.type # "PLAY" => BackToLoop(FdAfter(m)) = "idle"
    BY DEF BackToLoop, FdAfter
  <1>4. CASE DispatchIdle
    <2>1. nextfd = None /\ pc = "idle" /\ toPlayer # <<>> /\ toPlayer' = Tail(toPlayer)
      BY <1>1, <1>4 DEF DispatchIdle, Dispatch
    <2>2. pc' = AfterIdle(m)
      BY <1>4, <2>1 DEF DispatchIdle, Dispatch, AlreadyEnqueued
    <2>3. m.type # "PLAY" => AfterIdle(m) = "idle"
      BY <1>3, <2>1 DEF AfterIdle
    <2>4. m.type = "STOP" => m.type # "PLAY"
      OBVIOUS
    <2>5. QED
      BY <1>2, <2>1, <2>2, <2>3, <2>4
  <1>5. CASE DispatchPlaying
    <2>1. nextfd = None /\ pc = "playing" /\ toPlayer # <<>> /\ toPlayer' = Tail(toPlayer)
      BY <1>1, <1>5 DEF DispatchPlaying, Dispatch
    <2>2. pc' = AfterPlaying(m)
      BY <1>5, <2>1 DEF DispatchPlaying, Dispatch, AlreadyEnqueued
    <2>3. m.type = "STOP" => AfterPlaying(m) = "idle"
      BY <1>3, <2>1 DEF AfterPlaying, Returned
    <2>4. QED
      BY <1>2, <2>1, <2>2, <2>3
  <1>6. CASE DispatchPaused
    <2>1. nextfd = None /\ pc = "paused" /\ toPlayer # <<>> /\ toPlayer' = Tail(toPlayer)
      BY <1>1, <1>6 DEF DispatchPaused, Dispatch
    <2>2. pc' = AfterPaused(m)
      BY <1>6, <2>1 DEF DispatchPaused, Dispatch, AlreadyEnqueued
    <2>3. m.type = "STOP" => AfterPaused(m) = "idle"
      BY <1>3, <2>1 DEF AfterPaused, Returned
    <2>4. QED
      BY <1>2, <2>1, <2>2, <2>3
  <1>7. CASE PlayNext \/ EndOfTrack \/ DecodeError
    <2>1. UNCHANGED toPlayer /\ pc # "idle"
      BY <1>7 DEF PlayNext, EndOfTrack, DecodeError, Finish
    <2>2. QED
      BY <2>1 DEF LeftIdle
  <1>8. QED
    BY <1>4, <1>5, <1>6, <1>7 DEF PlayerStep, PlayerNext

LEMMA SilentStep ==
    ASSUME IInv, SilentInv, [MonitorNext]_monitorVars
    PROVE  SilentInv'
  <1>1. /\ toPlayer \in Seq(OrderMsg) /\ WellFormed(pl) /\ pl \in PlaylistType
        /\ tail \in {<<>>, <<Msg("SEEK")>>}
    BY DEF IInv, PlayerGood, PlayerTypeOK, WellFormed, MainTypeOK
  <1>2. UNCHANGED <<toPlayer, pc>> => LeftIdle' = LeftIdle
    BY DEF LeftIdle
  <1>3. \A t \in Order \ {"PLAY"} :
           UNCHANGED pc /\ Send(<<Msg(t)>>) /\ (LeftIdle \/ t = "STOP") => LeftIdle'
    BY <1>1, SentSilent DEF Send
  <1>4. CASE Loop /\ UNCHANGED adrift
    <2>1. at # "ready" /\ pc' = pc
      BY <1>4 DEF Loop, MainLoop, AdvanceStep, PreviousStep, LoopStep
    <2>2. \/ at' = "ready" /\ pl'.state = "playing"
          \/ Send(<<>> \o tail)
          \/ UNCHANGED toPlayer
      <3>1. WellFormed(pl) /\ mode.repeatAll \in BOOLEAN
        BY DEF IInv, MainTypeOK, ModeType
      <3>2. PICK q : /\ WellFormed(q)
                     /\ \/ q.state = "stopped" /\ pl' = q /\ Done(<<>>)
                        \/ PlaySong(q) /\ Done(<<PlayMsg(q.cur)>>)
                        \/ UNCHANGED <<toPlayer, at, tail, from>>
        <4>1. CASE AdvanceStep
          BY <3>1, <4>1, AdvanceStepped DEF AdvanceStep, LoopStep, Stepped
        <4>2. CASE PreviousStep
          BY <3>1, <4>2, PreviousStepped DEF PreviousStep, LoopStep, Stepped
        <4>3. QED
          BY <1>4, <4>1, <4>2 DEF Loop, MainLoop
      <3>3. PlaySong(q) => pl'.state = "playing"
        BY <3>2, PlaySongGood
      <3>4. QED
        BY <3>2, <3>3 DEF Done
    <2>3. CASE Send(<<>> \o tail)
      <3>1. CASE tail = <<>>
        <4>1. toPlayer' = toPlayer
          BY <1>1, <2>3, <3>1 DEF Send
        <4>2. QED
          BY <1>2, <1>4, <2>1, <4>1 DEF SilentInv
      <3>2. CASE tail = <<Msg("SEEK")>>
        <4>1. Send(<<Msg("SEEK")>>)
          BY <2>3, <3>2 DEF Send
        <4>2. "SEEK" \in Order \ {"PLAY"}
          BY DEF Order
        <4>3. QED
          BY <1>3, <1>4, <2>1, <4>1, <4>2 DEF SilentInv
      <3>3. QED
        BY <1>1, <3>1, <3>2
    <2>4. QED
      BY <1>2, <1>4, <2>1, <2>2, <2>3 DEF SilentInv
  <1>5. ASSUME Client PROVE at = "ready" /\ pc' = pc
    BY <1>5 DEF Client, CtlPlay, CtlToggle, CtlPause, CtlStop, CtlNext, CtlPrev, Skip, CtlJump,
                CtlSeek, CtlMode, EditQueue, CtlFlush, CtlAdd, CtlShuffle, CtlCommit, Edit, Command
  <1>6. \A ms : /\ pl.state = "stopped" /\ at = "ready" /\ Resume(ms)
                /\ pc' = pc /\ adrift' = adrift
                => SilentInv'
    <2>1. SUFFICES ASSUME NEW ms, pl.state = "stopped", at = "ready", Resume(ms),
                          pc' = pc, adrift' = adrift
                   PROVE  SilentInv'
      OBVIOUS
    <2>2. PlaySong(pl) => pl'.state = "playing"
      BY PlaySongGood DEF IInv
    <2>3. (at' = at /\ pl'.state = "playing") \/ UNCHANGED toPlayer
      BY <2>1, <2>2 DEF Resume
    <2>4. CASE at' = at /\ pl'.state = "playing"
      BY <2>1, <2>4, <1>2 DEF SilentInv, Resume
    <2>5. QED
      BY <1>2, <2>1, <2>3, <2>4 DEF SilentInv
  <1>7. CASE (Play \/ Toggle \/ Pause \/ (Other /\ CtlSeek)) /\ UNCHANGED adrift
    <2>1. at = "ready" /\ pc' = pc
      BY <1>5, <1>7 DEF Play, Toggle, Pause, Client
    <2>2. \A old, new, order : new # "stopped" /\ Switch(old, new, order) => SilentInv'
      BY <2>1, SwitchResult DEF SilentInv
    <2>3. UNCHANGED <<pl, at, tail, from, toPlayer>> => SilentInv'
      BY <1>2, <1>7, <2>1 DEF SilentInv
    <2>4. QED
      BY <1>6, <1>7, <2>1, <2>2, <2>3 DEF Play, Toggle, Pause, CtlPlay, CtlToggle, CtlPause, CtlSeek
  <1>8. CASE Other /\ (CtlMode \/ EditQueue) /\ UNCHANGED adrift
    <2>1. pl'.state = pl.state /\ at' = at
      BY <1>8, EditResult
    <2>2. UNCHANGED <<toPlayer, pc>>
      BY <1>8 DEF CtlMode, EditQueue, CtlFlush, CtlAdd, CtlShuffle, CtlCommit, Edit, Command
    <2>3. QED
      BY <1>2, <1>8, <2>1, <2>2 DEF SilentInv
  <1>s. "STOP" \in Order \ {"PLAY"}
    BY DEF Order
  <1>9. CASE Move
    <2>1. pc' = pc
      BY <1>5, <1>9 DEF Move, Client
    <2>2. CASE CtlNext \/ CtlPrev
      BY <1>3, <1>s, <2>1, <2>2 DEF CtlNext, CtlPrev, Skip, SilentInv
    <2>3. ASSUME NEW S, CtlJump(S) PROVE SilentInv'
      <3>1. at = "ready"
        BY <2>3 DEF CtlJump, Command
      <3>2. PICK i \in FirstIn(pl.songs, S) : \/ PlaySong(PlayAt(pl, i)) /\ UNCHANGED at
                                              \/ Send(<<Msg("STOP")>>)
        BY <2>3 DEF CtlJump
      <3>3. WellFormed(PlayAt(pl, i))
        BY <1>1, <3>2, PlayAtWellFormed DEF FirstIn, Offsets
      <3>4. PlaySong(PlayAt(pl, i)) => pl'.state = "playing"
        BY <3>3, PlaySongGood
      <3>5. QED
        BY <1>3, <1>s, <2>1, <3>1, <3>2, <3>4 DEF SilentInv
    <2>4. QED
      BY <1>9, <2>2, <2>3 DEF Move
  <1>10. CASE Stop /\ adrift' = (adrift /\ pl.state = "stopped")
    <2>1. pc' = pc /\ at = "ready"
      BY <1>5, <1>10 DEF Stop, Client
    <2>2. CASE pl.state = "stopped" /\ UNCHANGED <<pl, at, tail, from, toPlayer>>
      BY <1>2, <1>10, <2>1, <2>2 DEF SilentInv
    <2>3. ASSUME NEW s, Switch(s, "stopped", "STOP") PROVE SilentInv'
      BY <1>3, <1>s, <2>1, <2>3 DEF Switch, SilentInv
    <2>4. QED
      BY <1>10, <2>2, <2>3 DEF Stop, CtlStop
  <1>11. CASE (Err \/ Eof) /\ adrift' = ~LeftIdle
    <2>1. pc' = pc /\ at = "ready"
      BY <1>11 DEF Err, Eof, HandleErr, HandleEof, Receive
    <2>2. PlaySong(pl) => pl'.state = "playing"
      BY PlaySongGood DEF IInv
    <2>3. (at' = at /\ pl'.state = "playing") \/ UNCHANGED toPlayer
      BY <1>11, <2>2 DEF Err, Eof, HandleErr, HandleEof
    <2>4. QED
      BY <1>2, <1>11, <2>1, <2>3 DEF SilentInv
  <1>12. CASE PlayerStep /\ UNCHANGED adrift
    <2>1. UNCHANGED <<pl, at>>
      BY <1>12 DEF PlayerStep, mainVars
    <2>2. QED
      BY <1>12, <2>1, PlayerSilent DEF SilentInv
  <1>13. CASE UNCHANGED monitorVars
    <2>1. UNCHANGED <<pl, at, adrift, toPlayer, pc>>
      BY <1>13 DEF monitorVars, vars, mainVars, playerVars
    <2>2. QED
      BY <1>2, <2>1 DEF SilentInv
  <1>14. QED
    BY <1>4, <1>7, <1>8, <1>9, <1>10, <1>11, <1>12, <1>13 DEF MonitorNext, Observed, Other

(* When the daemon has stopped and all messages are delivered the player   *)
(* is idle, however the daemon came to stop, except where it took the      *)
(* report of a track it had left for that of the track it had ordered      *)
(* since, and found the queue at its end.                                  *)
THEOREM StoppedDaemonIsSilent == MonitorSpec => []StoppedIsIdle
  <1>1. MonitorInit => SilentInv
    <2> SUFFICES ASSUME MonitorInit PROVE LeftIdle
      BY DEF SilentInv
    <2>1. toPlayer = <<>> /\ pc = "idle"
      BY DEF MonitorInit, Init, PlayerInit
    <2>2. 0 \in 0 .. Len(toPlayer) /\ \A j \in 0 + 1 .. Len(toPlayer) : FALSE
      BY <2>1
    <2>3. QED
      BY <2>1, <2>2 DEF LeftIdle
  <1>2. IInv /\ SilentInv /\ [MonitorNext]_monitorVars => SilentInv'
    BY SilentStep
  <1>3. SilentInv => StoppedIsIdle
    <2> SUFFICES ASSUME LeftIdle, toPlayer = <<>> PROVE pc = "idle"
      BY DEF SilentInv, StoppedIsIdle, Quiet
    <2>1. \A k \in 0 .. Len(toPlayer) : k = 0
      OBVIOUS
    <2>2. QED
      BY <2>1 DEF LeftIdle
  <1>4. QED
    BY <1>1, <1>2, <1>3, ObservedInvariance, PTL DEF MonitorSpec

(* Once all messages are delivered the player does what the daemon says:   *)
(* it plays, or has paused, the very song that the daemon reports; or it   *)
(* is idle when the daemon reports "stopped", but for the one exception    *)
(* that StoppedIsIdle names. Whatever crossed on the way: orders that met  *)
(* an EOF or an ERR, songs that could not be opened, edits of the queue.   *)
THEOREM DaemonAndPlayerAgree == MonitorSpec => [](Agreement /\ StoppedIsIdle)
  BY DaemonObserved, ActiveDaemonAgrees, StoppedDaemonIsSilent, PTL
=============================================================================
