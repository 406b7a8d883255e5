--------------------------- MODULE PlaylistProofs ---------------------------
(***************************************************************************)
(* What the operations of the playing queue preserve, for every set of     *)
(* songs and queues of every length.  Module AmusedProofs cites these      *)
(* facts, one per operation, in the proofs about the daemon.               *)
(***************************************************************************)
EXTENDS ShuffleLoop, SequenceTheorems, FiniteSetTheorems, WellFoundedInduction, TLAPS

(* A queue whose offset, if any, is one of its positions.                  *)
WellFormed(q) == q \in PlaylistType /\ q.off \in Offsets(q) \cup {-1}

(* A queue whose offset, if any, is that of the current song.              *)
Matched(q) == q.off # -1 => SongAt(q, q.off) = q.cur

(* The field updates the operations are made of.                           *)
LEMMA UpdateType ==
    ASSUME NEW q \in PlaylistType
    PROVE  /\ \A s \in PlayState : [q EXCEPT !.state = s] \in PlaylistType
           /\ \A x \in Song \cup {None} : [q EXCEPT !.cur = x] \in PlaylistType
           /\ \A l \in Seq(Song) : [q EXCEPT !.songs = l] \in PlaylistType
           /\ \A l \in Seq(Song), i \in Nat \cup {-1} :
                 [q EXCEPT !.songs = l, !.off = i] \in PlaylistType
           /\ \A i \in Nat \cup {-1}, s \in PlayState :
                 [q EXCEPT !.off = i, !.state = s] \in PlaylistType
           /\ \A s \in PlayState, i \in Nat \cup {-1}, x \in Song \cup {None} :
                 [q EXCEPT !.state = s, !.off = i, !.cur = x] \in PlaylistType
  <1>1. \A s \in PlayState : [q EXCEPT !.state = s] \in PlaylistType
    BY DEF PlaylistType
  <1>2. \A x \in Song \cup {None} : [q EXCEPT !.cur = x] \in PlaylistType
    BY DEF PlaylistType
  <1>3. \A l \in Seq(Song) : [q EXCEPT !.songs = l] \in PlaylistType
    BY DEF PlaylistType
  <1>4. \A l \in Seq(Song), i \in Nat \cup {-1} :
           [q EXCEPT !.songs = l, !.off = i] \in PlaylistType
    BY DEF PlaylistType
  <1>5. \A i \in Nat \cup {-1}, s \in PlayState :
           [q EXCEPT !.off = i, !.state = s] \in PlaylistType
    BY DEF PlaylistType
  <1>6. \A s \in PlayState, i \in Nat \cup {-1}, x \in Song \cup {None} :
           [q EXCEPT !.state = s, !.off = i, !.cur = x] \in PlaylistType
    BY DEF PlaylistType
  <1>7. QED
    BY <1>1, <1>2, <1>3, <1>4, <1>5, <1>6

(* Removing an element of a sequence.                                      *)
LEMMA RemoveAtType ==
    ASSUME NEW S, NEW s \in Seq(S), NEW i \in 1 .. Len(s)
    PROVE  RemoveAt(s, i) \in Seq(S) /\ Len(RemoveAt(s, i)) = Len(s) - 1
  <1> DEFINE l == SubSeq(s, 1, i - 1)
             r == SubSeq(s, i + 1, Len(s))
  <1>1. l \in Seq(S) /\ Len(l) = i - 1
    BY SubSeqProperties
  <1>2. r \in Seq(S) /\ Len(r) = Len(s) - i
    BY SubSeqProperties
  <1>3. l \o r \in Seq(S) /\ Len(l \o r) = Len(l) + Len(r)
    BY <1>1, <1>2, ConcatProperties
  <1> HIDE DEF l, r
  <1>4. Len(l) + Len(r) = Len(s) - 1
    BY <1>1, <1>2
  <1> USE DEF l, r
  <1>5. QED
    BY <1>3, <1>4, Zenon DEF RemoveAt

(* Dropping the current song keeps the offset in the shorter queue.        *)
LEMMA DropWellFormed ==
    ASSUME NEW q, WellFormed(q)
    PROVE  WellFormed(DropCurrent(q))
  <1>1. CASE q.off = -1 \/ q.songs = <<>>
    BY <1>1 DEF DropCurrent
  <1>2. CASE q.off # -1 /\ q.songs # <<>>
    <2>1. q.off + 1 \in 1 .. Len(q.songs) /\ q.songs \in Seq(Song)
      BY <1>2 DEF WellFormed, Offsets, PlaylistType
    <2>2. RemoveAt(q.songs, q.off + 1) \in Seq(Song)
      BY <2>1, RemoveAtType
    <2>3. Len(RemoveAt(q.songs, q.off + 1)) = Len(q.songs) - 1
      BY <2>1, RemoveAtType
    <2>4. DropCurrent(q) = [songs |-> RemoveAt(q.songs, q.off + 1),
                            off |-> q.off - 1, cur |-> None, state |-> q.state]
      BY <1>2 DEF WellFormed, DropCurrent, PlaylistType
    <2>5. q.off \in Int /\ q.state \in PlayState
      BY DEF WellFormed, PlaylistType
    <2> DEFINE d == RemoveAt(q.songs, q.off + 1)
    <2>6. q.off - 1 \in 0 .. Len(d) - 1 \cup {-1}
      BY <2>1, <2>3, <2>5
    <2> HIDE DEF d
    <2>7. QED
      BY <2>2, <2>4, <2>5, <2>6 DEF WellFormed, Offsets, PlaylistType, d
  <1>3. QED
    BY <1>1, <1>2

(* Playing at a position makes its song the current one.                   *)
LEMMA PlayAtWellFormed ==
    ASSUME NEW q, q \in PlaylistType, NEW i \in Offsets(q)
    PROVE  /\ WellFormed(PlayAt(q, i)) /\ Matched(PlayAt(q, i))
           /\ PlayAt(q, i).cur \in Song /\ PlayAt(q, i).state = "playing"
  <1>1. /\ q.songs \in Seq(Song) /\ i \in Nat /\ i # -1
        /\ SongAt(q, i) \in Song /\ "playing" \in PlayState
    BY DEF SongAt, Offsets, PlaylistType, PlayState
  <1> DEFINE w == [q EXCEPT !.cur = SongAt(q, i)]
             p == [w EXCEPT !.off = i, !.state = "playing"]
  <1>2. PlayAt(q, i) = p
    BY <1>1 DEF PlayAt, SetSong
  <1>3. w \in PlaylistType
    BY <1>1, UpdateType
  <1>4. p \in PlaylistType
    BY <1>1, <1>3, UpdateType
  <1>5. p.songs = q.songs /\ p.off = i /\ p.cur = SongAt(q, i) /\ p.state = "playing"
    BY DEF PlaylistType
  <1> HIDE DEF p
  <1>6. WellFormed(p) /\ Matched(p)
    BY <1>4, <1>5 DEF WellFormed, Matched, Offsets, SongAt
  <1>7. QED
    BY <1>1, <1>2, <1>5, <1>6

(* playlist_advance and playlist_previous either stop, or play a song.     *)
Stepped(q) == /\ WellFormed(q) /\ Matched(q)
              /\ q.state # "stopped" => q.cur \in Song

LEMMA ExhaustedStepped ==
    ASSUME NEW q, WellFormed(q)
    PROVE  Stepped(Exhausted(q))
  <1> DEFINE e == Exhausted(q)
  <1>1. q \in PlaylistType /\ -1 \in Nat \cup {-1} /\ "stopped" \in PlayState
    BY DEF WellFormed, PlayState
  <1>2. e \in PlaylistType
    BY <1>1, UpdateType DEF Exhausted
  <1>3. e.off = -1 /\ e.state = "stopped"
    BY <1>1 DEF Exhausted, PlaylistType
  <1> HIDE DEF e
  <1>4. Stepped(e)
    BY <1>2, <1>3 DEF WellFormed, Matched, Stepped
  <1>5. QED
    BY <1>4 DEF e

LEMMA EmptyStepped ==
    ASSUME NEW q, WellFormed(q), q.songs = <<>>
    PROVE  Stepped([q EXCEPT !.state = "stopped"])
  BY DEF WellFormed, Matched, Stepped, Offsets, PlaylistType, PlayState

LEMMA AdvanceStepped ==
    ASSUME NEW q, WellFormed(q), NEW r \in BOOLEAN
    PROVE  Stepped(Advance(q, r))
  <1>1. CASE q.songs = <<>>
    BY <1>1, EmptyStepped DEF Advance
  <1>2. CASE q.songs # <<>>
    <2>1. 0 \in Offsets(q) /\ (q.off + 1 # Len(q.songs) => q.off + 1 \in Offsets(q))
      BY <1>2 DEF WellFormed, Offsets, PlaylistType
    <2>2. \/ Advance(q, r) = PlayAt(q, 0)
          \/ q.off + 1 \in Offsets(q) /\ Advance(q, r) = PlayAt(q, q.off + 1)
          \/ Advance(q, r) = Exhausted(q)
      BY <1>2, <2>1 DEF Advance
    <2>3. q \in PlaylistType
      BY DEF WellFormed
    <2>4. QED
      BY <2>1, <2>2, <2>3, PlayAtWellFormed, ExhaustedStepped DEF Stepped
  <1>3. QED
    BY <1>1, <1>2

LEMMA PreviousStepped ==
    ASSUME NEW q, WellFormed(q), NEW r \in BOOLEAN
    PROVE  Stepped(Previous(q, r))
  <1>1. CASE q.songs = <<>>
    BY <1>1, EmptyStepped DEF Previous
  <1>2. CASE q.songs # <<>>
    <2>1. /\ Len(q.songs) - 1 \in Offsets(q)
          /\ q.off - 1 >= 0 => q.off - 1 \in Offsets(q)
      BY <1>2 DEF WellFormed, Offsets, PlaylistType
    <2>2. \/ Previous(q, r) = PlayAt(q, Len(q.songs) - 1)
          \/ q.off - 1 \in Offsets(q) /\ Previous(q, r) = PlayAt(q, q.off - 1)
          \/ Previous(q, r) = Exhausted(q)
      BY <1>2, <2>1 DEF Previous
    <2>3. q \in PlaylistType
      BY DEF WellFormed
    <2>4. QED
      BY <2>1, <2>2, <2>3, PlayAtWellFormed, ExhaustedStepped DEF Stepped
  <1>3. QED
    BY <1>1, <1>2

(* The song an advance leaves behind: the one at the offset, or the last   *)
(* one of a queue without position, since the advance lands on the first.  *)
Behind(q) == SongAt(q, IF q.off = -1 THEN Len(q.songs) - 1 ELSE q.off)

Before(q, i) == IF i = 0 THEN Len(q.songs) - 1 ELSE i - 1

LEMMA AdvanceLands ==
    ASSUME NEW q, WellFormed(q), NEW r \in BOOLEAN, Advance(q, r).state # "stopped"
    PROVE  LET e == Advance(q, r) IN
           /\ q.songs # <<>> /\ e.off \in Offsets(e)
           /\ SongAt(e, Before(e, e.off)) = Behind(q)
  <1>1. q.songs \in Seq(Song) /\ q.off \in Offsets(q) \cup {-1} /\ q \in PlaylistType
    BY DEF WellFormed, PlaylistType
  <1>2. q.songs # <<>>
    BY <1>1 DEF Advance, PlaylistType
  <1>3. PICK i \in Offsets(q) :
           /\ Advance(q, r) = PlayAt(q, i)
           /\ i = IF q.off + 1 = Len(q.songs) THEN 0 ELSE q.off + 1
    <2>1. 0 \in Offsets(q) /\ (q.off + 1 # Len(q.songs) => q.off + 1 \in Offsets(q))
      BY <1>1, <1>2 DEF Offsets
    <2>2. Exhausted(q).state = "stopped"
      BY <1>1 DEF Exhausted, PlaylistType
    <2>3. QED
      BY <1>2, <2>1, <2>2 DEF Advance
  <1>4. PlayAt(q, i).songs = q.songs /\ PlayAt(q, i).off = i
    BY <1>1 DEF PlayAt, SetSong, PlaylistType
  <1>5. Before(q, i) = IF q.off = -1 THEN Len(q.songs) - 1 ELSE q.off
    BY <1>1, <1>2, <1>3 DEF Before, Offsets
  <1>6. QED
    BY <1>2, <1>3, <1>4, <1>5 DEF Behind, SongAt, Offsets, Before

LEMMA RemoveAtElements ==
    ASSUME NEW S, NEW s \in Seq(S), NEW i \in 1 .. Len(s), NEW k \in 1 .. Len(s) - 1
    PROVE  RemoveAt(s, i)[k] = IF k < i THEN s[k] ELSE s[k + 1]
  <1> DEFINE l == SubSeq(s, 1, i - 1)
             r == SubSeq(s, i + 1, Len(s))
  <1>1. l \in Seq(S) /\ Len(l) = i - 1 /\ \A j \in 1 .. i - 1 : l[j] = s[j]
    BY SubSeqProperties
  <1>2. r \in Seq(S) /\ Len(r) = Len(s) - i /\ \A j \in 1 .. Len(s) - i : r[j] = s[i + j]
    BY SubSeqProperties
  <1>3. RemoveAt(s, i) = l \o r
    BY Zenon DEF RemoveAt
  <1> HIDE DEF l, r
  <1>4. (l \o r)[k] = IF k <= Len(l) THEN l[k] ELSE r[k - Len(l)]
    BY <1>1, <1>2
  <1>5. CASE k < i
    BY <1>1, <1>3, <1>4, <1>5
  <1>6. CASE ~(k < i)
    <2>1. k - (i - 1) \in 1 .. Len(s) - i /\ i + (k - (i - 1)) = k + 1
      BY <1>6
    <2>2. (l \o r)[k] = r[k - (i - 1)]
      BY <1>1, <1>4, <1>6
    <2>3. QED
      BY <1>2, <1>3, <1>6, <2>1, <2>2
  <1>7. QED
    BY <1>5, <1>6

(* Dropping the song just landed on leaves the same one behind.            *)
LEMMA DropStaysBehind ==
    ASSUME NEW q, WellFormed(q), q.off # -1, DropCurrent(q).songs # <<>>
    PROVE  Behind(DropCurrent(q)) = SongAt(q, Before(q, q.off))
  <1>1. q.songs \in Seq(Song) /\ q.off \in 0 .. Len(q.songs) - 1 /\ q.songs # <<>>
    BY DEF WellFormed, Offsets, PlaylistType
  <1> DEFINE d == DropCurrent(q)
             s == RemoveAt(q.songs, q.off + 1)
  <1>2. d.songs = s /\ d.off = q.off - 1
    BY <1>1 DEF DropCurrent, WellFormed, PlaylistType
  <1>3. s \in Seq(Song) /\ Len(s) = Len(q.songs) - 1
    BY <1>1, RemoveAtType
  <1>4. \A k \in 1 .. Len(q.songs) - 1 :
           s[k] = IF k < q.off + 1 THEN q.songs[k] ELSE q.songs[k + 1]
    BY <1>1, RemoveAtElements
  <1>s. s # <<>>
    BY <1>2
  <1> HIDE DEF s, d
  <1>5. Len(s) \in Nat \ {0}
    <2>1. s \in Seq(Song)
      BY <1>3
    <2>2. QED
      BY <1>s, <2>1, EmptySeq, Zenon
  <1>6. CASE q.off = 0
    <2>1. Behind(d) = s[Len(s)]
      BY <1>2, <1>5, <1>6 DEF Behind, SongAt
    <2>2. s[Len(s)] = q.songs[Len(q.songs)]
      <3>1. PICK n \in Nat : n = Len(q.songs)
        BY <1>1
      <3>0. Len(s) = n - 1
        BY <1>3, <3>1
      <3>2. Len(s) = n - 1 /\ n - 1 \in 1 .. n - 1 /\ ~(n - 1 < q.off + 1)
        BY <3>0, <1>5, <1>6
      <3>3. s[n - 1] = q.songs[(n - 1) + 1]
        BY <1>4, <3>1, <3>2
      <3>4. QED
        BY <3>1, <3>2, <3>3
    <2>3. QED
      BY <1>1, <1>6, <2>1, <2>2 DEF Before, SongAt, d
  <1>7. CASE q.off # 0
    <2>1. Behind(d) = s[q.off]
      BY <1>1, <1>2, <1>7 DEF Behind, SongAt
    <2>2. s[q.off] = q.songs[q.off]
      BY <1>1, <1>4, <1>7
    <2>3. QED
      BY <1>1, <1>7, <2>1, <2>2 DEF Before, SongAt, d
  <1>8. QED
    BY <1>6, <1>7

-----------------------------------------------------------------------------
(* The commands that edit the queue.  Each leaves the state alone, and the *)
(* current song of a queue that is not stopped.                            *)
Edited(q, e) == /\ WellFormed(e)
                /\ e.state = q.state
                /\ q.state # "stopped" => e.cur = q.cur

LEMMA TruncateEdited ==
    ASSUME NEW q, WellFormed(q)
    PROVE  Edited(q, Truncate(q)) /\ Matched(Truncate(q))
  <1> DEFINE e == Truncate(q)
  <1>1. q \in PlaylistType /\ -1 \in Nat \cup {-1} /\ <<>> \in Seq(Song)
    BY DEF WellFormed
  <1>2. e \in PlaylistType
    BY <1>1, UpdateType DEF Truncate
  <1>3. e.off = -1 /\ e.cur = q.cur /\ e.state = q.state
    BY <1>1 DEF Truncate, PlaylistType
  <1> HIDE DEF e
  <1>4. Edited(q, e) /\ Matched(e)
    BY <1>2, <1>3 DEF WellFormed, Matched, Edited
  <1>5. QED
    BY <1>4 DEF e

LEMMA EnqueueEdited ==
    ASSUME NEW q, WellFormed(q), NEW s \in Song
    PROVE  /\ Edited(q, Enqueue(q, s))
           /\ Matched(q) => Matched(Enqueue(q, s))
  <1> DEFINE songs == Append(q.songs, s)
             e == Enqueue(q, s)
  <1>1. q \in PlaylistType /\ q.songs \in Seq(Song)
    BY DEF WellFormed, PlaylistType
  <1>2. /\ songs \in Seq(Song) /\ Len(songs) = Len(q.songs) + 1
        /\ \A i \in 1 .. Len(q.songs) : songs[i] = q.songs[i]
    BY <1>1
  <1>3. e = [q EXCEPT !.songs = songs]
    BY DEF Enqueue
  <1> HIDE DEF songs, e
  <1>4. e.songs = songs /\ e.off = q.off /\ e.cur = q.cur /\ e.state = q.state
    BY <1>1, <1>3 DEF PlaylistType
  <1>5. e \in PlaylistType
    BY <1>1, <1>2, <1>3 DEF PlaylistType
  <1>6. Len(q.songs) \in Nat /\ q.off \in Int
    BY <1>1 DEF PlaylistType
  <1>7. q.off # -1 => q.off \in 0 .. Len(q.songs) - 1
    BY DEF WellFormed, Offsets
  <1>8. e.off \in Offsets(e) \cup {-1}
    BY <1>2, <1>4, <1>6, <1>7 DEF Offsets
  <1>9. e.off # -1 => SongAt(e, e.off) = SongAt(q, q.off)
    <2>1. SUFFICES ASSUME q.off # -1 PROVE songs[q.off + 1] = q.songs[q.off + 1]
      BY <1>4 DEF SongAt
    <2>2. q.off + 1 \in 1 .. Len(q.songs)
      BY <1>6, <1>7, <2>1
    <2>3. QED
      BY <1>2, <2>2
  <1>10. Edited(q, e)
    BY <1>4, <1>5, <1>8 DEF Edited, WellFormed
  <1>11. Matched(q) => Matched(e)
    BY <1>4, <1>9 DEF Matched
  <1>12. QED
    BY <1>10, <1>11 DEF e

(* A load puts the queue at a position it has, and without an explicit     *)
(* position at one that holds the current song.                            *)
LEMMA SwapEdited ==
    ASSUME NEW q, WellFormed(q), NEW new \in Seq(Song), NEW off,
           NEW i \in SwapOffset(q, new, off)
    PROVE  /\ Edited(q, Swap(q, new, i))
           /\ off = -1 => Matched(Swap(q, new, i))
  <1>1. i \in 0 .. Len(new) - 1 \/ i = -1
    BY DEF SwapOffset, FirstIn
  <1>2. off = -1 /\ i # -1 => new[i + 1] = q.cur
    BY DEF SwapOffset, FirstIn
  <1> DEFINE w == Swap(q, new, i)
             song == IF i = -1 THEN None ELSE new[i + 1]
  <1>3. song \in Song \cup {None} /\ i \in Nat \cup {-1}
    BY <1>1
  <1>4. w = [songs |-> new, off |-> i, state |-> q.state,
             cur |-> IF q.state = "stopped" THEN song ELSE q.cur]
    BY DEF WellFormed, Swap, Truncate, SetSong, SongAt, PlaylistType
  <1>5. w \in PlaylistType
    BY <1>3, <1>4 DEF WellFormed, PlaylistType
  <1>6. w.off \in Offsets(w) \cup {-1}
    BY <1>1, <1>4 DEF Offsets
  <1>7. w.state = q.state /\ (q.state # "stopped" => w.cur = q.cur)
    BY <1>4
  <1>8. off = -1 /\ w.off # -1 => SongAt(w, w.off) = w.cur
    BY <1>2, <1>4 DEF SongAt
  <1>9. QED
    BY <1>5, <1>6, <1>7, <1>8 DEF WellFormed, Matched, Edited

LEMMA PinnedEdited ==
    ASSUME NEW q, WellFormed(q), q.songs # <<>>, NEW all \in BOOLEAN
    PROVE  /\ Edited(q, Pinned(q, all))
           /\ Len(Pinned(q, all).songs) = Len(q.songs)
           /\ Pinned(q, all).off \notin ShuffleRange(q, all)
           /\ Matched(q) => Matched(Pinned(q, all))
  <1> DEFINE st == ShuffleStart(q, all)
  <1>1. CASE q.off = -1
    BY <1>1 DEF WellFormed, Edited, Pinned, ShuffleRange, PlaylistType
  <1>2. CASE q.off # -1
    <2>1. /\ q.songs \in Seq(Song) /\ q.off \in 0 .. Len(q.songs) - 1
          /\ st \in 0 .. Len(q.songs) - 1 /\ q.off >= 0
      BY <1>2 DEF WellFormed, Offsets, ShuffleStart, PlaylistType
    <2>2. /\ Exchange(q.songs, q.off, st) \in Seq(Song)
          /\ Len(Exchange(q.songs, q.off, st)) = Len(q.songs)
          /\ Exchange(q.songs, q.off, st)[st + 1] = q.songs[q.off + 1]
      BY <2>1 DEF Exchange
    <2> DEFINE w == Pinned(q, all)
               ex == Exchange(q.songs, q.off, st)
    <2>3. w = [songs |-> ex, off |-> st, cur |-> q.cur, state |-> q.state]
      BY <2>1 DEF Pinned, WellFormed, PlaylistType
    <2>4. w \in PlaylistType
      BY <2>1, <2>2, <2>3 DEF WellFormed, PlaylistType
    <2>5. w.off \in Offsets(w) \cup {-1} /\ Len(w.songs) = Len(q.songs)
      BY <2>1, <2>2, <2>3 DEF Offsets
    <2>6. w.off \notin ShuffleRange(q, all)
      BY <2>1, <2>3 DEF ShuffleRange
    <2>7. SongAt(w, w.off) = SongAt(q, q.off) /\ w.cur = q.cur /\ w.state = q.state
      BY <2>2, <2>3 DEF SongAt
    <2>8. QED
      BY <1>2, <2>4, <2>5, <2>6, <2>7 DEF WellFormed, Matched, Edited
  <1>3. QED
    BY <1>1, <1>2

(* A shuffle keeps the current song at the queue's position.               *)
LEMMA ShuffleEdited ==
    ASSUME NEW q, WellFormed(q), NEW all \in BOOLEAN, NEW e \in Shuffles(q, all)
    PROVE  Edited(q, e) /\ (Matched(q) => Matched(e))
  <1>1. CASE q.songs = <<>>
    BY <1>1 DEF Shuffles, Edited
  <1>2. CASE q.songs # <<>>
    <2> DEFINE w == Pinned(q, all)
               R == ShuffleRange(q, all)
    <2>1. PICK p \in [R -> R] : e = Permuted(w, p)
      BY <1>2 DEF Shuffles, Cycles
    <2>2. /\ Edited(q, w) /\ Len(w.songs) = Len(q.songs) /\ w.off \notin R
          /\ Matched(q) => Matched(w)
      BY <1>2, PinnedEdited
    <2>3. R \subseteq 0 .. Len(q.songs) - 1
      BY <1>2 DEF WellFormed, ShuffleRange, ShuffleStart, Offsets, PlaylistType
    <2> DEFINE new == [k \in 1 .. Len(w.songs) |->
                          IF k - 1 \in R THEN w.songs[p[k - 1] + 1] ELSE w.songs[k]]
    <2>4. w \in PlaylistType /\ w.songs \in Seq(Song)
      BY <2>2 DEF Edited, WellFormed, PlaylistType
    <2>5. \A k \in 1 .. Len(w.songs) : new[k] \in Song
      <3> SUFFICES ASSUME NEW k \in 1 .. Len(w.songs) PROVE new[k] \in Song
        OBVIOUS
      <3>1. CASE k - 1 \in R
        <4>1. p[k - 1] + 1 \in 1 .. Len(w.songs)
          BY <3>1, <2>1, <2>2, <2>3, <2>4
        <4>2. QED
          BY <3>1, <4>1, <2>4
      <3>2. CASE k - 1 \notin R
        BY <3>2, <2>4
      <3>3. QED
        BY <3>1, <3>2
    <2>6. new \in Seq(Song) /\ Len(new) = Len(w.songs)
      <3>1. Len(w.songs) \in Nat
        BY <2>4
      <3>2. new \in [1 .. Len(w.songs) -> Song]
        BY <2>5
      <3> HIDE DEF new
      <3>3. QED
        BY <3>1, <3>2
    <2>7. w.off # -1 => new[w.off + 1] = w.songs[w.off + 1]
      BY <2>2, <2>4, <2>6 DEF Edited, WellFormed, Offsets, PlaylistType
    <2>8. e = [w EXCEPT !.songs = new]
      BY <2>1 DEF Permuted
    <2> HIDE DEF w, R, new
    <2>9. e \in PlaylistType /\ e.songs = new
      BY <2>4, <2>6, <2>8 DEF PlaylistType
    <2>11. e.cur = w.cur /\ e.state = w.state /\ e.off = w.off
      BY <2>4, <2>8 DEF PlaylistType
    <2>10. e.off \in Offsets(e) \cup {-1}
      BY <2>2, <2>6, <2>9, <2>11 DEF Edited, WellFormed, Offsets
    <2>12. e.off # -1 => SongAt(e, e.off) = SongAt(w, w.off)
      BY <2>7, <2>9, <2>11 DEF SongAt
    <2>13. QED
      BY <2>2, <2>9, <2>10, <2>11, <2>12 DEF Edited, WellFormed, Matched
  <1>3. QED
    BY <1>1, <1>2

-----------------------------------------------------------------------------
(* The shuffle, turn by turn.  A set of numbers that has 0 and with each   *)
(* number the next one has them all.                                       *)
LEMMA Induct ==
    ASSUME NEW S, 0 \in S, \A m \in Nat : m \in S => m + 1 \in S
    PROVE  Nat \subseteq S
  <1> DEFINE T == Nat \ S
  <1>1. ASSUME T # {}
        PROVE  \E x \in T : \A y \in T : ~(<<y, x>> \in OpToRel(<, Nat))
    <2> HIDE DEF T
    <2>1. T \subseteq Nat
      BY DEF T
    <2>2. QED
      BY <1>1, <2>1, NatLessThanWellFounded, WFMin
  <1>2. ASSUME NEW x \in T PROVE x - 1 \in T /\ <<x - 1, x>> \in OpToRel(<, Nat)
    BY DEF OpToRel
  <1>3. QED
    BY <1>1, <1>2

(* The cycle q of the places up to n, with n + 1 put in before j.          *)
Spliced(q, start, n, j) ==
    [x \in start .. n + 1 |-> IF x = n + 1 THEN j
                              ELSE IF q[x] = j THEN n + 1 ELSE q[x]]

(* A cycle reaches every place.                                            *)
LEMMA CycleIsOnto ==
    ASSUME NEW R, NEW p \in Cycles(R), NEW y \in R
    PROVE  \E x \in R : p[x] = y
  <1> DEFINE S == {p[x] : x \in R}
  <1>1. p \in [R -> R]
    BY DEF Cycles
  <1>2. S \in SUBSET R /\ S # {} /\ \A x \in S : p[x] \in S
    BY <1>1
  <1>3. S = R
    <2> HIDE DEF S
    <2>1. QED
      BY <1>2 DEF Cycles
  <1>4. QED
    BY <1>3

(* A cycle reaches no place twice, when they are finitely many.            *)
LEMMA CycleIsOneToOne ==
    ASSUME NEW R, IsFiniteSet(R), NEW p \in Cycles(R)
    PROVE  \A x, y \in R : p[x] = p[y] => x = y
  <1>1. p \in [R -> R]
    BY DEF Cycles
  <1>2. p \in Surjection(R, R)
    BY <1>1, CycleIsOnto DEF Surjection
  <1>3. p \in Injection(R, R)
    BY <1>2, FS_SurjSameCardinalityImpliesInj
  <1>4. QED
    BY <1>3 DEF Injection, IsInjective

(* Putting a place into a cycle makes a cycle: a set that it does not leave *)
(* has, without the new place, all of the old ones.                        *)
LEMMA SplicedIsCycle ==
    ASSUME NEW start \in Int, NEW n \in Int, start <= n, NEW j \in start .. n,
           NEW q \in Cycles(start .. n)
    PROVE  Spliced(q, start, n, j) \in Cycles(start .. n + 1)
  <1> DEFINE A == start .. n
             B == start .. n + 1
             p == Spliced(q, start, n, j)
  <1>1. q \in [A -> A] /\ j \in A /\ A \subseteq B /\ B = A \cup {n + 1}
        /\ n + 1 \notin A
    BY DEF Cycles
  <1>2. p \in [B -> B] /\ p[n + 1] = j
        /\ \A x \in A : p[x] = IF q[x] = j THEN n + 1 ELSE q[x]
    <2>1. \A x \in B : (IF x = n + 1 THEN j ELSE IF q[x] = j THEN n + 1 ELSE q[x]) \in B
      BY <1>1
    <2>2. QED
      BY <1>1, <2>1 DEF Spliced
  <1>3. \E x \in A : q[x] = j
    <2>1. q \in Cycles(A)
      OBVIOUS
    <2> HIDE DEF A
    <2>2. QED
      BY <1>1, <2>1, CycleIsOnto
  <1>4. ASSUME NEW S \in SUBSET B, S # {}, \A x \in S : p[x] \in S
        PROVE  S = B
    <2> HIDE DEF p, A, B
    <2> DEFINE T == S \cap A
    <2>1. T # {}
      <3>1. n + 1 \in S => j \in S
        BY <1>2, <1>4
      <3>2. PICK x \in S : TRUE
        BY <1>4, Zenon
      <3>3. x = n + 1 \/ x \in A
        BY <1>1
      <3>4. QED
        BY <1>1, <3>1, <3>2, <3>3
    <2>2. \A x \in T : q[x] \in T
      <3> SUFFICES ASSUME NEW x \in T PROVE q[x] \in T
        OBVIOUS
      <3>1. CASE q[x] = j
        <4>1. n + 1 \in S
          BY <1>2, <1>4, <3>1
        <4>2. QED
          BY <1>1, <1>2, <1>4, <3>1, <4>1
      <3>2. CASE q[x] # j
        BY <1>1, <1>2, <1>4, <3>2
      <3>3. QED
        BY <3>1, <3>2
    <2>3. T = A
      <3>1. T \in SUBSET A
        OBVIOUS
      <3> HIDE DEF T
      <3>2. QED
        BY <2>1, <2>2, <3>1 DEF Cycles, A
    <2>4. n + 1 \in S
      BY <1>2, <1>4, <1>3, <2>3
    <2>5. QED
      BY <1>1, <2>3, <2>4
  <1>5. QED
    BY <1>2, <1>4 DEF Cycles

(* Every cycle is one that its last place was put into.                    *)
LEMMA CycleIsSpliced ==
    ASSUME NEW start \in Int, NEW n \in Int, start <= n,
           NEW p \in Cycles(start .. n + 1)
    PROVE  \E j \in start .. n, q \in Cycles(start .. n) : p = Spliced(q, start, n, j)
  <1> DEFINE A == start .. n
             B == start .. n + 1
             j == p[n + 1]
             q == [x \in A |-> IF p[x] = n + 1 THEN j ELSE p[x]]
  <1>1. p \in [B -> B] /\ A \subseteq B /\ B = A \cup {n + 1} /\ n + 1 \notin A /\ A # {}
    BY DEF Cycles
  <1>2. j \in A
    <2>1. CASE j = n + 1
      <3>1. {n + 1} \in SUBSET B /\ {n + 1} # {} /\ \A x \in {n + 1} : p[x] \in {n + 1}
        BY <1>1, <2>1
      <3>2. {n + 1} = B
        BY <3>1 DEF Cycles
      <3>3. QED
        BY <1>1, <3>2
    <2>2. QED
      BY <1>1, <2>1
  <1>3. q \in [A -> A] /\ \A x \in A : q[x] = IF p[x] = n + 1 THEN j ELSE p[x]
    <2> HIDE DEF j
    <2>1. QED
      BY <1>1, <1>2
  <1>4. ASSUME NEW S \in SUBSET A, S # {}, \A x \in S : q[x] \in S
        PROVE  S = A
    <2> HIDE DEF A, B, q
    <2>1. CASE \E x \in S : p[x] = n + 1
      <3> DEFINE T == S \cup {n + 1}
      <3>1. j \in S
        BY <1>3, <1>4, <2>1
      <3>2. T \in SUBSET B /\ T # {} /\ \A x \in T : p[x] \in T
        BY <1>1, <1>3, <1>4, <3>1
      <3>3. T = B
        <4> HIDE DEF T
        <4>1. QED
          BY <3>2 DEF Cycles, B
      <3>4. QED
        BY <1>1, <3>3
    <2>2. CASE ~ \E x \in S : p[x] = n + 1
      <3>1. S \in SUBSET B /\ \A x \in S : p[x] \in S
        BY <1>1, <1>3, <1>4, <2>2
      <3>2. S = B
        BY <1>4, <3>1 DEF Cycles, B
      <3>3. QED
        BY <1>1, <3>2
    <2>3. QED
      BY <2>1, <2>2
  <1>5. q \in Cycles(A)
    BY <1>3, <1>4 DEF Cycles
  <1>6. \A x, y \in B : p[x] = p[y] => x = y
    <2>1. IsFiniteSet(B)
      BY FS_Interval
    <2>2. QED
      BY <2>1, CycleIsOneToOne
  <1>7. p = Spliced(q, start, n, j)
    <2>1. \A x \in B : p[x] = IF x = n + 1 THEN j ELSE IF q[x] = j THEN n + 1 ELSE q[x]
      <3> SUFFICES ASSUME NEW x \in A
                   PROVE  p[x] = IF q[x] = j THEN n + 1 ELSE q[x]
        BY <1>1
      <3>1. x \in B /\ n + 1 \in B /\ x # n + 1
        BY <1>1
      <3>2. p[x] # j
        BY <1>6, <3>1
      <3>3. q[x] = IF p[x] = n + 1 THEN j ELSE p[x]
        BY <1>3
      <3> HIDE DEF q, j
      <3>4. QED
        BY <3>2, <3>3
    <2> HIDE DEF q, j
    <2>2. QED
      BY <1>1, <2>1 DEF Spliced
  <1>8. QED
    BY <1>2, <1>5, <1>7

(* Nothing moves where there is one place, or none.                        *)
LEMMA CycleOfOne == ASSUME NEW x PROVE Cycles({x}) = {[y \in {x} |-> x]}
  <1>1. \A p \in Cycles({x}) : p = [y \in {x} |-> x]
    BY DEF Cycles
  <1>2. [y \in {x} |-> x] \in Cycles({x})
    BY DEF Cycles
  <1>3. QED
    BY <1>1, <1>2

LEMMA CycleOfNone == ASSUME NEW p \in Cycles({}) PROVE DOMAIN p = {}
  BY DEF Cycles

(* Queues of one length.                                                   *)
QueuesOf(S, L, O, C, Z) ==
    [songs : {s \in Seq(S) : Len(s) = L}, off : O, cur : C, state : Z]

(* A turn keeps the length of the queue, and all but its songs.            *)
LEMMA TurnedIsQueue ==
    ASSUME NEW S, NEW L \in Nat, NEW O, NEW C, NEW Z, NEW w \in QueuesOf(S, L, O, C, Z),
           NEW i \in 0 .. L - 1, NEW j \in 0 .. L - 1
    PROVE  /\ Turned(w, i, j) \in QueuesOf(S, L, O, C, Z)
           /\ Turned(w, i, j).songs = Exchange(w.songs, i, j)
           /\ Turned(w, i, j).off = w.off /\ Turned(w, i, j).cur = w.cur
           /\ Turned(w, i, j).state = w.state
  <1> DEFINE s == w.songs
             t == Exchange(s, i, j)
  <1>1. s \in Seq(S) /\ Len(s) = L /\ w \in [songs : Seq(S), off : O, cur : C, state : Z]
    BY DEF QueuesOf
  <1>2. t \in [1 .. L -> S]
    BY <1>1 DEF Exchange
  <1> HIDE DEF t
  <1>3. t \in Seq(S) /\ Len(t) = L
    BY <1>2
  <1>4. Turned(w, i, j) = [w EXCEPT !.songs = t]
    BY DEF Turned, t
  <1>5. QED
    BY <1>1, <1>3, <1>4 DEF QueuesOf, t

(* A cycle of the places below n + 1 after a turn that exchanges n + 1 and *)
(* j is the cycle with n + 1 put in before j.                              *)
LEMMA TurnThenCycle ==
    ASSUME NEW S, NEW L \in Nat, NEW O, NEW C, NEW Z, NEW w \in QueuesOf(S, L, O, C, Z),
           NEW start \in Nat, NEW n \in Nat, start <= n, n + 1 < L, NEW j \in start .. n,
           NEW q \in [start .. n -> start .. n]
    PROVE  Permuted(Turned(w, n + 1, j), q) = Permuted(w, Spliced(q, start, n, j))
  <1> DEFINE s == w.songs
             e == Exchange(s, n + 1, j)
             p == Spliced(q, start, n, j)
             l == [k \in 1 .. L |-> IF k - 1 \in start .. n THEN e[q[k - 1] + 1] ELSE e[k]]
             r == [k \in 1 .. L |-> IF k - 1 \in start .. n + 1 THEN s[p[k - 1] + 1] ELSE s[k]]
  <1>1. s \in Seq(S) /\ Len(s) = L /\ w \in [songs : Seq(S), off : O, cur : C, state : Z]
    BY DEF QueuesOf
  <1>2. \A k \in 1 .. L : e[k] = IF k = n + 2 THEN s[j + 1]
                                 ELSE IF k = j + 1 THEN s[n + 2] ELSE s[k]
    BY <1>1 DEF Exchange
  <1>3. DOMAIN p = start .. n + 1 /\ DOMAIN q = start .. n
    BY DEF Spliced
  <1>4. \A x \in start .. n + 1 :
            p[x] = IF x = n + 1 THEN j ELSE IF q[x] = j THEN n + 1 ELSE q[x]
    BY DEF Spliced
  <1> HIDE DEF e, p
  <1>5. ASSUME NEW k \in 1 .. L
        PROVE  l[k] = r[k]
    <2>1. CASE k - 1 \in start .. n
      <3>1. k - 1 \in start .. n + 1 /\ k - 1 # n + 1 /\ q[k - 1] \in start .. n
        BY <2>1
      <3>2. e[q[k - 1] + 1] = IF q[k - 1] = j THEN s[n + 2] ELSE s[q[k - 1] + 1]
        <4> HIDE DEF s
        <4>1. PICK x \in start .. n : x = q[k - 1]
          BY <3>1
        <4>2. x + 1 \in 1 .. L /\ x + 1 # n + 2 /\ (x + 1 = j + 1 <=> x = j)
          OBVIOUS
        <4>3. e[x + 1] = IF x = j THEN s[n + 2] ELSE s[x + 1]
          BY <1>2, <4>2
        <4>4. QED
          BY <4>1, <4>3
      <3>3. p[k - 1] = IF q[k - 1] = j THEN n + 1 ELSE q[k - 1]
        BY <1>4, <3>1
      <3>4. l[k] = e[q[k - 1] + 1] /\ r[k] = s[p[k - 1] + 1]
        BY <2>1, <3>1
      <3> HIDE DEF l, r, s
      <3>5. CASE q[k - 1] = j
        <4>1. p[k - 1] + 1 = n + 2
          BY <3>3, <3>5
        <4>2. QED
          BY <3>2, <3>4, <3>5, <4>1
      <3>6. CASE q[k - 1] # j
        <4>1. e[q[k - 1] + 1] = s[q[k - 1] + 1]
          BY ONLY <3>2, <3>6
        <4>2. p[k - 1] = q[k - 1]
          BY ONLY <3>3, <3>6
        <4>3. QED
          BY ONLY <3>4, <4>1, <4>2
      <3>7. QED
        BY <3>5, <3>6
    <2>2. CASE k - 1 = n + 1
      <3>1. k - 1 \in start .. n + 1 /\ k - 1 \notin start .. n /\ k = n + 2 /\ j + 1 \in 1 .. L
        BY <2>2
      <3>2. l[k] = e[k] /\ r[k] = s[p[k - 1] + 1]
        BY ONLY <3>1
      <3>3. e[k] = s[j + 1]
        BY <1>2, <3>1
      <3>4. p[k - 1] = j
        BY <1>4, <2>2, <3>1
      <3>5. QED
        BY ONLY <3>2, <3>3, <3>4
    <2>3. CASE k - 1 \notin start .. n + 1
      BY <1>2, <2>3
    <2>4. QED
      BY <2>1, <2>2, <2>3
  <1>6. l = r
    BY <1>5
  <1>7. Permuted(w, p) = [w EXCEPT !.songs = r]
    BY <1>1, <1>3 DEF Permuted
  <1>8. Permuted(Turned(w, n + 1, j), q) = [w EXCEPT !.songs = l]
    <2>1. Turned(w, n + 1, j) = [w EXCEPT !.songs = e]
      BY DEF Turned, e
    <2>2. Len(e) = L
      <3>1. n + 1 \in 0 .. L - 1 /\ j \in 0 .. L - 1
        OBVIOUS
      <3>2. e \in {x \in Seq(S) : Len(x) = L}
        BY <3>1, TurnedIsQueue DEF QueuesOf, e
      <3>3. QED
        BY <3>2
    <2>3. QED
      BY <1>1, <1>3, <2>1, <2>2 DEF Permuted
  <1>9. QED
    BY <1>6, <1>7, <1>8 DEF p

(* The loop from n down to start, begun with the queues of W.              *)
Unrolled(f, W, start, n) ==
    /\ f[n] = W
    /\ \A i \in start .. n - 1 : f[i] = Turns(f[i + 1], start, i + 1)

Cycled(W, start, n) == { Permuted(w, p) : w \in W, p \in Cycles(start .. n) }

(* A loop that has no turns leaves the queues as they are.                 *)
LEMMA NoTurns ==
    ASSUME NEW S, NEW L \in Nat, NEW O, NEW C, NEW Z, NEW W \in SUBSET QueuesOf(S, L, O, C, Z),
           NEW start \in Nat
    PROVE  Cycled(W, start, start) = W
  <1> DEFINE id == [y \in {start} |-> start]
  <1>1. start .. start = {start}
    OBVIOUS
  <1>2. Cycles(start .. start) = {id}
    BY <1>1, CycleOfOne
  <1>3. ASSUME NEW w \in W PROVE Permuted(w, id) = w
    <2> DEFINE s == w.songs
               t == [k \in 1 .. L |-> IF k - 1 \in {start} THEN s[id[k - 1] + 1] ELSE s[k]]
    <2>1. s \in Seq(S) /\ Len(s) = L /\ w \in [songs : Seq(S), off : O, cur : C, state : Z]
      BY DEF QueuesOf
    <2>2. t = s
      BY <2>1
    <2>3. DOMAIN id = {start}
      OBVIOUS
    <2>4. Permuted(w, id) = [w EXCEPT !.songs = t]
      <3> HIDE DEF id
      <3>1. QED
        BY <2>1, <2>3 DEF Permuted
    <2> HIDE DEF t
    <2>5. QED
      BY <2>1, <2>2, <2>4
  <1> HIDE DEF id
  <1>4. QED
    BY <1>2, <1>3 DEF Cycled

(* What the cycles of n places make of a queue after the turn from n + 1 is *)
(* what the cycles of n + 1 places make of it.                             *)
LEMMA OneTurn ==
    ASSUME NEW S, NEW L \in Nat, NEW O, NEW C, NEW Z, NEW W \in SUBSET QueuesOf(S, L, O, C, Z),
           NEW start \in Nat, NEW n \in Nat, start <= n, n + 1 < L
    PROVE  /\ Turns(W, start, n + 1) \in SUBSET QueuesOf(S, L, O, C, Z)
           /\ Cycled(Turns(W, start, n + 1), start, n) = Cycled(W, start, n + 1)
  <1> DEFINE V == Turns(W, start, n + 1)
  <1>0. start .. n + 1 - 1 = start .. n
    OBVIOUS
  <1>1. V = {Turned(w, n + 1, j) : w \in W, j \in start .. n}
    BY <1>0 DEF Turns, Draws
  <1>2. V \in SUBSET QueuesOf(S, L, O, C, Z)
    <2>1. n + 1 \in 0 .. L - 1 /\ start .. n \subseteq 0 .. L - 1
      OBVIOUS
    <2>2. ASSUME NEW w \in W, NEW j \in start .. n
          PROVE  Turned(w, n + 1, j) \in QueuesOf(S, L, O, C, Z)
      BY <2>1, TurnedIsQueue
    <2>3. QED
      BY <1>1, <2>2
  <1>3. ASSUME NEW e \in Cycled(V, start, n) PROVE e \in Cycled(W, start, n + 1)
    <2>1. PICK v \in V, q \in Cycles(start .. n) : e = Permuted(v, q)
      BY <1>3 DEF Cycled
    <2>2. PICK w \in W, j \in start .. n : v = Turned(w, n + 1, j)
      BY <1>1
    <2>3. q \in [start .. n -> start .. n]
      BY DEF Cycles
    <2>4. e = Permuted(w, Spliced(q, start, n, j))
      BY <2>1, <2>2, <2>3, TurnThenCycle
    <2>5. Spliced(q, start, n, j) \in Cycles(start .. n + 1)
      BY SplicedIsCycle
    <2>6. QED
      BY <2>4, <2>5 DEF Cycled
  <1>4. ASSUME NEW e \in Cycled(W, start, n + 1) PROVE e \in Cycled(V, start, n)
    <2>1. PICK w \in W, p \in Cycles(start .. n + 1) : e = Permuted(w, p)
      BY <1>4 DEF Cycled
    <2>2. PICK j \in start .. n, q \in Cycles(start .. n) : p = Spliced(q, start, n, j)
      BY CycleIsSpliced
    <2>3. q \in [start .. n -> start .. n]
      BY DEF Cycles
    <2>4. e = Permuted(Turned(w, n + 1, j), q)
      <3>1. Permuted(Turned(w, n + 1, j), q) = Permuted(w, Spliced(q, start, n, j))
        BY <2>3, TurnThenCycle
      <3>2. QED
        BY ONLY <2>1, <2>2, <3>1
    <2>5. Turned(w, n + 1, j) \in V
      BY <1>1
    <2> HIDE DEF V
    <2>6. QED
      BY <2>4, <2>5 DEF Cycled
  <1>5. QED
    BY <1>2, <1>3, <1>4

(* Hence the loop makes all that the cycles of its places make, and no more: *)
(* by induction over the number of its turns.                              *)
LEMMA LoopCycles ==
    ASSUME NEW S, NEW L \in Nat, NEW O, NEW C, NEW Z, NEW start \in Nat
    PROVE  \A m \in Nat : \A W \in SUBSET QueuesOf(S, L, O, C, Z) : \A f :
               start + m < L /\ Unrolled(f, W, start, start + m)
               => f[start] = Cycled(W, start, start + m)
  <1> DEFINE Q == {m \in Nat : \A W \in SUBSET QueuesOf(S, L, O, C, Z) : \A f :
                      start + m < L /\ Unrolled(f, W, start, start + m)
                      => f[start] = Cycled(W, start, start + m)}
  <1>1. 0 \in Q
    BY NoTurns DEF Unrolled
  <1>2. ASSUME NEW m \in Nat, m \in Q PROVE m + 1 \in Q
    <2> DEFINE n == start + m
    <2>1. n \in Nat /\ start <= n /\ start + (m + 1) = n + 1
      OBVIOUS
    <2> SUFFICES ASSUME NEW W \in SUBSET QueuesOf(S, L, O, C, Z), NEW f, n + 1 < L,
                        Unrolled(f, W, start, n + 1)
                 PROVE  f[start] = Cycled(W, start, n + 1)
      BY <2>1
    <2> HIDE DEF n
    <2>2. f[n] = Turns(W, start, n + 1)
      <3>1. n \in start .. n + 1 - 1
        BY <2>1
      <3>2. QED
        BY <2>1, <3>1 DEF Unrolled
    <2>3. Unrolled(f, f[n], start, n)
      <3>1. \A i \in start .. n - 1 : i \in start .. n + 1 - 1
        BY <2>1
      <3>2. QED
        BY <2>1, <3>1 DEF Unrolled
    <2>4. f[n] \in SUBSET QueuesOf(S, L, O, C, Z)
      BY <2>1, <2>2, OneTurn
    <2>5. f[start] = Cycled(f[n], start, n)
      BY <1>2, <2>3, <2>4 DEF n
    <2>6. QED
      BY <2>1, <2>2, <2>5, OneTurn
  <1> HIDE DEF Q
  <1>3. Nat \subseteq Q
    BY <1>1, <1>2, Induct
  <1>4. QED
    BY <1>3 DEF Q

-----------------------------------------------------------------------------
(* The loop of playlist_shuffle(): there is a function that says what it   *)
(* may have made when it has come down to any of its turns.                *)
Reach(f, W, start, low, last) ==
    f = [i \in low .. last |-> IF i = last THEN W ELSE Turns(f[i + 1], start, i + 1)]

(* There is such a function, from any turn on: its definition is by        *)
(* recursion, and this induction is what gives it a value.                 *)
LEMMA LoopExists ==
    ASSUME NEW W, NEW start \in Int, NEW last \in Int, NEW low \in Int, low <= last
    PROVE  \E f : Reach(f, W, start, low, last)
  <1> DEFINE Q == {m \in Nat : \E f : Reach(f, W, start, last - m, last)}
  <1>1. 0 \in Q
    <2>1. Reach([i \in last - 0 .. last |-> W], W, start, last - 0, last)
      BY DEF Reach
    <2>2. QED
      BY <2>1
  <1>2. ASSUME NEW m \in Nat, m \in Q PROVE m + 1 \in Q
    <2> DEFINE k == last - m
    <2>1. PICK f : Reach(f, W, start, k, last)
      BY <1>2
    <2>2. k \in Int /\ k <= last /\ last - (m + 1) = k - 1
      OBVIOUS
    <2> HIDE DEF k
    <2> DEFINE T == Turns(f[k], start, k)
               g == [i \in k - 1 .. last |-> IF i = k - 1 THEN T ELSE f[i]]
    <2>3. ASSUME NEW i \in k - 1 .. last
          PROVE  g[i] = IF i = last THEN W ELSE Turns(g[i + 1], start, i + 1)
      <3>1. CASE i = k - 1
        <4>1. i # last /\ i + 1 = k /\ k \in k - 1 .. last /\ k # k - 1
          BY <2>2, <3>1
        <4>2. g[i] = T /\ g[k] = f[k]
          BY <3>1, <4>1
        <4> HIDE DEF g
        <4>3. QED
          BY <4>1, <4>2
      <3>2. CASE i # k - 1
        <4>1. i \in k .. last /\ g[i] = f[i]
          BY <2>2, <3>2
        <4>2. f[i] = IF i = last THEN W ELSE Turns(f[i + 1], start, i + 1)
          <5> HIDE DEF g, T
          <5>1. QED
            BY <2>1, <4>1 DEF Reach
        <4>3. i # last => g[i + 1] = f[i + 1]
          BY <2>2, <4>1
        <4> HIDE DEF g
        <4>4. QED
          BY <4>1, <4>2, <4>3
      <3>3. QED
        BY <3>1, <3>2
    <2>4. Reach(g, W, start, k - 1, last)
      <3>1. g = [i \in k - 1 .. last |-> g[i]]
        OBVIOUS
      <3> HIDE DEF g
      <3>2. QED
        BY <2>3, <3>1 DEF Reach
    <2>5. QED
      BY <2>2, <2>4
  <1> HIDE DEF Q
  <1>3. Nat \subseteq Q
    BY <1>1, <1>2, Induct
  <1>4. PICK m \in Nat : last - m = low
    <2>1. last - low \in Nat /\ last - (last - low) = low
      OBVIOUS
    <2>2. QED
      BY <2>1
  <1>5. \E f : Reach(f, W, start, last - m, last)
    BY <1>3 DEF Q
  <1>6. QED
    BY <1>4, <1>5

(* Songs of any kind, and the offset of one of them or none.               *)
IsQueue(q) == /\ q = [songs |-> q.songs, off |-> q.off, cur |-> q.cur, state |-> q.state]
              /\ q.songs \in Seq(ToSet(q.songs))
              /\ q.off \in -1 .. Len(q.songs) - 1

(* What playlist_shuffle() does before the loop, and where the loop stops. *)
LEMMA PinnedIsQueue ==
    ASSUME NEW given, IsQueue(given), given.songs # <<>>, NEW all \in BOOLEAN
    PROVE  LET S == ToSet(given.songs)
               L == Len(given.songs)
           IN  /\ L \in Nat
               /\ Pinned(given, all) \in QueuesOf(S, L, Int, {given.cur}, {given.state})
               /\ LoopStart(given, all) \in Nat
               /\ ShuffleRange(given, all) = LoopStart(given, all) .. L - 1
  <1> DEFINE S == ToSet(given.songs)
             L == Len(given.songs)
             start == ShuffleStart(given, all)
  <1>1. /\ given.songs \in Seq(S) /\ L \in Nat /\ given.off \in -1 .. L - 1
        /\ given = [songs |-> given.songs, off |-> given.off, cur |-> given.cur,
                    state |-> given.state]
    BY DEF IsQueue
  <1> HIDE DEF S
  <1>2. given \in QueuesOf(S, L, Int, {given.cur}, {given.state})
    BY <1>1 DEF QueuesOf
  <1>3. start \in Nat /\ (given.off >= 0 => start \in 0 .. L - 1)
    BY <1>1 DEF ShuffleStart
  <1>4. Pinned(given, all) \in QueuesOf(S, L, Int, {given.cur}, {given.state})
    <2>1. CASE given.off >= 0
      <3> DEFINE w == Turned(given, given.off, start)
      <3>1. given.off \in 0 .. L - 1 /\ start \in 0 .. L - 1
        BY <1>1, <1>3, <2>1
      <3>2. w \in QueuesOf(S, L, Int, {given.cur}, {given.state})
        BY <1>1, <1>2, <3>1, TurnedIsQueue
      <3>3. Pinned(given, all) = [w EXCEPT !.off = start]
        BY <2>1, <1>1 DEF Pinned, Turned
      <3> HIDE DEF w, start
      <3>4. QED
        BY <3>1, <3>2, <3>3 DEF QueuesOf
    <2>2. CASE ~(given.off >= 0)
      BY <1>2, <2>2 DEF Pinned
    <2>3. QED
      BY <2>1, <2>2
  <1>5. LoopStart(given, all) \in Nat
    BY <1>3 DEF LoopStart
  <1>6. ShuffleRange(given, all) = LoopStart(given, all) .. L - 1
    BY DEF ShuffleRange, LoopStart
  <1>7. QED
    BY <1>1, <1>4, <1>5, <1>6 DEF S

(* The loop of the model.                                                  *)
LEMMA LoopMakes ==
    ASSUME NEW S, NEW L \in Nat, NEW O, NEW C, NEW Z, NEW W \in SUBSET QueuesOf(S, L, O, C, Z),
           NEW start \in Nat, NEW last \in Nat, start <= last, last < L
    PROVE  Outcomes(W, start, last) = Cycled(W, start, last)
  <1> DEFINE reach == CHOOSE f : f = [i \in start .. last |->
                            IF i = last THEN W ELSE Turns(f[i + 1], start, i + 1)]
  <1>1. Outcomes(W, start, last) = reach[start]
    BY DEF Outcomes
  <1>2. PICK m \in Nat : start + m = last
    <2>1. last - start \in Nat /\ start + (last - start) = last
      OBVIOUS
    <2>2. QED
      BY <2>1
  <1>3. PICK g : Reach(g, W, start, start, last)
    <2>1. start \in Int /\ last \in Int /\ start <= last
      OBVIOUS
    <2>2. QED
      BY <2>1, LoopExists, Zenon
  <1>4. Reach(reach, W, start, start, last)
    BY <1>3 DEF Reach
  <1> HIDE DEF reach
  <1>5. Unrolled(reach, W, start, last)
    <2>1. last \in start .. last
      OBVIOUS
    <2>2. ASSUME NEW i \in start .. last - 1
          PROVE  i \in start .. last /\ i # last
      OBVIOUS
    <2>3. QED
      BY <1>4, <2>1, <2>2 DEF Reach, Unrolled
  <1>6. start + m < L /\ Unrolled(reach, W, start, start + m)
    BY <1>2, <1>5
  <1>7. reach[start] = Cycled(W, start, start + m)
    BY <1>6, LoopCycles
  <1>8. QED
    BY <1>1, <1>2, <1>7

(* A queue too short for a turn.                                           *)
LEMMA NothingToDo ==
    ASSUME NEW S, NEW L \in Nat, NEW O, NEW C, NEW Z, NEW w \in QueuesOf(S, L, O, C, Z),
           NEW start \in Int, NEW last \in Int, last < start
    PROVE  Cycled({w}, start, last) = {w}
  <1> DEFINE none == [x \in {} |-> x]
  <1>1. none \in Cycles({})
    BY DEF Cycles
  <1>2. ASSUME NEW p \in Cycles({}) PROVE Permuted(w, p) = w
    <2>1. DOMAIN p = {}
      BY CycleOfNone
    <2>2. w.songs \in Seq(S) /\ w \in [songs : Seq(S), off : O, cur : C, state : Z]
      BY DEF QueuesOf
    <2>3. w.songs = [k \in 1 .. Len(w.songs) |-> w.songs[k]]
      BY <2>2
    <2>4. Permuted(w, p) = [w EXCEPT !.songs = [k \in 1 .. Len(w.songs) |-> w.songs[k]]]
      BY <2>1 DEF Permuted
    <2>5. QED
      BY <2>2, <2>3, <2>4
  <1> HIDE DEF none
  <1>3. Cycles(start .. last) = Cycles({})
    <2>1. start .. last = {}
      OBVIOUS
    <2>2. QED
      BY <2>1, Zenon
  <1>4. w \in Cycled({w}, start, last)
    <2>1. w = Permuted(w, none)
      BY <1>1, <1>2
    <2>2. QED
      BY <1>3, <1>1, <2>1 DEF Cycled
  <1>5. ASSUME NEW e \in Cycled({w}, start, last) PROVE e = w
    BY <1>3, <1>2 DEF Cycled
  <1>6. QED
    BY <1>4, <1>5

(* Both together, for every queue and each way to shuffle it.              *)
LEMMA ProducedAreShuffles ==
    ASSUME NEW given, IsQueue(given), NEW all \in BOOLEAN
    PROVE  Produced(given, all) = Shuffles(given, all)
  <1> DEFINE L == Len(given.songs)
             last == L - 1
             start == LoopStart(given, all)
             w == Pinned(given, all)
  <1>1. CASE given.songs = <<>>
    <2>1. L = 0 /\ given.off = -1
      BY <1>1 DEF IsQueue
    <2>2. last < start /\ w = given
      BY <2>1 DEF LoopStart, Pinned
    <2>3. Produced(given, all) = {w}
      BY <2>2 DEF Produced
    <2>4. QED
      BY <1>1, <2>2, <2>3 DEF Shuffles
  <1>2. CASE given.songs # <<>>
    <2>1. PICK S : w \in QueuesOf(S, L, Int, {given.cur}, {given.state})
      BY <1>2, PinnedIsQueue
    <2>2. L \in Nat /\ start \in Nat /\ ShuffleRange(given, all) = start .. last
      BY <1>2, PinnedIsQueue
    <2>3. Shuffles(given, all) = Cycled({w}, start, last)
      BY <1>2, <2>2 DEF Shuffles, Cycled
    <2>4. CASE last < start
      <3>1. start \in Int /\ last \in Int
        BY <2>2
      <3>2. Produced(given, all) = {w}
        BY <2>4 DEF Produced
      <3> HIDE DEF w, start, last, L
      <3>3. Cycled({w}, start, last) = {w}
        BY <2>1, <2>2, <2>4, <3>1, NothingToDo
      <3>4. QED
        BY <2>3, <3>2, <3>3
    <2>5. CASE ~(last < start)
      <3>1. last \in Nat /\ start <= last /\ last < L
        BY <2>2, <2>5
      <3>2. Produced(given, all) = Outcomes({w}, start, last)
        BY <2>5 DEF Produced
      <3> HIDE DEF w, start, last, L
      <3>3. Outcomes({w}, start, last) = Cycled({w}, start, last)
        BY <2>1, <2>2, <3>1, LoopMakes
      <3>4. QED
        BY <2>3, <3>2, <3>3
    <2>6. QED
      BY <2>4, <2>5
  <1>3. QED
    BY <1>1, <1>2
=============================================================================
