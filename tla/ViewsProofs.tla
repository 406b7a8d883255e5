---------------------------- MODULE ViewsProofs -----------------------------
(***************************************************************************)
(* The web interface and the mpris2 bridge for any queues, modes and       *)
(* playbacks, any number of changes and any number of requests: when all   *)
(* is answered each has the daemon's state as it was after the last event  *)
(* that announced a change.                                                *)
(*                                                                         *)
(* The invariant says of the messages under way what they will leave       *)
(* behind: whose queue each SHOW is a part of, and that the last STATUS,   *)
(* the last complete list or else what is held already is recent, unless   *)
(* an event or a request is still under way that will bring another.       *)
(***************************************************************************)
EXTENDS MCViews, SequenceTheorems, TLAPS

PlaybackType == [state : {"stopped", "playing", "paused"}, song : Song \cup {None}]

Shows == [type : {"show"}, song : Song, playing : BOOLEAN]
Showns == [type : {"shown"}]
Statuses == [type : {"status"}, playback : PlaybackType, mode : Mode, position : Position]
Notices == [type : {"event"}, event : Event, mode : Mode, position : Position]
Errs == [type : {"err"}]
Message == Shows \cup Showns \cup Statuses \cup Notices \cup Errs
Lists == Shows \cup Showns

Asked == {"show", "status", "monitor", "jump", "skip", "start", "pause", "mode"}

NoticesOf(E) == {m \in Notices : m.event \in E}
StatusesOf(P) == {m \in Statuses : m.playback \in P}

(* The messages that tell the modes m, of those of the kinds K.            *)
Telling(K, m) == {msg \in K : msg.mode = m}

-----------------------------------------------------------------------------
(* Sequences: there is an element of K; the k-th is the last of them; the  *)
(* last of them is in V.                                                   *)
Some(s, K) == \E i \in 1 .. Len(s) : s[i] \in K

LastIn(s, K, k) == /\ k \in 1 .. Len(s) /\ s[k] \in K
                   /\ \A i \in k + 1 .. Len(s) : s[i] \notin K

Latest(s, K, V) == \E k \in 1 .. Len(s) : LastIn(s, K, k) /\ s[k] \in V

LEMMA Rest ==
    ASSUME NEW S, NEW s \in Seq(S), s # <<>>
    PROVE  /\ Tail(s) \in Seq(S) /\ Len(s) \in Nat \ {0} /\ Len(Tail(s)) = Len(s) - 1
           /\ Head(s) = s[1] /\ Head(s) \in S
           /\ \A i \in 1 .. Len(s) - 1 : Tail(s)[i] = s[i + 1]
BY HeadTailProperties, EmptySeq, LenProperties

LEMMA Joined ==
    ASSUME NEW S, NEW s \in Seq(S), NEW t \in Seq(S)
    PROVE  /\ s \o t \in Seq(S) /\ Len(s) \in Nat /\ Len(t) \in Nat
           /\ Len(s \o t) = Len(s) + Len(t)
           /\ \A i \in 1 .. Len(s) : (s \o t)[i] = s[i]
           /\ \A i \in 1 .. Len(t) : (s \o t)[Len(s) + i] = t[i]
<1>1. Len(s) \in Nat /\ Len(t) \in Nat
  BY LenProperties
<1>2. /\ s \o t \in Seq(S) /\ Len(s \o t) = Len(s) + Len(t)
      /\ \A i \in 1 .. Len(s) + Len(t) : (s \o t)[i] =
             IF i <= Len(s) THEN s[i] ELSE t[i - Len(s)]
  BY ConcatProperties
<1>. PICK n \in Nat : n = Len(s)
  BY <1>1
<1>. PICK m \in Nat : m = Len(t)
  BY <1>1
<1>3. \A i \in 1 .. n : i \in 1 .. n + m /\ i <= n
  OBVIOUS
<1>4. \A i \in 1 .. m : n + i \in 1 .. n + m /\ ~(n + i <= n) /\ n + i - n = i
  OBVIOUS
<1>. QED
  BY <1>1, <1>2, <1>3, <1>4

LEMMA SomeJoined ==
    ASSUME NEW S, NEW s \in Seq(S), NEW t \in Seq(S), NEW K
    PROVE  Some(s \o t, K) <=> Some(s, K) \/ Some(t, K)
<1>. PICK n \in Nat : n = Len(s)
  BY LenProperties
<1>. PICK m \in Nat : m = Len(t)
  BY LenProperties
<1>1. /\ Len(s \o t) = n + m
      /\ \A i \in 1 .. n : (s \o t)[i] = s[i]
      /\ \A i \in 1 .. m : (s \o t)[n + i] = t[i]
  BY Joined
<1>2. \A i \in 1 .. n + m : i \in 1 .. n \/ (i - n \in 1 .. m /\ n + (i - n) = i)
  OBVIOUS
<1>3. (\A i \in 1 .. n : i \in 1 .. n + m) /\ (\A i \in 1 .. m : n + i \in 1 .. n + m)
  OBVIOUS
<1>4. ASSUME Some(s \o t, K)
      PROVE  Some(s, K) \/ Some(t, K)
  <2>1. PICK i \in 1 .. n + m : (s \o t)[i] \in K
    BY <1>1, <1>4 DEF Some
  <2>. QED
    BY <2>1, <1>1, <1>2 DEF Some
<1>5. ASSUME Some(s, K) \/ Some(t, K)
      PROVE  Some(s \o t, K)
  BY <1>1, <1>3, <1>5 DEF Some
<1>. QED
  BY <1>4, <1>5

LEMMA SomeRest ==
    ASSUME NEW S, NEW s \in Seq(S), s # <<>>, NEW K
    PROVE  Some(s, K) <=> Head(s) \in K \/ Some(Tail(s), K)
<1>. PICK n \in Nat \ {0} : n = Len(s)
  BY Rest
<1>1. /\ Len(Tail(s)) = n - 1 /\ Head(s) = s[1]
      /\ \A i \in 1 .. n - 1 : Tail(s)[i] = s[i + 1]
  BY Rest
<1>2. /\ \A i \in 1 .. n : i = 1 \/ (i - 1 \in 1 .. n - 1 /\ (i - 1) + 1 = i)
      /\ \A i \in 1 .. n - 1 : i + 1 \in 1 .. n
      /\ 1 \in 1 .. n
  OBVIOUS
<1>. QED
  BY <1>1, <1>2 DEF Some

LEMMA LatestKept ==
    ASSUME NEW S, NEW s \in Seq(S), NEW t \in Seq(S), NEW K, ~Some(t, K)
    PROVE  /\ \A k : LastIn(s, K, k) => LastIn(s \o t, K, k) /\ (s \o t)[k] = s[k]
           /\ \A V : Latest(s, K, V) => Latest(s \o t, K, V)
<1>. PICK n \in Nat : n = Len(s)
  BY LenProperties
<1>. PICK m \in Nat : m = Len(t)
  BY LenProperties
<1>1. /\ Len(s \o t) = n + m
      /\ \A i \in 1 .. n : (s \o t)[i] = s[i]
      /\ \A i \in 1 .. m : (s \o t)[n + i] = t[i]
  BY Joined
<1>2. \A i \in 1 .. n + m : i \in 1 .. n \/ (i - n \in 1 .. m /\ n + (i - n) = i)
  OBVIOUS
<1>3. \A i \in 1 .. m : t[i] \notin K
  BY DEF Some
<1>4. ASSUME NEW k, LastIn(s, K, k)
      PROVE  LastIn(s \o t, K, k) /\ (s \o t)[k] = s[k]
  <2>1. k \in 1 .. n /\ k \in 1 .. n + m /\ s[k] \in K
    BY <1>4 DEF LastIn
  <2>2. ASSUME NEW i \in k + 1 .. n + m
        PROVE  (s \o t)[i] \notin K
    <3>1. CASE i \in 1 .. n
      <4>1. i \in k + 1 .. n
        BY <3>1, <2>1
      <4>. QED
        BY <4>1, <3>1, <1>1, <1>4 DEF LastIn
    <3>2. CASE i - n \in 1 .. m /\ n + (i - n) = i
      BY <3>2, <1>1, <1>3
    <3>. QED
      BY <3>1, <3>2, <1>2, <2>1
  <2>. QED
    BY <2>1, <2>2, <1>1 DEF LastIn
<1>. QED
  <2>1. \A i \in 1 .. n : i \in 1 .. n + m
    OBVIOUS
  <2>. QED
    BY <1>1, <1>4, <2>1 DEF Latest

LEMMA LatestAdded ==
    ASSUME NEW S, NEW s \in Seq(S), NEW t \in Seq(S), NEW K, NEW V, Latest(t, K, V)
    PROVE  Latest(s \o t, K, V)
<1>. PICK n \in Nat : n = Len(s)
  BY LenProperties
<1>. PICK m \in Nat : m = Len(t)
  BY LenProperties
<1>1. /\ Len(s \o t) = n + m
      /\ \A i \in 1 .. m : (s \o t)[n + i] = t[i]
  BY Joined
<1>2. PICK k \in 1 .. m : LastIn(t, K, k) /\ t[k] \in V
  BY DEF Latest
<1>3. ASSUME NEW i \in n + k + 1 .. n + m
      PROVE  (s \o t)[i] \notin K
  <2>1. i - n \in k + 1 .. m /\ i - n \in 1 .. m /\ n + (i - n) = i
    OBVIOUS
  <2>. QED
    BY <2>1, <1>1, <1>2 DEF LastIn
<1>4. n + k \in 1 .. n + m
  OBVIOUS
<1>. QED
  BY <1>1, <1>2, <1>3, <1>4 DEF Latest, LastIn

LEMMA LatestRest ==
    ASSUME NEW S, NEW s \in Seq(S), s # <<>>, NEW K
    PROVE  /\ \A k : LastIn(s, K, k) /\ k # 1
                     => LastIn(Tail(s), K, k - 1) /\ Tail(s)[k - 1] = s[k]
           /\ LastIn(s, K, 1) => Head(s) \in K /\ ~Some(Tail(s), K)
           /\ \A V : Latest(s, K, V) =>
                 Latest(Tail(s), K, V) \/ (Head(s) \in K \cap V /\ ~Some(Tail(s), K))
<1>. PICK n \in Nat \ {0} : n = Len(s)
  BY Rest
<1>1. /\ Len(Tail(s)) = n - 1 /\ Head(s) = s[1]
      /\ \A i \in 1 .. n - 1 : Tail(s)[i] = s[i + 1]
  BY Rest
<1>2. ASSUME NEW k, LastIn(s, K, k), k # 1
      PROVE  LastIn(Tail(s), K, k - 1) /\ Tail(s)[k - 1] = s[k] /\ k - 1 \in 1 .. n - 1
  <2>1. k \in 1 .. n /\ k - 1 \in 1 .. n - 1 /\ (k - 1) + 1 = k
    BY <1>2 DEF LastIn
  <2>2. \A i \in (k - 1) + 1 .. n - 1 : i \in 1 .. n - 1 /\ i + 1 \in k + 1 .. n
    BY <2>1
  <2>. QED
    BY <2>1, <2>2, <1>1, <1>2 DEF LastIn
<1>3. ASSUME LastIn(s, K, 1)
      PROVE  Head(s) \in K /\ ~Some(Tail(s), K)
  <2>1. \A i \in 1 .. n - 1 : i + 1 \in 1 + 1 .. n
    OBVIOUS
  <2>. QED
    BY <2>1, <1>1, <1>3 DEF LastIn, Some
<1>4. ASSUME NEW V, Latest(s, K, V)
      PROVE  Latest(Tail(s), K, V) \/ (Head(s) \in K \cap V /\ ~Some(Tail(s), K))
  <2>1. PICK k \in 1 .. n : LastIn(s, K, k) /\ s[k] \in V
    BY <1>4 DEF Latest
  <2>. QED
    BY <2>1, <1>1, <1>2, <1>3 DEF Latest
<1>. QED
  BY <1>2, <1>3, <1>4

(* One message.                                                            *)
LEMMA Single ==
    ASSUME NEW m, NEW K
    PROVE  /\ Some(<<m>>, K) <=> m \in K
           /\ \A V : m \in K \cap V => Latest(<<m>>, K, V)
           /\ ~Some(<<>>, K)
BY DEF Some, Latest, LastIn

-----------------------------------------------------------------------------
Size(q) == Len(q.songs)

(* The reply to a SHOW.  Begun: t, o and f are the songs, the position and *)
(* whether it is known, after the first songs of q have been read.         *)
ShowOf(q, j) == [type |-> "show", song |-> q.songs[j], playing |-> q.off = j - 1]

Begun(t, o, f, q) ==
    /\ Len(t) <= Size(q)
    /\ \A j \in 1 .. Len(t) : t[j] = q.songs[j]
    /\ f = (q.off \in 0 .. Len(t) - 1)
    /\ o = IF f THEN q.off ELSE Len(t)

(* The messages s that end at k are the reply for q, or what is left of it *)
(* after the first songs have been read; nothing precedes it that would be *)
(* taken for a part of it.                                                 *)
Carries(s, t, o, f, q, k) ==
    /\ k \in 1 .. Len(s) /\ s[k] \in Showns
    /\ \A i \in 1 .. k - 1 : i >= k - Size(q) =>
           s[i] = ShowOf(q, i + Size(q) + 1 - k)
    /\ IF k <= Size(q) + 1
       THEN Begun(t, o, f, q) /\ Len(t) = Size(q) + 1 - k
       ELSE s[k - Size(q) - 1] \notin Shows

(* All that is under way of lists is carried by some reply.                *)
InReplies(s, t, o, f) ==
    \A i \in 1 .. Len(s) : s[i] \in Lists =>
        \E q \in Queue, k \in i .. Len(s) : Carries(s, t, o, f, q, k) /\ k - Size(q) <= i

(* A list that has been read in part is carried to its end.                *)
Halfway(s, t, o, f) ==
    IF t = <<>> THEN o = 0 /\ ~f
    ELSE \E q \in Queue, k \in 1 .. Len(s) : Carries(s, t, o, f, q, k) /\ k <= Size(q)

Orderly(s, t, o, f) == InReplies(s, t, o, f) /\ Halfway(s, t, o, f)

(* The last complete list under way is that of a queue in Q, if there is   *)
(* one.                                                                    *)
Brings(s, t, o, f, Q) ==
    \E q \in Q, k \in 1 .. Len(s) : LastIn(s, Showns, k) /\ Carries(s, t, o, f, q, k)

LEMMA QueueFacts ==
    ASSUME NEW q \in Queue
    PROVE  q.songs \in Seq(Song) /\ Size(q) \in Nat /\ q.off \in -1 .. Size(q) - 1
BY NotifierAssumption, LenProperties DEF Size

LEMMA Kinds ==
    /\ \A m \in Shows : m.type = "show" /\ m.song \in Song /\ m.playing \in BOOLEAN
    /\ \A m \in Showns : m.type = "shown"
    /\ \A m \in Statuses : m.type = "status" /\ m.playback \in PlaybackType
    /\ \A m \in Notices : m.type = "event" /\ m.event \in Event
    /\ \A m \in Errs : m.type = "err"
    /\ \A m \in Message : m.type = "show" => m \in Shows
    /\ \A m \in Message : m.type = "shown" => m \in Showns
    /\ \A m \in Message : m.type = "status" => m \in Statuses
    /\ \A m \in Message : m.type = "event" => m \in Notices
    /\ \A m \in Message : m.type = "err" => m \in Errs
    /\ \A m \in Message : m.type \in {"show", "shown", "status", "event", "err"}
BY DEF Shows, Showns, Statuses, Notices, Errs, Message

LEMMA ShowIsShow ==
    ASSUME NEW q \in Queue, NEW j \in 1 .. Size(q)
    PROVE  ShowOf(q, j) \in Shows
<1>1. q.songs[j] \in Song
  BY QueueFacts, ElementOfSeq DEF Size
<1>2. (q.off = j - 1) \in BOOLEAN
  OBVIOUS
<1>. QED
  BY <1>1, <1>2 DEF ShowOf, Shows

(* More messages change nothing about those that are under way.            *)
LEMMA CarriesJoined ==
    ASSUME NEW s \in Seq(Message), NEW x \in Seq(Message), NEW t, NEW o, NEW f,
           NEW q \in Queue, NEW k, Carries(s, t, o, f, q, k)
    PROVE  Carries(s \o x, t, o, f, q, k)
<1>. PICK n \in Nat : n = Len(s)
  BY LenProperties
<1>. PICK m \in Nat : m = Len(x)
  BY LenProperties
<1>. PICK h \in Nat : h = Size(q)
  BY QueueFacts
<1>1. /\ Len(s \o x) = n + m
      /\ \A i \in 1 .. n : (s \o x)[i] = s[i]
  BY Joined
<1>2. k \in 1 .. n /\ k \in 1 .. n + m
  BY DEF Carries
<1>3. \A i \in 1 .. k - 1 : i \in 1 .. n
  BY <1>2
<1>4. k > h + 1 => k - h - 1 \in 1 .. n
  BY <1>2
<1>. QED
  BY <1>1, <1>2, <1>3, <1>4 DEF Carries

LEMMA OrderlyJoined ==
    ASSUME NEW s \in Seq(Message), NEW x \in Seq(Message), NEW t, NEW o, NEW f,
           Orderly(s, t, o, f), ~Some(x, Lists)
    PROVE  Orderly(s \o x, t, o, f)
<1>. PICK n \in Nat : n = Len(s)
  BY LenProperties
<1>. PICK m \in Nat : m = Len(x)
  BY LenProperties
<1>1. /\ Len(s \o x) = n + m
      /\ \A i \in 1 .. n : (s \o x)[i] = s[i]
      /\ \A i \in 1 .. m : (s \o x)[n + i] = x[i]
  BY Joined
<1>2. ASSUME NEW i \in 1 .. n + m, (s \o x)[i] \in Lists
      PROVE  \E q \in Queue, k \in i .. n + m :
                Carries(s \o x, t, o, f, q, k) /\ k - Size(q) <= i
  <2>1. i \in 1 .. n
    <3>1. i \in 1 .. n \/ (i - n \in 1 .. m /\ n + (i - n) = i)
      OBVIOUS
    <3>. QED
      BY <3>1, <1>1, <1>2 DEF Some
  <2>2. PICK q \in Queue, k \in i .. n : Carries(s, t, o, f, q, k) /\ k - Size(q) <= i
    BY <2>1, <1>1, <1>2 DEF Orderly, InReplies
  <2>. QED
    BY <2>2, CarriesJoined
<1>3. ASSUME t # <<>>
      PROVE  \E q \in Queue, k \in 1 .. n + m :
                Carries(s \o x, t, o, f, q, k) /\ k <= Size(q)
  <2>1. PICK q \in Queue, k \in 1 .. n : Carries(s, t, o, f, q, k) /\ k <= Size(q)
    BY <1>3 DEF Orderly, Halfway
  <2>. QED
    BY <2>1, CarriesJoined
<1>. QED
  BY <1>1, <1>2, <1>3 DEF Orderly, InReplies, Halfway

LEMMA BringsJoined ==
    ASSUME NEW s \in Seq(Message), NEW x \in Seq(Message), NEW t, NEW o, NEW f,
           NEW Q \in SUBSET Queue, Brings(s, t, o, f, Q), ~Some(x, Showns)
    PROVE  Brings(s \o x, t, o, f, Q)
<1>1. PICK q \in Q, k \in 1 .. Len(s) : LastIn(s, Showns, k) /\ Carries(s, t, o, f, q, k)
  BY DEF Brings
<1>2. LastIn(s \o x, Showns, k) /\ Carries(s \o x, t, o, f, q, k)
  BY <1>1, LatestKept, CarriesJoined
<1>. QED
  BY <1>2, <1>1 DEF Brings, Carries

(* The daemon answers a SHOW: the reply is carried from its first song on. *)
ReplyOf(q) == [i \in 1 .. Size(q) |-> ShowOf(q, i)] \o <<[type |-> "shown"]>>

LEMMA ReplyIs ==
    ASSUME NEW q \in Queue
    PROVE  /\ ReplyOf(q) \in Seq(Message) /\ Len(ReplyOf(q)) = Size(q) + 1
           /\ \A i \in 1 .. Size(q) : ReplyOf(q)[i] = ShowOf(q, i)
           /\ ReplyOf(q)[Size(q) + 1] \in Showns
           /\ \A i \in 1 .. Size(q) : ReplyOf(q)[i] \in Shows
           /\ ~Some(ReplyOf(q), Message \ Lists)
<1>. PICK h \in Nat : h = Size(q)
  BY QueueFacts
<1>. PICK first : first = [i \in 1 .. h |-> ShowOf(q, i)]
  OBVIOUS
<1>. PICK last : last = <<[type |-> "shown"]>>
  OBVIOUS
<1>1. \A i \in 1 .. h : ShowOf(q, i) \in Shows
  BY ShowIsShow
<1>2. first \in Seq(Message) /\ Len(first) = h
  BY <1>1 DEF Message
<1>3. [type |-> "shown"] \in Showns
  BY DEF Showns
<1>4. last \in Seq(Message) /\ Len(last) = 1 /\ last[1] = [type |-> "shown"]
  BY <1>3 DEF Message
<1>5. \A i \in 1 .. h : first[i] = ShowOf(q, i)
  OBVIOUS
<1>6. ReplyOf(q) = first \o last
  BY DEF ReplyOf
<1>7. /\ ReplyOf(q) \in Seq(Message) /\ Len(ReplyOf(q)) = h + 1
      /\ \A i \in 1 .. h : ReplyOf(q)[i] = first[i]
      /\ \A i \in 1 .. 1 : ReplyOf(q)[h + i] = last[i]
  BY <1>2, <1>4, <1>6, Joined
<1>8. ReplyOf(q)[h + 1] = [type |-> "shown"]
  BY <1>7, <1>4
<1>9. \A i \in 1 .. h + 1 : i \in 1 .. h \/ i = h + 1
  OBVIOUS
<1>. QED
  BY <1>1, <1>3, <1>5, <1>7, <1>8, <1>9 DEF Some, Lists

LEMMA EmptyBegun ==
    ASSUME NEW q \in Queue
    PROVE  Begun(<<>>, 0, FALSE, q)
BY QueueFacts DEF Begun

LEMMA Shifted ==
    \A n, h \in Nat : \A i \in 1 .. n + h : i >= n + 1 =>
        /\ i + h + 1 - (n + h + 1) = i - n /\ n + (i - n) = i
        /\ i - n \in 1 .. h /\ i - n \in 1 .. h + 1
OBVIOUS

LEMMA JoinedMessages ==
    \A u, v \in Seq(Message) : /\ Len(u \o v) = Len(u) + Len(v)
                               /\ \A i \in 1 .. Len(u) : (u \o v)[i] = u[i]
                               /\ \A i \in 1 .. Len(v) : (u \o v)[Len(u) + i] = v[i]
BY Joined

LEMMA OneReplyJoined ==
    ASSUME NEW s \in Seq(Message), NEW t \in Seq(Song), NEW o, NEW f \in BOOLEAN,
           NEW q \in Queue, Orderly(s, t, o, f),
           NEW r \in Seq(Message), Len(r) = Size(q) + 1,
           r[Size(q) + 1] \in Showns,
           \A i \in 1 .. Size(q) : r[i] = ShowOf(q, i)
    PROVE  Orderly(s \o r, t, o, f) /\ Brings(s \o r, t, o, f, {q})
<1>. PICK n \in Nat : n = Len(s)
  BY LenProperties
<1>. PICK h \in Nat : h = Size(q)
  BY QueueFacts
<1>1. Len(r) = h + 1 /\ r[h + 1] \in Showns /\ \A i \in 1 .. h : r[i] = ShowOf(q, i)
  OBVIOUS
<1>2. /\ Len(s \o r) = n + h + 1
      /\ \A i \in 1 .. n : (s \o r)[i] = s[i]
      /\ \A i \in 1 .. h + 1 : (s \o r)[n + i] = r[i]
  <2>1. /\ Len(s \o r) = Len(s) + Len(r)
        /\ \A i \in 1 .. Len(s) : (s \o r)[i] = s[i]
        /\ \A i \in 1 .. Len(r) : (s \o r)[Len(s) + i] = r[i]
    BY ONLY JoinedMessages, s \in Seq(Message), r \in Seq(Message)
  <2>. QED
    BY <1>1, <2>1
<1>3. (s \o r)[n + h + 1] \in Showns
  <2>1. (s \o r)[n + (h + 1)] = r[h + 1]
    BY <1>2
  <2>. QED
    BY <2>1, <1>1
<1>4. ASSUME NEW i \in 1 .. n + h, i >= n + 1
      PROVE  (s \o r)[i] = ShowOf(q, i + h + 1 - (n + h + 1))
  <2>1. /\ i + h + 1 - (n + h + 1) = i - n /\ i - n \in 1 .. h
        /\ i - n \in 1 .. h + 1 /\ n + (i - n) = i
    BY <1>4, Shifted
  <2>. QED
    BY <2>1, <1>1, <1>2
<1>7. Carries(s \o r, t, o, f, q, n + h + 1)
  <2>1. CASE n = 0
    <3>1. t = <<>> /\ o = 0 /\ f = FALSE
      <4>1. t = <<>>
        BY <2>1 DEF Orderly, Halfway
      <4>. QED
        BY <4>1 DEF Orderly, Halfway
    <3>2. Begun(t, o, f, q) /\ Len(t) = 0
      BY <3>1, EmptyBegun
    <3>3. Carries(s \o r, t, o, f, q, n + h + 1)
      BY <1>2, <1>3, <1>4, <2>1, <3>2 DEF Carries
    <3>. QED
      BY <3>3
  <2>2. CASE n > 0
    <3>1. s[n] \notin Shows
      <4>1. SUFFICES ASSUME s[n] \in Shows
                     PROVE  FALSE
        OBVIOUS
      <4>2. PICK p \in Queue, k \in n .. n : Carries(s, t, o, f, p, k)
        BY <4>1, <2>2 DEF Orderly, InReplies, Lists
      <4>3. k = n
        OBVIOUS
      <4>. QED
        BY <4>1, <4>2, <4>3, Kinds DEF Carries
    <3>2. (s \o r)[n] \notin Shows
      BY <1>2, <2>2, <3>1
    <3>3. Carries(s \o r, t, o, f, q, n + h + 1)
      <4>1. ~(n + h + 1 <= h + 1) /\ n + h + 1 \in 1 .. n + h + 1 /\ n + h + 1 - 1 = n + h
        BY <2>2
      <4>2. \A i \in 1 .. n + h : i >= n + h + 1 - h => i >= n + 1
        OBVIOUS
      <4>3. PICK k \in Nat : k = n + h + 1
        OBVIOUS
      <4>4. \A i \in 1 .. k - 1 : i >= k - Size(q) =>
                (s \o r)[i] = ShowOf(q, i + Size(q) + 1 - k)
        <5>1. SUFFICES ASSUME NEW i \in 1 .. k - 1, i >= k - Size(q)
                       PROVE  (s \o r)[i] = ShowOf(q, i + Size(q) + 1 - k)
          OBVIOUS
        <5>2. i \in 1 .. n + h /\ i >= n + 1
          BY ONLY <4>3, <5>1, h = Size(q), n \in Nat, h \in Nat, k \in Nat, i \in 1 .. k - 1
        <5>3. i + Size(q) + 1 - k = i + h + 1 - (n + h + 1)
          BY ONLY <4>3, h = Size(q)
        <5>4. (s \o r)[i] = ShowOf(q, i + h + 1 - (n + h + 1))
          BY ONLY <5>2, <1>4
        <5>. QED
          BY ONLY <5>3, <5>4
      <4>5. (s \o r)[k - Size(q) - 1] \notin Shows
        <5>1. k - Size(q) - 1 = n
          BY ONLY <4>3, h = Size(q), n \in Nat, h \in Nat
        <5>. QED
          BY ONLY <3>2, <5>1
      <4>6. k \in 1 .. Len(s \o r) /\ ~(k <= Size(q) + 1) /\ (s \o r)[k] \in Showns
        BY <1>2, <1>3, <4>1, <4>3
      <4>7. Carries(s \o r, t, o, f, q, k)
        BY ONLY <4>4, <4>5, <4>6 DEF Carries
      <4>. QED
        BY <4>3, <4>7
    <3>. QED
      BY <3>3
  <2>3. n = 0 \/ n > 0
    OBVIOUS
  <2>. QED
    BY <2>1, <2>2, <2>3
<1>8. Brings(s \o r, t, o, f, {q})
  BY <1>2, <1>3, <1>7 DEF Brings, LastIn
<1>9. \A p \in Queue : \A k : Carries(s, t, o, f, p, k) => Carries(s \o r, t, o, f, p, k)
  BY CarriesJoined
<1>10. ASSUME NEW i \in 1 .. n + h + 1, (s \o r)[i] \in Lists
       PROVE  \E p \in Queue, k \in i .. n + h + 1 :
                 Carries(s \o r, t, o, f, p, k) /\ k - Size(p) <= i
  <2>1. CASE i <= n
    <3>1. PICK p \in Queue, k \in i .. n : Carries(s, t, o, f, p, k) /\ k - Size(p) <= i
      BY <2>1, <1>2, <1>10 DEF Orderly, InReplies
    <3>. QED
      BY <3>1, <1>9
  <2>2. CASE i > n
    <3>1. n + h + 1 \in i .. n + h + 1 /\ n + h + 1 - Size(q) <= i
      BY ONLY <2>2, i \in 1 .. n + h + 1, h = Size(q), n \in Nat, h \in Nat
    <3>. QED
      BY <3>1, <1>7
  <2>. QED
    BY <2>1, <2>2
<1>11. ASSUME t # <<>>
       PROVE  \E p \in Queue, k \in 1 .. n + h + 1 :
                 Carries(s \o r, t, o, f, p, k) /\ k <= Size(p)
  <2>1. PICK p \in Queue, k \in 1 .. n : Carries(s, t, o, f, p, k) /\ k <= Size(p)
    BY <1>11 DEF Orderly, Halfway
  <2>. QED
    BY <2>1, <1>9
<1>12. Orderly(s \o r, t, o, f)
  BY <1>2, <1>10, <1>11 DEF Orderly, InReplies, Halfway
<1>. QED
  BY <1>8, <1>12

LEMMA ReplyJoined ==
    ASSUME NEW s \in Seq(Message), NEW t \in Seq(Song), NEW o, NEW f \in BOOLEAN,
           NEW q \in Queue, Orderly(s, t, o, f)
    PROVE  /\ Orderly(s \o ReplyOf(q), t, o, f)
           /\ Brings(s \o ReplyOf(q), t, o, f, {q})
BY ReplyIs, OneReplyJoined

-----------------------------------------------------------------------------
(* The client reads a message: t2, o2 and f2 are what tmp, off and         *)
(* offFound become.                                                        *)
LEMMA CarriesRest ==
    ASSUME NEW s \in Seq(Message), s # <<>>, NEW t, NEW o, NEW f, NEW t2, NEW o2, NEW f2,
           NEW q \in Queue, NEW k \in Int, Carries(s, t, o, f, q, k), k # 1,
           k <= Size(q) + 2 => Begun(t2, o2, f2, q) /\ Len(t2) = Size(q) + 2 - k
    PROVE  k - 1 \in 1 .. Len(Tail(s)) /\ Carries(Tail(s), t2, o2, f2, q, k - 1)
<1>. PICK n \in Nat \ {0} : n = Len(s)
  BY Rest
<1>. PICK h \in Nat : h = Size(q)
  BY QueueFacts
<1>1. /\ Len(Tail(s)) = n - 1
      /\ \A i \in 1 .. n - 1 : Tail(s)[i] = s[i + 1]
  BY Rest
<1>2. k \in 1 .. n /\ k - 1 \in 1 .. n - 1 /\ (k - 1) + 1 = k /\ s[k] \in Showns
  BY DEF Carries
<1>3. Tail(s)[k - 1] \in Showns
  BY <1>1, <1>2
<1>4. ASSUME NEW i \in 1 .. k - 1 - 1, i >= k - 1 - h
      PROVE  Tail(s)[i] = ShowOf(q, i + h + 1 - (k - 1))
  <2>. k \in 1 .. n
    BY <1>2
  <2>1. i + 1 \in 1 .. k - 1 /\ i + 1 >= k - h /\ i \in 1 .. n - 1
    BY <1>4
  <2>3. (i + 1) + h + 1 - k = i + h + 1 - (k - 1)
    BY <1>4
  <2>2. s[i + 1] = ShowOf(q, (i + 1) + h + 1 - k)
    BY <2>1 DEF Carries
  <2>. QED
    BY <2>1, <2>2, <2>3, <1>1
<1>5. ASSUME k - 1 <= h + 1
      PROVE  Begun(t2, o2, f2, q) /\ Len(t2) = h + 1 - (k - 1)
  BY <1>5, <1>2
<1>6. ASSUME ~(k - 1 <= h + 1)
      PROVE  Tail(s)[k - 1 - h - 1] \notin Shows
  <2>1. k - 1 - h - 1 \in 1 .. n - 1 /\ (k - 1 - h - 1) + 1 = k - h - 1 /\ ~(k <= h + 1)
    BY <1>6, <1>2
  <2>2. s[k - h - 1] \notin Shows
    BY <2>1 DEF Carries
  <2>. QED
    BY <2>1, <2>2, <1>1
<1>. QED
  BY <1>1, <1>2, <1>3, <1>4, <1>5, <1>6 DEF Carries

(* The first message is a part of the reply if that has begun.             *)
LEMMA FirstOfReply ==
    ASSUME NEW s \in Seq(Message), s # <<>>, NEW t, NEW o, NEW f,
           NEW q \in Queue, NEW k \in Int, Carries(s, t, o, f, q, k), k <= Size(q) + 1
    PROVE  IF k = 1 THEN Head(s) \in Showns
           ELSE /\ Head(s) = ShowOf(q, Size(q) + 2 - k)
                /\ Size(q) + 2 - k \in 1 .. Size(q)
<1>. PICK h \in Nat : h = Size(q)
  BY QueueFacts
<1>1. Len(s) \in Nat /\ Head(s) = s[1]
  BY Rest
<1>2. k \in 1 .. Len(s) /\ s[k] \in Showns
  BY DEF Carries
<1>3. ASSUME k # 1
      PROVE  s[1] = ShowOf(q, h + 2 - k) /\ h + 2 - k \in 1 .. h
  <2>1. 1 \in 1 .. k - 1 /\ 1 >= k - h /\ 1 + h + 1 - k = h + 2 - k /\ h + 2 - k \in 1 .. h
    BY <1>1, <1>2, <1>3
  <2>. QED
    BY <2>1 DEF Carries
<1>. QED
  BY <1>1, <1>2, <1>3

(* A message that is no part of a list leaves the lists as they are.       *)
LEMMA OtherRead ==
    ASSUME NEW s \in Seq(Message), s # <<>>, NEW t, NEW o, NEW f \in BOOLEAN,
           Orderly(s, t, o, f), Head(s) \notin Lists
    PROVE  /\ Orderly(Tail(s), t, o, f)
           /\ \A Q \in SUBSET Queue : Brings(s, t, o, f, Q) => Brings(Tail(s), t, o, f, Q)
<1>. PICK n \in Nat \ {0} : n = Len(s)
  BY Rest
<1>1. /\ Len(Tail(s)) = n - 1 /\ Head(s) = s[1]
      /\ \A i \in 1 .. n - 1 : Tail(s)[i] = s[i + 1]
  BY Rest
<1>2. ASSUME NEW q \in Queue, NEW k \in Int, Carries(s, t, o, f, q, k)
      PROVE  /\ k \in 2 .. n /\ ~(k <= Size(q) + 1)
  <2>1. k \in 1 .. n /\ s[k] \in Showns /\ Size(q) \in Nat
    BY <1>2, QueueFacts DEF Carries
  <2>2. k # 1
    BY <2>1, <1>1 DEF Lists
  <2>3. ASSUME k <= Size(q) + 1
        PROVE  FALSE
    BY <1>2, <2>2, <2>3, FirstOfReply, ShowIsShow DEF Lists
  <2>. QED
    BY <2>1, <2>2, <2>3
<1>3. t = <<>> /\ o = 0 /\ f = FALSE
  <2>1. t = <<>>
    <3>1. SUFFICES ASSUME t # <<>>
                   PROVE  FALSE
      OBVIOUS
    <3>2. PICK q \in Queue, k \in 1 .. n : Carries(s, t, o, f, q, k) /\ k <= Size(q)
      BY <3>1 DEF Orderly, Halfway
    <3>. QED
      BY <3>2, <1>2, QueueFacts
  <2>. QED
    BY <2>1 DEF Orderly, Halfway
<1>4. ASSUME NEW q \in Queue, NEW k \in Int, Carries(s, t, o, f, q, k)
      PROVE  k - 1 \in 1 .. n - 1 /\ Carries(Tail(s), t, o, f, q, k - 1)
  <2>1. k \in 2 .. n /\ ~(k <= Size(q) + 1) /\ Size(q) \in Nat
    BY <1>2, <1>4, QueueFacts
  <2>2. Begun(t, o, f, q) /\ Len(t) = 0
    BY <1>3, EmptyBegun
  <2>3. k <= Size(q) + 2 => Len(t) = Size(q) + 2 - k
    BY <2>1, <2>2
  <2>. QED
    <3>1. k # 1
      BY <2>1
    <3>2. k - 1 \in 1 .. Len(Tail(s)) /\ Carries(Tail(s), t, o, f, q, k - 1)
      BY <1>4, <2>2, <2>3, <3>1, CarriesRest
    <3>. QED
      BY <3>2, <1>1
<1>5. InReplies(Tail(s), t, o, f)
  <2>1. SUFFICES ASSUME NEW i \in 1 .. n - 1, Tail(s)[i] \in Lists
                 PROVE  \E q \in Queue, k \in i .. n - 1 :
                           Carries(Tail(s), t, o, f, q, k) /\ k - Size(q) <= i
    BY <1>1 DEF InReplies
  <2>2. i + 1 \in 1 .. n /\ s[i + 1] \in Lists
    BY <2>1, <1>1
  <2>3. PICK q \in Queue, k \in i + 1 .. n : Carries(s, t, o, f, q, k) /\ k - Size(q) <= i + 1
    BY <2>2 DEF Orderly, InReplies
  <2>4. k - 1 \in i .. n - 1 /\ Carries(Tail(s), t, o, f, q, k - 1) /\ k - 1 - Size(q) <= i
    <3>. PICK h \in Nat : h = Size(q)
      BY QueueFacts
    <3>1. k - 1 \in i .. n - 1 /\ k - 1 - h <= i
      BY <2>3
    <3>. QED
      BY <2>3, <3>1, <1>4
  <2>. QED
    BY <2>4
<1>6. Halfway(Tail(s), t, o, f)
  BY <1>3 DEF Halfway
<1>7. ASSUME NEW Q \in SUBSET Queue, Brings(s, t, o, f, Q)
      PROVE  Brings(Tail(s), t, o, f, Q)
  <2>1. PICK q \in Q, k \in 1 .. n : LastIn(s, Showns, k) /\ Carries(s, t, o, f, q, k)
    BY <1>7 DEF Brings
  <2>2. k # 1
    BY <2>1, <1>2
  <2>. QED
    <3>1. k - 1 \in 1 .. n - 1 /\ Carries(Tail(s), t, o, f, q, k - 1)
      BY <2>1, <1>4
    <3>2. LastIn(Tail(s), Showns, k - 1)
      BY <2>1, <2>2, LatestRest
    <3>. QED
      BY <3>1, <3>2, <1>1 DEF Brings
<1>. QED
  BY <1>5, <1>6, <1>7 DEF Orderly

(* One more song of the list is read.                                      *)
LEMMA BegunMore ==
    ASSUME NEW q \in Queue, NEW t \in Seq(Song), NEW o, NEW f \in BOOLEAN,
           Begun(t, o, f, q), NEW m, m = ShowOf(q, Len(t) + 1), Len(t) + 1 <= Size(q),
           NEW f2, f2 = (f \/ m.playing), NEW o2, o2 = IF f2 THEN o ELSE o + 1
    PROVE  Begun(Append(t, m.song), o2, f2, q) /\ Append(t, m.song) \in Seq(Song)
<1>. PICK n \in Nat : n = Len(t)
  BY LenProperties
<1>1. n + 1 \in 1 .. Size(q)
  BY QueueFacts
<1>2. /\ m.song = q.songs[n + 1] /\ m.song \in Song
      /\ m.playing = (q.off = n)
  <2>1. n + 1 - 1 = n
    OBVIOUS
  <2>2. m.song = q.songs[n + 1] /\ m.playing = (q.off = n)
    BY <2>1 DEF ShowOf
  <2>3. m.song \in Song
    BY <1>1, ShowIsShow, Kinds
  <2>. QED
    BY <2>2, <2>3
<1>3. PICK u : u = Append(t, m.song)
  OBVIOUS
<1>4. /\ u \in Seq(Song) /\ Len(u) = n + 1 /\ u[n + 1] = m.song
      /\ \A j \in 1 .. n : u[j] = t[j]
  BY <1>2, <1>3, AppendProperties
<1>5. ASSUME NEW j \in 1 .. n + 1
      PROVE  u[j] = q.songs[j]
  <2>1. j \in 1 .. n \/ j = n + 1
    OBVIOUS
  <2>. QED
    BY <2>1, <1>2, <1>4 DEF Begun
<1>6. q.off \in Int
  BY QueueFacts
<1>7. f = (q.off \in 0 .. n - 1) /\ o = IF f THEN q.off ELSE n
  BY DEF Begun
<1>8. f2 = (q.off \in 0 .. n + 1 - 1)
  <2>1. (q.off \in 0 .. n + 1 - 1) <=> (q.off \in 0 .. n - 1 \/ q.off = n)
    BY <1>6
  <2>2. CASE f = TRUE
    <3>1. q.off \in 0 .. n - 1
      BY <2>2, <1>7
    <3>2. f2 = TRUE
      BY <2>2
    <3>. QED
      BY <2>1, <3>1, <3>2
  <2>3. CASE f = FALSE
    <3>1. q.off \notin 0 .. n - 1
      BY <2>3, <1>7
    <3>2. f2 = (q.off = n)
      BY <2>3, <1>2
    <3>. QED
      BY <2>1, <3>1, <3>2
  <2>. QED
    BY <2>2, <2>3
<1>9. o2 = IF f2 THEN q.off ELSE n + 1
  BY <1>2, <1>6, <1>7
<1>10. Len(u) <= Size(q)
  BY <1>1, <1>4
<1>11. Begun(u, o2, f2, q)
  BY <1>4, <1>5, <1>8, <1>9, <1>10 DEF Begun
<1>. QED
  BY <1>3, <1>4, <1>11

LEMMA ShowRead ==
    ASSUME NEW s \in Seq(Message), s # <<>>, NEW t \in Seq(Song), NEW o, NEW f \in BOOLEAN,
           Orderly(s, t, o, f), Head(s) \in Shows,
           NEW t2, t2 = Append(t, Head(s).song),
           NEW f2, f2 = (f \/ Head(s).playing), NEW o2, o2 = IF f2 THEN o ELSE o + 1
    PROVE  /\ Orderly(Tail(s), t2, o2, f2)
           /\ \A Q \in SUBSET Queue : Brings(s, t, o, f, Q) => Brings(Tail(s), t2, o2, f2, Q)
           /\ \E q \in Queue : /\ Begun(t, o, f, q) /\ Len(t) + 1 <= Size(q)
                               /\ Head(s) = ShowOf(q, Len(t) + 1)
<1>. PICK n \in Nat \ {0} : n = Len(s)
  BY Rest
<1>1. /\ Len(Tail(s)) = n - 1 /\ Head(s) = s[1]
      /\ \A i \in 1 .. n - 1 : Tail(s)[i] = s[i + 1]
  BY Rest
<1>2. Head(s) \notin Showns
  BY Kinds
<1>. PICK l \in Nat : l = Len(t)
  BY LenProperties
<1>3. Len(t2) = l + 1 /\ t2 # <<>>
  BY Kinds, AppendProperties
<1>4. ASSUME NEW q \in Queue, NEW k \in Int, Carries(s, t, o, f, q, k), k <= Size(q) + 1
      PROVE  /\ k \in 2 .. n
             /\ Begun(t, o, f, q) /\ l + 1 <= Size(q) /\ Head(s) = ShowOf(q, l + 1)
             /\ Begun(t2, o2, f2, q) /\ l + 1 = Size(q) + 2 - k
  <2>1. k \in 1 .. n /\ s[k] \in Showns /\ Begun(t, o, f, q) /\ l = Size(q) + 1 - k
    BY <1>4 DEF Carries
  <2>2. k # 1
    BY <2>1, <1>1, <1>2
  <2>3. Head(s) = ShowOf(q, Size(q) + 2 - k)
    BY <1>4, <2>2, FirstOfReply
  <2>4. l + 1 <= Size(q) /\ l + 1 = Size(q) + 2 - k /\ k \in 2 .. n
    BY <2>1, <2>2, QueueFacts
  <2>5. Head(s) = ShowOf(q, l + 1)
    BY <2>3, <2>4
  <2>6. Begun(t2, o2, f2, q)
    BY <2>1, <2>4, <2>5, BegunMore
  <2>. QED
    BY <2>1, <2>4, <2>5, <2>6
<1>5. ASSUME NEW q \in Queue, NEW k \in Int, Carries(s, t, o, f, q, k)
      PROVE  /\ k # 1 /\ k \in 1 .. n
             /\ k - 1 \in 1 .. n - 1 /\ Carries(Tail(s), t2, o2, f2, q, k - 1)
  <2>1. k \in 1 .. n /\ s[k] \in Showns /\ Size(q) \in Nat
    BY <1>5, QueueFacts DEF Carries
  <2>2. k # 1
    BY <2>1, <1>1, <1>2
  <2>3. ASSUME k <= Size(q) + 2
        PROVE  Begun(t2, o2, f2, q) /\ Len(t2) = Size(q) + 2 - k
    <3>1. CASE k <= Size(q) + 1
      BY <3>1, <1>3, <1>4, <1>5
    <3>2. CASE k = Size(q) + 2
      <4>1. k - Size(q) - 1 = 1 /\ ~(k <= Size(q) + 1)
        BY <3>2, <2>1
      <4>2. s[1] \notin Shows
        BY <4>1, <1>5 DEF Carries
      <4>. QED
        BY <4>2, <1>1
    <3>. QED
      BY <2>1, <2>3, <3>1, <3>2
  <2>4. k - 1 \in 1 .. Len(Tail(s)) /\ Carries(Tail(s), t2, o2, f2, q, k - 1)
    BY <1>5, <2>2, <2>3, CarriesRest
  <2>. QED
    BY <2>1, <2>2, <2>4, <1>1
<1>6. PICK q \in Queue, k \in 1 .. n : Carries(s, t, o, f, q, k) /\ k <= Size(q) + 1
  <2>1. PICK q \in Queue, k \in 1 .. n : Carries(s, t, o, f, q, k) /\ k - Size(q) <= 1
    BY <1>1 DEF Orderly, InReplies, Lists
  <2>2. k <= Size(q) + 1
    BY <2>1, QueueFacts
  <2>. QED
    BY <2>1, <2>2
<1>7. InReplies(Tail(s), t2, o2, f2)
  <2>1. SUFFICES ASSUME NEW i \in 1 .. n - 1, Tail(s)[i] \in Lists
                 PROVE  \E p \in Queue, j \in i .. n - 1 :
                           Carries(Tail(s), t2, o2, f2, p, j) /\ j - Size(p) <= i
    BY <1>1 DEF InReplies
  <2>2. i + 1 \in 1 .. n /\ s[i + 1] \in Lists
    BY <2>1, <1>1
  <2>3. PICK p \in Queue, j \in i + 1 .. n : Carries(s, t, o, f, p, j) /\ j - Size(p) <= i + 1
    BY <2>2 DEF Orderly, InReplies
  <2>4. j - 1 \in i .. n - 1 /\ j - 1 - Size(p) <= i
    BY <2>3, QueueFacts
  <2>5. Carries(Tail(s), t2, o2, f2, p, j - 1)
    BY <2>3, <1>5
  <2>. QED
    BY <2>4, <2>5
<1>8. Halfway(Tail(s), t2, o2, f2)
  <2>1. k - 1 \in 1 .. n - 1 /\ Carries(Tail(s), t2, o2, f2, q, k - 1)
    BY <1>5, <1>6
  <2>2. k - 1 <= Size(q)
    BY <1>6, QueueFacts
  <2>. QED
    BY <2>1, <2>2, <1>1, <1>3 DEF Halfway
<1>9. ASSUME NEW Q \in SUBSET Queue, Brings(s, t, o, f, Q)
      PROVE  Brings(Tail(s), t2, o2, f2, Q)
  <2>1. PICK p \in Q, j \in 1 .. n : LastIn(s, Showns, j) /\ Carries(s, t, o, f, p, j)
    BY <1>9 DEF Brings
  <2>2. j # 1 /\ j - 1 \in 1 .. n - 1 /\ Carries(Tail(s), t2, o2, f2, p, j - 1)
    BY <2>1, <1>5
  <2>3. LastIn(Tail(s), Showns, j - 1)
    BY <2>1, <2>2, LatestRest
  <2>. QED
    BY <2>2, <2>3, <1>1 DEF Brings
<1>10. Begun(t, o, f, q) /\ Len(t) + 1 <= Size(q) /\ Head(s) = ShowOf(q, Len(t) + 1)
  BY <1>4, <1>6
<1>. QED
  BY <1>7, <1>8, <1>9, <1>10 DEF Orderly

(* The end of the list is read: it becomes the copy.                       *)
LEMMA SwapGivesQueue ==
    ASSUME NEW q \in Queue, NEW t \in Seq(Song), NEW o, NEW f \in BOOLEAN,
           Begun(t, o, f, q), Len(t) = Size(q)
    PROVE  Swap(t, IF t = <<>> THEN -1 ELSE o) = q /\ t = q.songs
<1>1. q = [songs |-> q.songs, off |-> q.off] /\ q.songs \in Seq(Song)
  BY NotifierAssumption
<1>2. t = q.songs
  <2>1. Len(t) = Len(q.songs) /\ \A j \in 1 .. Len(t) : t[j] = q.songs[j]
    BY DEF Begun, Size
  <2>. QED
    BY <1>1, <2>1, SeqEqual
<1>3. PICK n \in Nat : n = Len(t)
  BY LenProperties
<1>4. q.off \in -1 .. n - 1 /\ f = (q.off \in 0 .. n - 1) /\ o = IF f THEN q.off ELSE n
  BY <1>3, QueueFacts DEF Begun
<1>5. t = <<>> => n = 0
  BY <1>3
<1>6. PICK p \in {-1, o} : p = IF t = <<>> THEN -1 ELSE o
  OBVIOUS
<1>7. (IF p < n THEN p ELSE -1) = q.off
  <2>1. CASE t = <<>>
    BY <2>1, <1>4, <1>5, <1>6
  <2>2. CASE t # <<>> /\ f
    BY <2>2, <1>4, <1>6
  <2>3. CASE t # <<>> /\ ~f
    <3>1. q.off = -1 /\ p = n
      <4>1. f = FALSE /\ p = o
        BY <2>3, <1>6
      <4>2. q.off \notin 0 .. n - 1 /\ o = n
        BY <4>1, <1>4
      <4>3. q.off \in -1 .. n - 1
        BY <1>4
      <4>. QED
        BY <4>1, <4>2, <4>3
    <3>. QED
      BY <3>1
  <2>. QED
    BY <2>1, <2>2, <2>3
<1>8. Swap(t, p) = [songs |-> t, off |-> IF p < n THEN p ELSE -1]
  BY <1>3 DEF Swap
<1>. QED
  BY <1>1, <1>2, <1>6, <1>7, <1>8

LEMMA ShownRead ==
    ASSUME NEW s \in Seq(Message), s # <<>>, NEW t \in Seq(Song), NEW o, NEW f \in BOOLEAN,
           Orderly(s, t, o, f), Head(s) \in Showns,
           NEW t2, t2 = <<>>, NEW o2, o2 = 0, NEW f2 \in BOOLEAN, ~f2,
           NEW c, c = Swap(t, IF t = <<>> THEN -1 ELSE o)
    PROVE  /\ Orderly(Tail(s), t2, o2, f2)
           /\ \A Q \in SUBSET Queue : Brings(s, t, o, f, Q) =>
                 \/ Brings(Tail(s), t2, o2, f2, Q)
                 \/ ~Some(Tail(s), Showns) /\ c \in Q
           /\ c \in Queue /\ t = c.songs /\ Begun(t, o, f, c)
<1>. PICK n \in Nat \ {0} : n = Len(s)
  BY Rest
<1>1. /\ Len(Tail(s)) = n - 1 /\ Head(s) = s[1]
      /\ \A i \in 1 .. n - 1 : Tail(s)[i] = s[i + 1]
  BY Rest
<1>2. Head(s) \notin Shows
  BY Kinds
<1>3. ASSUME NEW q \in Queue, Carries(s, t, o, f, q, 1)
      PROVE  c = q /\ t = q.songs /\ Begun(t, o, f, q)
  <2>1. Size(q) \in Nat /\ 1 <= Size(q) + 1 /\ Size(q) + 1 - 1 = Size(q)
    BY QueueFacts
  <2>2. Begun(t, o, f, q) /\ Len(t) = Size(q)
    BY <1>3, <2>1 DEF Carries
  <2>. QED
    BY <2>2, SwapGivesQueue
<1>4. ASSUME NEW q \in Queue, NEW k \in Int, Carries(s, t, o, f, q, k), k # 1
      PROVE  /\ k \in 2 .. n /\ ~(k <= Size(q) + 1)
             /\ k - 1 \in 1 .. n - 1 /\ Carries(Tail(s), t2, o2, f2, q, k - 1)
  <2>1. k \in 2 .. n /\ Size(q) \in Nat
    BY <1>4, QueueFacts DEF Carries
  <2>2. ASSUME k <= Size(q) + 1
        PROVE  FALSE
    BY <1>2, <1>4, <2>2, FirstOfReply, ShowIsShow
  <2>3. Begun(t2, o2, f2, q) /\ Len(t2) = 0
    BY EmptyBegun
  <2>4. k <= Size(q) + 2 => Len(t2) = Size(q) + 2 - k
    <3>1. ~(k <= Size(q) + 1)
      BY <2>2
    <3>. QED
      BY ONLY <2>1, <2>3, <3>1, n \in Nat
  <2>5. k - 1 \in 1 .. Len(Tail(s)) /\ Carries(Tail(s), t2, o2, f2, q, k - 1)
    BY <1>4, <2>3, <2>4, CarriesRest
  <2>. QED
    BY <2>1, <2>2, <2>5, <1>1
<1>5. PICK q \in Queue : Carries(s, t, o, f, q, 1)
  <2>1. PICK q \in Queue, k \in 1 .. n : Carries(s, t, o, f, q, k) /\ k - Size(q) <= 1
    BY <1>1 DEF Orderly, InReplies, Lists
  <2>2. k <= Size(q) + 1
    BY <2>1, QueueFacts
  <2>3. k = 1
    BY <2>1, <2>2, <1>4
  <2>. QED
    BY <2>1, <2>3
<1>6. InReplies(Tail(s), t2, o2, f2)
  <2>1. SUFFICES ASSUME NEW i \in 1 .. n - 1, Tail(s)[i] \in Lists
                 PROVE  \E p \in Queue, j \in i .. n - 1 :
                           Carries(Tail(s), t2, o2, f2, p, j) /\ j - Size(p) <= i
    BY <1>1 DEF InReplies
  <2>2. i + 1 \in 1 .. n /\ s[i + 1] \in Lists
    BY <2>1, <1>1
  <2>3. PICK p \in Queue, j \in i + 1 .. n : Carries(s, t, o, f, p, j) /\ j - Size(p) <= i + 1
    BY <2>2 DEF Orderly, InReplies
  <2>4. j # 1 /\ j - 1 \in i .. n - 1 /\ j - 1 - Size(p) <= i
    BY <2>3, QueueFacts
  <2>5. Carries(Tail(s), t2, o2, f2, p, j - 1)
    BY <2>3, <2>4, <1>4
  <2>. QED
    BY <2>4, <2>5
<1>7. Halfway(Tail(s), t2, o2, f2)
  BY DEF Halfway
<1>8. ASSUME NEW Q \in SUBSET Queue, Brings(s, t, o, f, Q)
      PROVE  \/ Brings(Tail(s), t2, o2, f2, Q)
             \/ ~Some(Tail(s), Showns) /\ c \in Q
  <2>1. PICK p \in Q, j \in 1 .. n : LastIn(s, Showns, j) /\ Carries(s, t, o, f, p, j)
    BY <1>8 DEF Brings
  <2>2. CASE j = 1
    BY <2>1, <2>2, <1>3, LatestRest
  <2>3. CASE j # 1
    <3>1. j - 1 \in 1 .. n - 1 /\ Carries(Tail(s), t2, o2, f2, p, j - 1)
      BY <2>1, <2>3, <1>4
    <3>2. LastIn(Tail(s), Showns, j - 1)
      BY <2>1, <2>3, LatestRest
    <3>. QED
      BY <3>1, <3>2, <1>1 DEF Brings
  <2>. QED
    BY <2>2, <2>3
<1>9. c \in Queue /\ t = c.songs /\ Begun(t, o, f, c)
  BY <1>3, <1>5
<1>. QED
  BY <1>6, <1>7, <1>8, <1>9 DEF Orderly

-----------------------------------------------------------------------------
(* What the daemon does, as far as the two programs are concerned.         *)
Types ==
    /\ queue \in Queue /\ playback \in PlaybackType /\ mode \in Mode /\ position \in Position
    /\ toDaemon \in Seq(Asked) /\ batch \in 0 .. Len(toDaemon) /\ monitor \in BOOLEAN
    /\ toClient \in Seq(Message)
    /\ queueSince \in SUBSET Queue /\ playSince \in SUBSET PlaybackType
    /\ who \in {"web", "mpris2"}

Since == monitor => queue \in queueSince /\ playback \in playSince

(* The messages that tell the modes to the web interface, and those that   *)
(* tell them to the bridge.                                                *)
ModeNews == Statuses \cup NoticesOf({"mode"})

(* A handler has sent the messages n: what has changed is told by an event *)
(* among them, or remembered beside what was there before.                 *)
Happened(n) ==
    /\ queue' \in Queue /\ playback' \in PlaybackType /\ mode' \in Mode /\ position' \in Position
    /\ queueSince' \in SUBSET Queue /\ playSince' \in SUBSET PlaybackType
    /\ monitor' = monitor /\ toClient' = toClient \o n
    /\ n \in Seq(Message) /\ ~Some(n, Lists)
    /\ monitor =>
          /\ queue' \in queueSince' /\ playback' \in playSince'
          /\ Some(n, NoticesOf(Reloading)) \/ queueSince \subseteq queueSince'
          /\ Some(n, NoticesOf(Restating)) \/ playSince \subseteq playSince'
          /\ Some(n, NoticesOf({"mode"})) \/ mode' = mode
          /\ \/ Latest(n, ModeNews, Telling(ModeNews, mode'))
             \/ ~Some(n, ModeNews) /\ mode' = mode
    /\ \/ ~Some(n, Statuses)
       \/ Latest(n, Statuses, StatusesOf({playback'}) \cap Telling(Statuses, mode'))

LEMMA StatusIsStatus ==
    ASSUME NEW p \in PlaybackType, NEW m \in Mode, NEW at \in Position
    PROVE  /\ StatusOf(p, m, at) \in Statuses /\ StatusOf(p, m, at).playback = p
           /\ StatusOf(p, m, at).mode = m /\ StatusOf(p, m, at).position = at
BY DEF StatusOf, Statuses

LEMMA NoticeIsNotice ==
    ASSUME NEW e \in Event, NEW m \in Mode, position \in Position
    PROVE  /\ Notice(e, m) \in Notices /\ Notice(e, m).event = e
           /\ Notice(e, m).mode = m /\ Notice(e, m).position = position
BY DEF Notice, Notices

LEMMA HandledTells ==
    ASSUME Types, NEW e \in Event \cup {"nothing"}, NEW replies,
           Handled(e, mode', replies), UNCHANGED monitor, e = "mode" \/ mode' = mode,
           queue' \in Queue, playback' \in PlaybackType, mode' \in Mode, position' \in Position,
           \/ replies = <<>>
           \/ replies = <<[type |-> "err"]>>
           \/ replies = <<StatusOf(playback', mode', position)>>
    PROVE  \E n : Happened(n) /\ (replies = <<>> /\ ~monitor => n = <<>>)
<1>. PICK told : told = (IF e = "nothing" THEN <<>> ELSE Told(e, mode'))
  OBVIOUS
<1>1. toClient' = toClient \o told \o replies /\ toClient \in Seq(Message)
  BY DEF Handled, Types
<1>2. \/ (e = "nothing" \/ ~monitor) /\ told = <<>>
      \/ monitor /\ e \in Event /\ told = <<Notice(e, mode')>>
  BY DEF Told
<1>3. /\ StatusOf(playback', mode', position) \in Statuses
      /\ StatusOf(playback', mode', position) \in
            StatusesOf({playback'}) \cap Telling(Statuses, mode')
      /\ StatusOf(playback', mode', position) \in Telling(ModeNews, mode')
  BY StatusIsStatus DEF StatusesOf, Telling, ModeNews, Types
<1>4. [type |-> "err"] \in Errs
  BY DEF Errs
<1>5. e \in Event => /\ Notice(e, mode') \in Notices /\ Notice(e, mode').event = e
                     /\ Notice(e, mode').mode = mode'
  BY NoticeIsNotice DEF Types
<1>6. /\ told \in Seq(Message) /\ ~Some(told, Lists) /\ ~Some(told, Statuses)
      /\ \A E : monitor /\ e \in E /\ e \in Event => Some(told, NoticesOf(E))
      /\ \/ monitor /\ e = "mode" /\ Latest(told, ModeNews, Telling(ModeNews, mode'))
         \/ ~Some(told, ModeNews)
      /\ told = <<>> \/ monitor
  <2>1. CASE told = <<>>
    <3>1. \A K : ~Some(told, K)
      BY <2>1, Single
    <3>2. told \in Seq(Message)
      BY <2>1, EmptySeq
    <3>3. ~(monitor /\ e \in Event)
      <4>1. <<>> # <<Notice(e, mode')>>
        OBVIOUS
      <4>2. "nothing" \notin Event
        BY DEF Event
      <4>. QED
        BY <2>1, <4>1, <4>2, <1>2
    <3>. QED
      BY <2>1, <3>1, <3>2, <3>3
  <2>2. CASE monitor /\ e \in Event /\ told = <<Notice(e, mode')>>
    <3>. PICK x : x = Notice(e, mode')
      OBVIOUS
    <3>1. x \in Notices /\ x.event = e /\ x.mode = mode' /\ told = <<x>>
      BY <2>2, <1>5
    <3>2. x \in Message /\ x \notin Lists /\ x \notin Statuses
      BY <3>1, Kinds DEF Lists, Message
    <3>3. \A E : e \in E => x \in NoticesOf(E)
      BY <3>1 DEF NoticesOf
    <3>4. IF e = "mode" THEN x \in ModeNews /\ x \in Telling(ModeNews, mode')
                        ELSE x \notin ModeNews
      BY <3>1, <3>2, <3>3 DEF ModeNews, Telling, NoticesOf
    <3>5. told \in Seq(Message)
      BY <3>1, <3>2
    <3>. QED
      BY <2>2, <3>1, <3>2, <3>3, <3>4, <3>5, Single
  <2>. QED
    BY <1>2, <2>1, <2>2
<1>7. /\ replies \in Seq(Message) /\ ~Some(replies, Lists)
      /\ \/ ~Some(replies, Statuses) /\ ~Some(replies, ModeNews)
         \/ /\ Latest(replies, Statuses, StatusesOf({playback'}) \cap Telling(Statuses, mode'))
            /\ Latest(replies, ModeNews, Telling(ModeNews, mode'))
  <2>1. CASE replies = <<>>
    BY <2>1, Single, EmptySeq
  <2>2. CASE replies = <<[type |-> "err"]>>
    <3>. PICK x : x = [type |-> "err"]
      OBVIOUS
    <3>1. /\ x \in Message /\ x \notin Lists /\ x \notin Statuses /\ x \notin ModeNews
      BY <1>4, Kinds DEF Lists, Message, ModeNews, NoticesOf
    <3>2. replies \in Seq(Message) /\ replies = <<x>>
      BY <2>2, <3>1
    <3>. QED
      BY <3>1, <3>2, Single
  <2>3. CASE replies = <<StatusOf(playback', mode', position)>>
    <3>. PICK x : x = StatusOf(playback', mode', position)
      OBVIOUS
    <3>1. /\ x \in Message /\ x \notin Lists /\ x \in Statuses /\ x \in ModeNews
          /\ x \in StatusesOf({playback'}) \cap Telling(Statuses, mode')
          /\ x \in Telling(ModeNews, mode')
      BY <1>3, Kinds DEF Lists, Message, ModeNews
    <3>2. replies \in Seq(Message) /\ replies = <<x>>
      BY <2>3, <3>1
    <3>. QED
      BY <3>1, <3>2, Single
  <2>. QED
    BY <2>1, <2>2, <2>3
<1>. PICK n : n = told \o replies
  OBVIOUS
<1>8. n \in Seq(Message) /\ toClient' = toClient \o n
  <2>1. n \in Seq(Message)
    BY <1>6, <1>7, ConcatProperties
  <2>2. (toClient \o told) \o replies = toClient \o (told \o replies)
    <3>1. toClient \in Seq(Message) /\ told \in Seq(Message) /\ replies \in Seq(Message)
      BY <1>1, <1>6, <1>7
    <3>. QED
      BY ONLY <3>1, ConcatAssociative
  <2>. QED
    BY <1>1, <2>1, <2>2
<1>9. /\ ~Some(n, Lists)
      /\ \A E : monitor /\ e \in E /\ e \in Event => Some(n, NoticesOf(E))
      /\ \/ Latest(n, ModeNews, Telling(ModeNews, mode'))
         \/ ~Some(n, ModeNews) /\ ~(monitor /\ e = "mode")
      /\ \/ ~Some(n, Statuses)
         \/ Latest(n, Statuses, StatusesOf({playback'}) \cap Telling(Statuses, mode'))
  <2>1. ~Some(n, Lists)
    BY <1>6, <1>7, SomeJoined
  <2>2. \A E : monitor /\ e \in E /\ e \in Event => Some(n, NoticesOf(E))
    BY <1>6, <1>7, SomeJoined
  <2>3. \/ ~Some(n, Statuses)
        \/ Latest(n, Statuses, StatusesOf({playback'}) \cap Telling(Statuses, mode'))
    BY <1>6, <1>7, SomeJoined, LatestAdded
  <2>4. \/ Latest(n, ModeNews, Telling(ModeNews, mode'))
        \/ ~Some(n, ModeNews) /\ ~(monitor /\ e = "mode")
    <3>1. CASE Latest(replies, ModeNews, Telling(ModeNews, mode'))
      BY <3>1, <1>6, <1>7, LatestAdded
    <3>2. CASE ~Some(replies, ModeNews)
      <4>1. CASE Latest(told, ModeNews, Telling(ModeNews, mode'))
        BY <3>2, <4>1, <1>6, <1>7, LatestKept
      <4>2. CASE ~Some(told, ModeNews)
        <5>1. ~Some(n, ModeNews)
          BY <3>2, <4>2, <1>6, <1>7, SomeJoined
        <5>2. ~(monitor /\ e = "mode")
          <6>1. SUFFICES ASSUME monitor, e = "mode"
                         PROVE  FALSE
            OBVIOUS
          <6>2. Some(told, NoticesOf({"mode"}))
            BY <6>1, <1>6
          <6>. QED
            BY <6>2, <4>2 DEF Some, ModeNews
        <5>. QED
          BY <5>1, <5>2
      <4>. QED
        BY <4>1, <4>2, <1>6
    <3>. QED
      BY <3>1, <3>2, <1>7
  <2>. QED
    BY <2>1, <2>2, <2>3, <2>4
<1>10. queueSince' \in SUBSET Queue /\ playSince' \in SUBSET PlaybackType
  BY DEF Handled, Remember, Types
<1>11. ASSUME monitor
       PROVE  /\ queue' \in queueSince' /\ playback' \in playSince'
              /\ Some(n, NoticesOf(Reloading)) \/ queueSince \subseteq queueSince'
              /\ Some(n, NoticesOf(Restating)) \/ playSince \subseteq playSince'
              /\ Some(n, NoticesOf({"mode"})) \/ mode' = mode
              /\ \/ Latest(n, ModeNews, Telling(ModeNews, mode'))
                 \/ ~Some(n, ModeNews) /\ mode' = mode
  <2>1. queue' \in queueSince' /\ playback' \in playSince'
    BY DEF Handled, Remember
  <2>2. e \in Reloading \/ queueSince \subseteq queueSince'
    BY <1>11 DEF Handled, Remember
  <2>3. e \in Restating \/ playSince \subseteq playSince'
    BY <1>11 DEF Handled, Remember
  <2>4. Reloading \subseteq Event /\ Restating \subseteq Event /\ "mode" \in Event
    BY DEF Reloading, Restating, Event
  <2>5. e = "mode" => Some(n, NoticesOf({"mode"}))
    BY <1>9, <1>11, <2>4
  <2>. QED
    BY <1>9, <1>11, <2>1, <2>2, <2>3, <2>4, <2>5
<1>12. replies = <<>> /\ ~monitor => n = <<>>
  BY <1>6, ConcatEmptySeq
<1>. QED
  BY <1>8, <1>9, <1>10, <1>11, <1>12 DEF Happened

LEMMA AtOffIsSong ==
    ASSUME NEW q \in Queue
    PROVE  AtOff(q) \in Song \cup {None}
<1>1. CASE q.off = -1
  BY <1>1 DEF AtOff
<1>2. CASE q.off # -1
  <2>1. q.off + 1 \in 1 .. Len(q.songs) /\ q.songs \in Seq(Song)
    BY <1>2, QueueFacts DEF Size
  <2>2. q.songs[q.off + 1] \in Song
    BY <2>1, ElementOfSeq
  <2>. QED
    BY <1>2, <2>2 DEF AtOff
<1>. QED
  BY <1>1, <1>2

LEMMA SoughtTypes ==
    ASSUME Sought
    PROVE  queue' \in Queue /\ playback' \in PlaybackType
<1>1. queue' \in Queue
  BY DEF Sought
<1>2. CASE queue'.off = -1
  BY <1>1, <1>2, NotifierAssumption DEF Sought, PlaybackType
<1>3. CASE queue'.off # -1
  <2>1. playback' = [state |-> "playing", song |-> AtOff(queue')]
    BY <1>3 DEF Sought
  <2>2. AtOff(queue') \in Song \cup {None}
    BY <1>1, AtOffIsSong
  <2>. QED
    BY <1>1, <2>1, <2>2 DEF PlaybackType
<1>. QED
  BY <1>2, <1>3

(* Each of the changes.                                                    *)
Changes(replies) == \E n : Happened(n) /\ (replies = <<>> /\ ~monitor => n = <<>>)

LEMMA EditTells ==
    ASSUME Types, Edit
    PROVE  Changes(<<>>)
<1>1. queue' \in Queue /\ AtOff(queue') \in Song \cup {None}
  BY AtOffIsSong DEF Edit
<1>2. playback' \in PlaybackType
  BY <1>1 DEF Edit, Types, PlaybackType
<1>3. Handled("commit", mode', <<>>) /\ UNCHANGED <<mode, position, monitor>>
  BY DEF Edit, Change
<1>4. "commit" \in Event
  BY DEF Event
<1>5. mode' \in Mode /\ position' \in Position /\ monitor' = monitor /\ mode' = mode
  BY <1>3 DEF Types
<1>. QED
  BY <1>1, <1>2, <1>3, <1>4, <1>5, HandledTells DEF Changes

LEMMA AddTells ==
    ASSUME Types, AddSong
    PROVE  Changes(<<>>)
<1>1. queue' \in Queue /\ playback' \in PlaybackType
  BY DEF AddSong, Types
<1>2. Handled("add", mode', <<>>) /\ UNCHANGED <<mode, position, monitor>>
  BY DEF AddSong, Change
<1>3. "add" \in Event
  BY DEF Event
<1>4. mode' \in Mode /\ position' \in Position /\ monitor' = monitor /\ mode' = mode
  BY <1>2 DEF Types
<1>. QED
  BY <1>1, <1>2, <1>3, <1>4, HandledTells DEF Changes

LEMMA MoveTells ==
    ASSUME Types, NEW e \in Event, NEW replies, Move(e, replies),
           \/ replies = <<>>
           \/ replies = <<[type |-> "err"]>>
           \/ replies = <<StatusOf(playback', mode, position)>>
    PROVE  Changes(replies)
<1>1. queue' \in Queue /\ playback' \in PlaybackType
  BY SoughtTypes DEF Move
<1>2. Handled(e, mode', replies) /\ UNCHANGED <<mode, position, monitor>>
  BY DEF Move, Change
<1>3. mode' \in Mode /\ position' \in Position /\ monitor' = monitor /\ mode' = mode
  BY <1>2 DEF Types
<1>4. \/ replies = <<>>
      \/ replies = <<[type |-> "err"]>>
      \/ replies = <<StatusOf(playback', mode', position)>>
  BY <1>3
<1>. QED
  BY <1>1, <1>2, <1>3, <1>4, HandledTells DEF Changes

LEMMA StartTells ==
    ASSUME Types, Starts
    PROVE  Changes(<<>>)
<1>1. PICK e \in {"play", "nothing"} : Start(e)
  BY DEF Starts
<1>2. queue' \in Queue /\ playback' \in PlaybackType
  <2>1. CASE Sought
    BY <2>1, SoughtTypes
  <2>2. CASE playback' = [playback EXCEPT !.state = "playing"] /\ UNCHANGED queue
    BY <2>2 DEF Types, PlaybackType
  <2>. QED
    BY <1>1, <2>1, <2>2 DEF Start
<1>3. Handled(e, mode', <<>>) /\ UNCHANGED <<mode, position, monitor>>
  BY <1>1 DEF Start, Change
<1>4. e \in Event \cup {"nothing"}
  BY DEF Event
<1>5. mode' \in Mode /\ position' \in Position /\ monitor' = monitor /\ mode' = mode
  BY <1>3 DEF Types
<1>. QED
  BY <1>2, <1>3, <1>4, <1>5, HandledTells DEF Changes

LEMMA PauseTells ==
    ASSUME Types, PauseOrStop
    PROVE  Changes(<<>>)
<1>1. PICK e \in {"pause", "stop"} :
          /\ playback' = [playback EXCEPT !.state = IF e = "pause" THEN "paused" ELSE "stopped"]
          /\ UNCHANGED <<queue, mode>>
          /\ Change(e, <<>>)
  BY DEF PauseOrStop
<1>2. queue' \in Queue /\ playback' \in PlaybackType
  BY <1>1 DEF Types, PlaybackType
<1>3. Handled(e, mode', <<>>) /\ UNCHANGED <<mode, position, monitor>>
  BY <1>1 DEF Change
<1>4. e \in Event
  BY DEF Event
<1>5. mode' \in Mode /\ position' \in Position /\ monitor' = monitor /\ mode' = mode
  BY <1>3 DEF Types
<1>. QED
  BY <1>2, <1>3, <1>4, <1>5, HandledTells DEF Changes

LEMMA ModeTells ==
    ASSUME Types, SetMode
    PROVE  Changes(<<>>)
<1>1. queue' \in Queue /\ playback' \in PlaybackType /\ mode' \in Mode
  BY DEF SetMode, Types
<1>2. Handled("mode", mode', <<>>) /\ UNCHANGED <<position, monitor>>
  BY DEF SetMode, Change
<1>3. "mode" \in Event
  BY DEF Event
<1>4. position' \in Position /\ monitor' = monitor
  BY <1>2 DEF Types
<1>. QED
  BY <1>1, <1>2, <1>3, <1>4, HandledTells DEF Changes

LEMMA EndTells ==
    ASSUME Types, TrackEnds
    PROVE  Changes(<<>>)
<1>1. queue' \in Queue /\ playback' \in PlaybackType
  BY SoughtTypes DEF TrackEnds
<1>2. PICK e \in {"next", "stop"} : e = IF playback'.state = "playing" THEN "next" ELSE "stop"
  OBVIOUS
<1>3. Handled(e, mode', <<>>) /\ UNCHANGED <<mode, position, monitor>>
  BY <1>2 DEF TrackEnds, Change
<1>4. e \in Event
  BY DEF Event
<1>5. mode' \in Mode /\ position' \in Position /\ monitor' = monitor /\ mode' = mode
  BY <1>3 DEF Types
<1>. QED
  BY <1>1, <1>3, <1>4, <1>5, HandledTells DEF Changes

LEMMA MetaTells ==
    ASSUME Types, Meta
    PROVE  Changes(<<>>)
<1>1. queue' \in Queue /\ playback' \in PlaybackType /\ mode' \in Mode /\ position' \in Position
  BY DEF Meta, Types
<1>2. Handled("seek", mode', <<>>) /\ UNCHANGED <<mode, monitor>>
  BY DEF Meta
<1>3. "seek" \in Event /\ monitor' = monitor /\ mode' = mode
  BY <1>2 DEF Event
<1>. QED
  BY <1>1, <1>2, <1>3, HandledTells DEF Changes

(* A reply that is no list, where nothing changes.                         *)
LEMMA ReplyTells ==
    ASSUME Types, Since, NEW messages, Reply(messages),
           \/ messages = <<>>
           \/ messages = <<[type |-> "err"]>>
           \/ messages = <<StatusOf(playback, mode, position)>>
    PROVE  Happened(messages)
<1>1. /\ toClient' = toClient \o messages
      /\ UNCHANGED <<queue, playback, mode, position, monitor, queueSince, playSince>>
  BY DEF Reply, stateVars, historyVars
<1>2. /\ messages \in Seq(Message) /\ ~Some(messages, Lists)
      /\ \/ ~Some(messages, Statuses) /\ ~Some(messages, ModeNews)
         \/ /\ Latest(messages, Statuses, StatusesOf({playback}) \cap Telling(Statuses, mode))
            /\ Latest(messages, ModeNews, Telling(ModeNews, mode))
  <2>1. CASE messages = <<>>
    BY <2>1, Single, EmptySeq
  <2>2. CASE messages = <<[type |-> "err"]>>
    <3>. PICK x : x = [type |-> "err"]
      OBVIOUS
    <3>1. x \in Errs
      BY DEF Errs
    <3>2. /\ x \in Message /\ x \notin Lists /\ x \notin Statuses /\ x \notin ModeNews
      BY <3>1, Kinds DEF Lists, Message, ModeNews, NoticesOf
    <3>3. messages \in Seq(Message) /\ messages = <<x>>
      BY <2>2, <3>2
    <3>. QED
      BY <3>2, <3>3, Single
  <2>3. CASE messages = <<StatusOf(playback, mode, position)>>
    <3>. PICK x : x = StatusOf(playback, mode, position)
      OBVIOUS
    <3>1. x \in Statuses /\ x.playback = playback /\ x.mode = mode
      BY StatusIsStatus DEF Types
    <3>2. /\ x \in Message /\ x \notin Lists /\ x \in ModeNews
          /\ x \in StatusesOf({playback}) \cap Telling(Statuses, mode)
          /\ x \in Telling(ModeNews, mode)
      BY <3>1, Kinds DEF Lists, Message, ModeNews, StatusesOf, Telling
    <3>3. messages \in Seq(Message) /\ messages = <<x>>
      BY <2>3, <3>2
    <3>. QED
      BY <3>1, <3>2, <3>3, Single
  <2>. QED
    BY <2>1, <2>2, <2>3
<1>. QED
  BY <1>1, <1>2 DEF Happened, Types, Since

LEMMA ElsewhereTells ==
    ASSUME Types, Elsewhere
    PROVE  /\ batch = 0 /\ UNCHANGED <<toDaemon, batch>>
           /\ \E n : Happened(n) /\ (~monitor => n = <<>>)
<1>1. batch = 0 /\ UNCHANGED <<toDaemon, batch>>
  BY DEF Elsewhere
<1>2. Changes(<<>>)
  <2>1. CASE \/ Edit \/ AddSong \/ Starts \/ PauseOrStop \/ SetMode \/ TrackEnds \/ Meta
    BY <2>1, EditTells, AddTells, StartTells, PauseTells, ModeTells, EndTells, MetaTells
  <2>2. CASE Moves \/ Jump(<<>>)
    <3>1. PICK e \in {"next", "prev", "jump"} : Move(e, <<>>)
      BY <2>2 DEF Moves, Jump
    <3>2. e \in Event
      BY DEF Event
    <3>. QED
      BY <3>1, <3>2, MoveTells
  <2>. QED
    BY <2>1, <2>2 DEF Elsewhere
<1>. QED
  BY <1>1, <1>2 DEF Changes

LEMMA ServeTells ==
    ASSUME Types, Since, Serve
    PROVE  /\ batch > 0 /\ batch' = batch - 1 /\ toDaemon # <<>> /\ toDaemon' = Tail(toDaemon)
           /\ \/ Head(toDaemon) = "show" /\ Reply(ShowReply)
              \/ /\ Head(toDaemon) = "status"
                 /\ Happened(<<StatusOf(playback, mode, position)>>)
                 /\ UNCHANGED stateVars
              \/ Head(toDaemon) = "monitor" /\ StartMonitor
              \/ /\ Head(toDaemon) \notin {"show", "status", "monitor"}
                 /\ \E n : Happened(n)
<1>1. batch > 0 /\ batch' = batch - 1 /\ toDaemon' = Tail(toDaemon)
  BY DEF Serve
<1>2. toDaemon # <<>>
  <2>1. batch \in 0 .. Len(toDaemon) /\ Len(toDaemon) \in Nat
    BY LenProperties DEF Types
  <2>2. toDaemon = <<>> => Len(toDaemon) = 0
    OBVIOUS
  <2>. QED
    BY <1>1, <2>1, <2>2
<1>3. \A r : Changes(r) => \E n : Happened(n)
  BY DEF Changes
<1>4. CASE Head(toDaemon) = "status" /\ Reply(<<StatusOf(playback, mode, position)>>)
  <2>1. Happened(<<StatusOf(playback, mode, position)>>)
    BY <1>4, ReplyTells
  <2>. QED
    BY <1>1, <1>2, <1>4, <2>1 DEF Reply
<1>5. CASE Head(toDaemon) = "jump" /\ \/ Jump(<<StatusOf(playback', mode, position)>>)
                                      \/ Jump(<<[type |-> "err"]>>)
                                      \/ Reply(<<[type |-> "err"]>>)
  <2>1. "jump" \in Event
    BY DEF Event
  <2>2. \E n : Happened(n)
    BY <1>3, <1>5, <2>1, MoveTells, ReplyTells DEF Jump
  <2>. QED
    BY <1>1, <1>2, <1>5, <2>2
<1>6. CASE Head(toDaemon) = "skip" /\ Moves
  <2>1. PICK e \in {"next", "prev"} : Move(e, <<>>)
    BY <1>6 DEF Moves
  <2>2. e \in Event
    BY DEF Event
  <2>3. \E n : Happened(n)
    BY <1>3, <2>1, <2>2, MoveTells
  <2>. QED
    BY <1>1, <1>2, <1>6, <2>3
<1>7. CASE Head(toDaemon) = "start" /\ (Starts \/ Reply(<<>>))
  <2>1. \E n : Happened(n)
    BY <1>3, <1>7, StartTells, ReplyTells
  <2>. QED
    BY <1>1, <1>2, <1>7, <2>1
<1>8. CASE Head(toDaemon) = "pause" /\ (PauseOrStop \/ Reply(<<>>))
  <2>1. \E n : Happened(n)
    BY <1>3, <1>8, PauseTells, ReplyTells
  <2>. QED
    BY <1>1, <1>2, <1>8, <2>1
<1>9. CASE Head(toDaemon) = "mode" /\ SetMode
  <2>1. \E n : Happened(n)
    BY <1>3, <1>9, ModeTells
  <2>. QED
    BY <1>1, <1>2, <1>9, <2>1
<1>. QED
  BY <1>1, <1>2, <1>4, <1>5, <1>6, <1>7, <1>8, <1>9 DEF Serve

-----------------------------------------------------------------------------
(* What will be known when the messages s have been read: of the playback, *)
(* of the modes, and of the queue; h and c are what is held now.           *)
Played(s, h, P) == Latest(s, Statuses, StatusesOf(P)) \/ (~Some(s, Statuses) /\ h \in P)
Moded(s, K, h, m) == Latest(s, K, Telling(K, m)) \/ (~Some(s, K) /\ h = m)
Copied(s, t, o, f, c, Q) == Brings(s, t, o, f, Q) \/ (~Some(s, Showns) /\ c \in Q)

LEMMA PlayedRead ==
    ASSUME NEW s \in Seq(Message), s # <<>>, NEW h, NEW P, Played(s, h, P),
           NEW g, g = IF Head(s) \in Statuses THEN Head(s).playback ELSE h
    PROVE  Played(Tail(s), g, P)
<1>1. Some(s, Statuses) <=> Head(s) \in Statuses \/ Some(Tail(s), Statuses)
  BY SomeRest
<1>2. CASE Latest(s, Statuses, StatusesOf(P))
  <2>1. \/ Latest(Tail(s), Statuses, StatusesOf(P))
        \/ Head(s) \in Statuses \cap StatusesOf(P) /\ ~Some(Tail(s), Statuses)
    BY <1>2, LatestRest
  <2>. QED
    BY <2>1 DEF Played, StatusesOf
<1>3. CASE ~Some(s, Statuses) /\ h \in P
  BY <1>1, <1>3 DEF Played
<1>. QED
  BY <1>2, <1>3 DEF Played

LEMMA ModedRead ==
    ASSUME NEW s \in Seq(Message), s # <<>>, NEW K, NEW h, NEW m, Moded(s, K, h, m),
           NEW g, g = IF Head(s) \in K THEN Head(s).mode ELSE h
    PROVE  Moded(Tail(s), K, g, m)
<1>1. Some(s, K) <=> Head(s) \in K \/ Some(Tail(s), K)
  BY SomeRest
<1>2. CASE Latest(s, K, Telling(K, m))
  <2>1. \/ Latest(Tail(s), K, Telling(K, m))
        \/ Head(s) \in K \cap Telling(K, m) /\ ~Some(Tail(s), K)
    BY <1>2, LatestRest
  <2>. QED
    BY <2>1 DEF Moded, Telling
<1>3. CASE ~Some(s, K) /\ h = m
  BY <1>1, <1>3 DEF Moded
<1>. QED
  BY <1>2, <1>3 DEF Moded

LEMMA LatestMore ==
    ASSUME NEW s, NEW K, NEW V, NEW W, Latest(s, K, V), V \subseteq W
    PROVE  Latest(s, K, W)
BY DEF Latest

LEMMA PlayedJoined ==
    ASSUME NEW s \in Seq(Message), NEW n \in Seq(Message), NEW h, NEW P, NEW R,
           \/ Played(s, h, P) /\ P \subseteq R /\ ~Some(n, Statuses)
           \/ Latest(n, Statuses, StatusesOf(R))
    PROVE  Played(s \o n, h, R)
<1>1. CASE Latest(n, Statuses, StatusesOf(R))
  BY <1>1, LatestAdded DEF Played
<1>2. CASE Played(s, h, P) /\ P \subseteq R /\ ~Some(n, Statuses)
  <2>1. CASE Latest(s, Statuses, StatusesOf(P))
    <3>1. StatusesOf(P) \subseteq StatusesOf(R)
      BY <1>2 DEF StatusesOf
    <3>. QED
      BY <1>2, <2>1, <3>1, LatestMore, LatestKept DEF Played
  <2>2. CASE ~Some(s, Statuses) /\ h \in P
    BY <1>2, <2>2, SomeJoined DEF Played
  <2>. QED
    BY <1>2, <2>1, <2>2 DEF Played
<1>. QED
  BY <1>1, <1>2

LEMMA ModedJoined ==
    ASSUME NEW s \in Seq(Message), NEW n \in Seq(Message), NEW K, NEW h, NEW m, NEW m2,
           \/ Moded(s, K, h, m) /\ m2 = m /\ ~Some(n, K)
           \/ Latest(n, K, Telling(K, m2))
    PROVE  Moded(s \o n, K, h, m2)
<1>1. CASE Latest(n, K, Telling(K, m2))
  BY <1>1, LatestAdded DEF Moded
<1>2. CASE Moded(s, K, h, m) /\ m2 = m /\ ~Some(n, K)
  <2>1. CASE Latest(s, K, Telling(K, m))
    BY <1>2, <2>1, LatestKept DEF Moded
  <2>2. CASE ~Some(s, K) /\ h = m
    BY <1>2, <2>2, SomeJoined DEF Moded
  <2>. QED
    BY <1>2, <2>1, <2>2 DEF Moded
<1>. QED
  BY <1>1, <1>2

LEMMA CopiedJoined ==
    ASSUME NEW s \in Seq(Message), NEW n \in Seq(Message), NEW t, NEW o, NEW f, NEW c,
           NEW Q \in SUBSET Queue, NEW R \in SUBSET Queue,
           Copied(s, t, o, f, c, Q), Q \subseteq R, ~Some(n, Lists)
    PROVE  Copied(s \o n, t, o, f, c, R)
<1>1. ~Some(n, Showns)
  BY DEF Some, Lists
<1>2. CASE Brings(s, t, o, f, Q)
  <2>1. Brings(s, t, o, f, R)
    BY <1>2 DEF Brings
  <2>. QED
    BY <1>1, <2>1, BringsJoined DEF Copied
<1>3. CASE ~Some(s, Showns) /\ c \in Q
  BY <1>1, <1>3, SomeJoined DEF Copied
<1>. QED
  BY <1>2, <1>3 DEF Copied

-----------------------------------------------------------------------------
PlaybackHeld == IF who = "web" THEN shown.playback ELSE status.playback
ModeHeld == IF who = "web" THEN shown.mode ELSE status.mode
ModeKind == IF who = "web" THEN Statuses ELSE ModeNews

WillPlay(P) == Played(toClient, PlaybackHeld, P)
WillMode == Moded(toClient, ModeKind, ModeHeld, mode)
WillCopy(Q) == Copied(toClient, tmp, off, offFound, copy, Q)

(* Once events are sent: what will be held is recent, or there will be a   *)
(* request, or is one, that brings it.  The bridge has no need to ask for  *)
(* the modes.                                                              *)
CopyFollows == \/ Some(toClient, NoticesOf(Reloading)) \/ Some(toDaemon, {"show"})
               \/ WillCopy(queueSince)
ModeFollows == \/ WillMode
               \/ who = "web" /\ \/ Some(toClient, NoticesOf({"mode"}))
                                 \/ Some(toDaemon, {"status"})
PlayFollows == \/ Some(toClient, NoticesOf(Restating)) \/ Some(toDaemon, {"status"})
               \/ WillPlay(playSince)
Follows == monitor => (who = "web" => CopyFollows) /\ ModeFollows /\ PlayFollows

(* Before that: MONITOR is the p-th request, and what it was asked for     *)
(* before is answered from the state that it will find, because the daemon *)
(* handles all the requests of the greeting before anything else.          *)
Greets(p) ==
    /\ p <= Len(toDaemon) /\ toDaemon[p] = "monitor"
    /\ \A i \in 1 .. Len(toDaemon) : toDaemon[i] = "monitor" => i = p
    /\ batch = 0 \/ batch >= p
    /\ p = 3 => who = "web" /\ toDaemon[1] = "show"
    /\ p >= 2 => toDaemon[p - 1] = "status"
    /\ p = 2 /\ who = "web" => batch # 0 /\ WillCopy({queue})
    /\ p = 1 => /\ batch # 0 /\ WillPlay({playback}) /\ WillMode
                /\ who = "web" => WillCopy({queue})

Phase == IF monitor THEN ~Some(toDaemon, {"monitor"}) ELSE \E p \in 1 .. 3 : Greets(p)

(* A handler of the daemon has sent n; the requests that are left are no   *)
(* fewer than what n does not answer.                                      *)
LEMMA HappenedFollows ==
    ASSUME Types, Follows, monitor, NEW n, Happened(n),
           UNCHANGED webVars, UNCHANGED mprisVars, UNCHANGED who,
           Some(toDaemon, {"show"}) => Some(toDaemon', {"show"}),
           Some(toDaemon, {"status"}) => Some(toDaemon', {"status"}) \/ Some(n, Statuses)
    PROVE  Follows'
<1>1. /\ toClient \in Seq(Message) /\ n \in Seq(Message) /\ toClient' = toClient \o n
      /\ ~Some(n, Lists) /\ queueSince \in SUBSET Queue /\ queueSince' \in SUBSET Queue
      /\ monitor' = monitor
  BY DEF Happened, Types
<1>2. UNCHANGED <<tmp, off, offFound, copy, shown, status, who>>
  BY DEF webVars, copyVars, mprisVars
<1>3. UNCHANGED <<PlaybackHeld, ModeHeld, ModeKind>>
  BY <1>2 DEF PlaybackHeld, ModeHeld, ModeKind
<1>4. \A K : Some(toClient, K) \/ Some(n, K) => Some(toClient', K)
  BY <1>1, SomeJoined
<1>5. ASSUME who = "web"
      PROVE  CopyFollows'
  <2>1. Some(n, NoticesOf(Reloading)) \/ queueSince \subseteq queueSince'
    BY DEF Happened
  <2>2. ASSUME WillCopy(queueSince), queueSince \subseteq queueSince'
        PROVE  WillCopy(queueSince)'
    <3>1. Copied(toClient \o n, tmp, off, offFound, copy, queueSince')
      BY <1>1, <2>2, CopiedJoined DEF WillCopy
    <3>. QED
      BY <3>1, <1>1, <1>2 DEF WillCopy
  <2>. QED
    BY <1>4, <1>5, <2>1, <2>2 DEF Follows, CopyFollows
<1>6. ModeFollows'
  <2>1. CASE who = "web"
    <3>1. ModeKind = Statuses
      BY <2>1 DEF ModeKind
    <3>2. ASSUME Latest(n, Statuses, StatusesOf({playback'}) \cap Telling(Statuses, mode'))
          PROVE  WillMode'
      <4>1. Latest(n, Statuses, Telling(Statuses, mode'))
        BY <3>2, LatestMore
      <4>2. Moded(toClient \o n, Statuses, ModeHeld, mode')
        BY <1>1, <4>1, ModedJoined
      <4>. QED
        BY <4>2, <3>1, <1>1, <1>3 DEF WillMode
    <3>3. ASSUME ~Some(n, Statuses), WillMode
          PROVE  Some(n, NoticesOf({"mode"})) \/ WillMode'
      <4>1. CASE mode' = mode
        <5>1. Moded(toClient \o n, Statuses, ModeHeld, mode')
          BY <1>1, <3>1, <3>3, <4>1, ModedJoined DEF WillMode
        <5>. QED
          BY <5>1, <3>1, <1>1, <1>3 DEF WillMode
      <4>2. CASE Some(n, NoticesOf({"mode"}))
        BY <4>2
      <4>. QED
        BY <4>1, <4>2 DEF Happened
    <3>4. \/ ~Some(n, Statuses)
          \/ Latest(n, Statuses, StatusesOf({playback'}) \cap Telling(Statuses, mode'))
      BY DEF Happened
    <3>. QED
      BY <1>2, <1>4, <2>1, <3>2, <3>3, <3>4 DEF Follows, ModeFollows
  <2>2. CASE who # "web"
    <3>1. ModeKind = ModeNews /\ WillMode
      BY <2>2 DEF ModeKind, Follows, ModeFollows
    <3>2. \/ Latest(n, ModeNews, Telling(ModeNews, mode'))
          \/ ~Some(n, ModeNews) /\ mode' = mode
      BY DEF Happened
    <3>3. Moded(toClient \o n, ModeNews, ModeHeld, mode')
      BY <1>1, <3>1, <3>2, ModedJoined DEF WillMode
    <3>4. WillMode'
      BY <3>1, <3>3, <1>1, <1>3 DEF WillMode
    <3>. QED
      BY <3>4 DEF ModeFollows
  <2>. QED
    BY <2>1, <2>2
<1>7. PlayFollows'
  <2>1. Some(n, NoticesOf(Restating)) \/ playSince \subseteq playSince'
    BY DEF Happened
  <2>2. \/ ~Some(n, Statuses)
        \/ Latest(n, Statuses, StatusesOf({playback'}) \cap Telling(Statuses, mode'))
    BY DEF Happened
  <2>3. ASSUME Latest(n, Statuses, StatusesOf({playback'}) \cap Telling(Statuses, mode'))
        PROVE  WillPlay(playSince)'
    <3>1. playback' \in playSince'
      BY DEF Happened
    <3>2. StatusesOf({playback'}) \subseteq StatusesOf(playSince')
      BY <3>1 DEF StatusesOf
    <3>3. Latest(n, Statuses, StatusesOf(playSince'))
      BY <2>3, <3>2, LatestMore
    <3>4. Played(toClient \o n, PlaybackHeld, playSince')
      BY <1>1, <3>3, PlayedJoined
    <3>. QED
      BY <3>4, <1>1, <1>3 DEF WillPlay
  <2>4. ASSUME WillPlay(playSince), playSince \subseteq playSince', ~Some(n, Statuses)
        PROVE  WillPlay(playSince)'
    <3>1. Played(toClient \o n, PlaybackHeld, playSince')
      BY <1>1, <2>4, PlayedJoined DEF WillPlay
    <3>. QED
      BY <3>1, <1>1, <1>3 DEF WillPlay
  <2>. QED
    BY <1>4, <2>1, <2>2, <2>3, <2>4 DEF Follows, PlayFollows
<1>. QED
  BY <1>1, <1>2, <1>5, <1>6, <1>7 DEF Follows

(* The daemon answers a SHOW.                                              *)
LEMMA ShowFollows ==
    ASSUME Types, Since, who = "web" => Orderly(toClient, tmp, off, offFound),
           tmp \in Seq(Song), offFound \in BOOLEAN,
           Reply(ShowReply), UNCHANGED webVars, UNCHANGED mprisVars, UNCHANGED who
    PROVE  /\ toClient' = toClient \o ReplyOf(queue) /\ ReplyOf(queue) \in Seq(Message)
           /\ who = "web" => WillCopy({queue})' /\ (monitor => WillCopy(queueSince)')
           /\ WillMode => WillMode'
           /\ \A P : Played(toClient, PlaybackHeld, P) => Played(toClient', PlaybackHeld', P)
<1>1. ShowReply = ReplyOf(queue)
  BY DEF ShowReply, ReplyOf, ShowOf, Size
<1>2. PICK n : n = ReplyOf(queue)
  OBVIOUS
<1>3. /\ toClient' = toClient \o n /\ toClient \in Seq(Message)
      /\ UNCHANGED <<queue, mode, monitor, queueSince>> /\ queue \in Queue
  BY <1>1, <1>2 DEF Reply, Types, stateVars, historyVars
<1>4. n \in Seq(Message) /\ ~Some(n, Message \ Lists)
  BY <1>2, <1>3, ReplyIs
<1>5. UNCHANGED <<tmp, off, offFound, copy, shown, status, who>>
  BY DEF webVars, copyVars, mprisVars
<1>6. UNCHANGED <<PlaybackHeld, ModeHeld, ModeKind>>
  BY <1>5 DEF PlaybackHeld, ModeHeld, ModeKind
<1>7. Statuses \subseteq Message \ Lists /\ ModeNews \subseteq Message \ Lists
  BY Kinds DEF Message, Lists, ModeNews, NoticesOf
<1>8. ~Some(n, Statuses) /\ ~Some(n, ModeNews)
  BY <1>4, <1>7 DEF Some
<1>9. ASSUME who = "web"
      PROVE  WillCopy({queue})' /\ (monitor => WillCopy(queueSince)')
  <2>1. Brings(toClient \o n, tmp, off, offFound, {queue})
    BY <1>2, <1>3, <1>9, ReplyJoined
  <2>2. monitor => Brings(toClient \o n, tmp, off, offFound, queueSince)
    BY <2>1 DEF Since, Brings
  <2>. QED
    BY <2>1, <2>2, <1>3, <1>5 DEF WillCopy, Copied
<1>10. ASSUME WillMode
       PROVE  WillMode'
  <2>1. ~Some(n, ModeKind)
    BY <1>8 DEF ModeKind
  <2>2. Moded(toClient \o n, ModeKind, ModeHeld, mode)
    BY <1>3, <1>4, <1>10, <2>1, ModedJoined DEF WillMode
  <2>. QED
    BY <2>2, <1>3, <1>6 DEF WillMode
<1>11. ASSUME NEW P, Played(toClient, PlaybackHeld, P)
       PROVE  Played(toClient', PlaybackHeld', P)
  <2>1. Played(toClient \o n, PlaybackHeld, P)
    BY <1>3, <1>4, <1>8, <1>11, PlayedJoined
  <2>. QED
    BY <2>1, <1>3, <1>6
<1>. QED
  BY <1>2, <1>3, <1>4, <1>9, <1>10, <1>11

(* The daemon answers a STATUS.                                            *)
LEMMA StatusFollows ==
    ASSUME Types, UNCHANGED stateVars,
           toClient' = toClient \o <<StatusOf(playback, mode, position)>>,
           UNCHANGED webVars, UNCHANGED mprisVars, UNCHANGED who
    PROVE  /\ WillPlay({playback})' /\ WillMode'
           /\ WillCopy({queue}) => WillCopy({queue})'
<1>. PICK x : x = StatusOf(playback, mode, position)
  OBVIOUS
<1>1. x \in Statuses /\ x.playback = playback /\ x.mode = mode
  BY StatusIsStatus DEF Types
<1>2. x \in Message /\ x \notin Lists
  BY <1>1, Kinds DEF Lists, Message
<1>3. <<x>> \in Seq(Message) /\ toClient \in Seq(Message) /\ toClient' = toClient \o <<x>>
  BY <1>2 DEF Types
<1>4. x \in StatusesOf({playback}) /\ x \in Telling(ModeKind, mode) /\ x \in ModeKind
  BY <1>1 DEF StatusesOf, Telling, ModeKind, ModeNews
<1>5. /\ UNCHANGED <<queue, playback, mode, tmp, off, offFound, copy>>
      /\ UNCHANGED <<PlaybackHeld, ModeHeld, ModeKind>>
  BY DEF stateVars, webVars, copyVars, mprisVars, PlaybackHeld, ModeHeld, ModeKind
<1>6. WillPlay({playback})'
  <2>1. Latest(<<x>>, Statuses, StatusesOf({playback}))
    BY <1>1, <1>4, Single
  <2>2. Played(toClient \o <<x>>, PlaybackHeld, {playback})
    BY <1>3, <2>1, PlayedJoined
  <2>. QED
    BY <2>2, <1>3, <1>5 DEF WillPlay
<1>7. WillMode'
  <2>1. Latest(<<x>>, ModeKind, Telling(ModeKind, mode))
    BY <1>4, Single
  <2>2. Moded(toClient \o <<x>>, ModeKind, ModeHeld, mode)
    BY <1>3, <2>1, ModedJoined
  <2>. QED
    BY <2>2, <1>3, <1>5 DEF WillMode
<1>8. ASSUME WillCopy({queue})
      PROVE  WillCopy({queue})'
  <2>1. ~Some(<<x>>, Lists) /\ {queue} \in SUBSET Queue
    BY <1>2, Single DEF Types
  <2>2. Copied(toClient \o <<x>>, tmp, off, offFound, copy, {queue})
    BY <1>3, <1>8, <2>1, CopiedJoined DEF WillCopy
  <2>. QED
    BY <2>2, <1>3, <1>5 DEF WillCopy
<1>. QED
  BY <1>6, <1>7, <1>8

Ordered == /\ tmp \in Seq(Song) /\ offFound \in BOOLEAN
           /\ who = "web" => Orderly(toClient, tmp, off, offFound)

Course == Since /\ Follows /\ Phase

LEMMA GreetingServed ==
    ASSUME Types, Ordered, Since, ~monitor, NEW p \in 1 .. 3, Greets(p), Serve,
           UNCHANGED webVars, UNCHANGED mprisVars, UNCHANGED who
    PROVE  Course'
<1>1. PICK n \in Nat \ {0} : n = Len(toDaemon)
  BY ServeTells, Rest DEF Types
<1>2. /\ toDaemon # <<>> /\ toDaemon' = Tail(toDaemon) /\ Len(toDaemon') = n - 1
      /\ Head(toDaemon) = toDaemon[1]
      /\ \A i \in 1 .. n - 1 : toDaemon'[i] = toDaemon[i + 1]
  <2>1. toDaemon # <<>> /\ toDaemon' = Tail(toDaemon) /\ toDaemon \in Seq(Asked)
    BY ServeTells DEF Types
  <2>2. /\ Len(Tail(toDaemon)) = Len(toDaemon) - 1 /\ Head(toDaemon) = toDaemon[1]
        /\ \A i \in 1 .. Len(toDaemon) - 1 : Tail(toDaemon)[i] = toDaemon[i + 1]
    BY <2>1, Rest
  <2>. QED
    BY <1>1, <2>1, <2>2
<1>3. batch > 0 /\ batch' = batch - 1 /\ batch \in Nat
  <2>1. batch > 0 /\ batch' = batch - 1
    BY ServeTells
  <2>. QED
    BY <1>1, <2>1 DEF Types
<1>4. batch >= p /\ p <= n /\ toDaemon[p] = "monitor"
  BY <1>1, <1>3 DEF Greets
<1>5. \A i \in 1 .. n : toDaemon[i] = "monitor" => i = p
  BY <1>1 DEF Greets
<1>6. CASE p = 3
  <2>1. toDaemon[1] = "show" /\ toDaemon[2] = "status" /\ who = "web"
    BY <1>6 DEF Greets
  <2>2. Reply(ShowReply)
    BY <1>2, <2>1, ServeTells
  <2>3. WillCopy({queue})' /\ UNCHANGED monitor
    BY <2>1, <2>2, ShowFollows DEF Ordered, Reply
  <2>4. Greets(2)'
    <3>1. 2 <= Len(toDaemon') /\ toDaemon'[2] = "monitor" /\ toDaemon'[1] = "status"
      BY <1>2, <1>4, <1>6, <2>1
    <3>2. \A i \in 1 .. Len(toDaemon') : toDaemon'[i] = "monitor" => i = 2
      BY <1>2, <1>5, <1>6
    <3>3. batch' >= 2 /\ batch' # 0
      BY <1>3, <1>4, <1>6
    <3>. QED
      BY <2>3, <3>1, <3>2, <3>3 DEF Greets
  <2>. QED
    BY <2>3, <2>4 DEF Course, Since, Follows, Phase
<1>7. CASE p = 2
  <2>1. toDaemon[1] = "status"
    BY <1>7 DEF Greets
  <2>2. /\ Happened(<<StatusOf(playback, mode, position)>>) /\ UNCHANGED stateVars
    BY <1>2, <2>1, ServeTells
  <2>3. toClient' = toClient \o <<StatusOf(playback, mode, position)>> /\ monitor' = monitor
    BY <2>2 DEF Happened
  <2>4. /\ WillPlay({playback})' /\ WillMode'
        /\ who' = "web" => WillCopy({queue})'
    BY <1>7, <2>2, <2>3, StatusFollows DEF Greets
  <2>5. Greets(1)'
    <3>1. 1 <= Len(toDaemon') /\ toDaemon'[1] = "monitor"
      BY <1>2, <1>4, <1>7
    <3>2. \A i \in 1 .. Len(toDaemon') : toDaemon'[i] = "monitor" => i = 1
      BY <1>2, <1>5, <1>7
    <3>3. batch' >= 1 /\ batch' # 0
      BY <1>3, <1>4, <1>7
    <3>. QED
      BY <2>4, <3>1, <3>2, <3>3 DEF Greets
  <2>. QED
    BY <2>3, <2>5 DEF Course, Since, Follows, Phase
<1>8. CASE p = 1
  <2>1. toDaemon[1] = "monitor"
    BY <1>4, <1>8
  <2>2. StartMonitor
    BY <1>2, <2>1, ServeTells
  <2>3. /\ monitor' = TRUE /\ queueSince' = {queue} /\ playSince' = {playback}
        /\ UNCHANGED <<toClient, queue, playback, mode>>
    BY <2>2 DEF StartMonitor, stateVars
  <2>4. UNCHANGED <<tmp, off, offFound, copy, PlaybackHeld, ModeHeld, ModeKind>>
    BY DEF webVars, copyVars, mprisVars, PlaybackHeld, ModeHeld, ModeKind
  <2>5. WillPlay({playback}) /\ WillMode /\ (who = "web" => WillCopy({queue}))
    BY <1>8 DEF Greets
  <2>6. WillPlay(playSince)' /\ WillMode' /\ (who' = "web" => WillCopy(queueSince)')
    BY <2>3, <2>4, <2>5 DEF WillPlay, WillMode, WillCopy
  <2>7. ~Some(toDaemon', {"monitor"})
    <3>1. \A i \in 1 .. n - 1 : i + 1 \in 1 .. n /\ i + 1 # 1
      OBVIOUS
    <3>. QED
      BY <1>2, <1>5, <1>8, <3>1 DEF Some
  <2>. QED
    BY <2>3, <2>6, <2>7
       DEF Course, Since, Follows, CopyFollows, ModeFollows, PlayFollows, Phase
<1>. QED
  BY <1>6, <1>7, <1>8

LEMMA ServeFollows ==
    ASSUME Types, Ordered, Course, Serve,
           UNCHANGED webVars, UNCHANGED mprisVars, UNCHANGED who
    PROVE  Course'
<1>1. CASE ~monitor
  <2>1. PICK p \in 1 .. 3 : Greets(p)
    BY <1>1 DEF Course, Phase
  <2>. QED
    BY <1>1, <2>1, GreetingServed DEF Course
<1>2. CASE monitor
  <2>1. toDaemon # <<>> /\ toDaemon' = Tail(toDaemon) /\ toDaemon \in Seq(Asked)
    BY ServeTells DEF Types, Course
  <2>2. \A K : Some(toDaemon, K) <=> Head(toDaemon) \in K \/ Some(toDaemon', K)
    BY <2>1, SomeRest
  <2>3. ~Some(toDaemon', {"monitor"}) /\ Head(toDaemon) # "monitor"
    BY <1>2, <2>2 DEF Course, Phase
  <2>4. CASE Head(toDaemon) = "show" /\ Reply(ShowReply)
    <3>1. UNCHANGED <<queue, playback, monitor, queueSince, playSince>>
      BY <2>4 DEF Reply, stateVars, historyVars
    <3>2. /\ toClient' = toClient \o ReplyOf(queue) /\ ReplyOf(queue) \in Seq(Message)
          /\ who = "web" => WillCopy(queueSince)'
          /\ WillMode => WillMode'
          /\ WillPlay(playSince) => WillPlay(playSince)'
      BY <1>2, <2>4, <3>1, ShowFollows DEF Ordered, WillPlay, Course
    <3>3. \A K : Some(toClient, K) => Some(toClient', K)
      BY <3>2, SomeJoined DEF Types
    <3>4. Some(toDaemon, {"status"}) => Some(toDaemon', {"status"})
      BY <2>2, <2>4
    <3>5. Follows'
      BY <1>2, <3>1, <3>2, <3>3, <3>4
         DEF Course, Follows, CopyFollows, ModeFollows, PlayFollows
    <3>. QED
      BY <1>2, <2>3, <3>1, <3>5 DEF Course, Since, Phase
  <2>5. CASE \E n : /\ Happened(n)
                    /\ Head(toDaemon) \notin {"show", "status"}
                       \/ (Head(toDaemon) = "status" /\ Some(n, Statuses))
    <3>1. PICK n : /\ Happened(n)
                   /\ Head(toDaemon) \notin {"show", "status"}
                       \/ (Head(toDaemon) = "status" /\ Some(n, Statuses))
      BY <2>5
    <3>2. /\ Some(toDaemon, {"show"}) => Some(toDaemon', {"show"})
          /\ Some(toDaemon, {"status"}) => Some(toDaemon', {"status"}) \/ Some(n, Statuses)
      BY <2>2, <3>1
    <3>3. Follows'
      BY <1>2, <3>1, <3>2, HappenedFollows DEF Course
    <3>. QED
      BY <1>2, <2>3, <3>1, <3>3 DEF Course, Since, Phase, Happened
  <2>6. ASSUME Head(toDaemon) = "status", Happened(<<StatusOf(playback, mode, position)>>)
        PROVE  Some(<<StatusOf(playback, mode, position)>>, Statuses)
    BY StatusIsStatus, Single DEF Types
  <2>. QED
    BY <2>3, <2>4, <2>5, <2>6, ServeTells DEF Course
<1>. QED
  BY <1>1, <1>2

LEMMA ElsewhereFollows ==
    ASSUME Types, Course, Elsewhere,
           UNCHANGED webVars, UNCHANGED mprisVars, UNCHANGED who
    PROVE  Course'
<1>1. batch = 0 /\ UNCHANGED <<toDaemon, batch>>
  BY ElsewhereTells
<1>2. PICK n : Happened(n)
  BY ElsewhereTells
<1>3. monitor' = monitor
  BY <1>2 DEF Happened
<1>4. CASE monitor
  <2>1. Follows'
    BY <1>1, <1>2, <1>4, HappenedFollows DEF Course
  <2>. QED
    BY <1>1, <1>2, <1>3, <1>4, <2>1 DEF Course, Since, Phase, Happened
<1>5. CASE ~monitor
  <2>1. PICK p \in 1 .. 3 : Greets(p)
    BY <1>5 DEF Course, Phase
  <2>2. p # 1 /\ (p = 2 => who # "web")
    BY <1>1, <2>1 DEF Greets
  <2>3. Greets(p)'
    BY <1>1, <2>1, <2>2 DEF Greets
  <2>. QED
    BY <1>3, <1>5, <2>3 DEF Course, Since, Follows, Phase
<1>. QED
  BY <1>4, <1>5

LEMMA DispatchFollows ==
    ASSUME Types, Course, Dispatch,
           UNCHANGED webVars, UNCHANGED mprisVars, UNCHANGED who
    PROVE  Course'
<1>1. /\ batch = 0 /\ toDaemon # <<>> /\ batch' = Len(toDaemon)
      /\ UNCHANGED <<toDaemon, monitor, toClient, queue, playback, mode, queueSince, playSince>>
  BY DEF Dispatch, stateVars, historyVars
<1>2. /\ UNCHANGED <<tmp, off, offFound, copy, shown, status, who>>
      /\ UNCHANGED <<PlaybackHeld, ModeHeld, ModeKind>>
  BY DEF webVars, copyVars, mprisVars, PlaybackHeld, ModeHeld, ModeKind
<1>3. Since' /\ Follows'
  BY <1>1, <1>2 DEF Course, Since, Follows, CopyFollows, ModeFollows, PlayFollows,
                    WillCopy, WillMode, WillPlay
<1>4. CASE monitor
  BY <1>1, <1>3, <1>4 DEF Course, Phase
<1>5. CASE ~monitor
  <2>1. PICK p \in 1 .. 3 : Greets(p)
    BY <1>5 DEF Course, Phase
  <2>2. p # 1 /\ (p = 2 => who # "web")
    BY <1>1, <2>1 DEF Greets
  <2>3. Greets(p)'
    BY <1>1, <1>2, <2>1, <2>2 DEF Greets
  <2>. QED
    BY <1>1, <1>3, <1>5, <2>3 DEF Course, Phase
<1>. QED
  BY <1>4, <1>5

-----------------------------------------------------------------------------
(* The program reads a message, or asks for something, or both.            *)
LEMMA PhaseAsked ==
    ASSUME Types, Phase, NEW r \in Seq(Asked), ~Some(r, {"monitor"}),
           toDaemon' = toDaemon \o r, UNCHANGED <<batch, monitor, who>>,
           who = "web" /\ WillCopy({queue}) => WillCopy({queue})',
           WillPlay({playback}) => WillPlay({playback})', WillMode => WillMode'
    PROVE  Phase'
<1>1. CASE monitor
  <2>1. ~Some(toDaemon, {"monitor"}) /\ toDaemon \in Seq(Asked)
    BY <1>1 DEF Phase, Types
  <2>2. ~Some(toDaemon', {"monitor"})
    BY <2>1, SomeJoined
  <2>. QED
    BY <1>1, <2>2 DEF Phase
<1>2. CASE ~monitor
  <2>1. PICK p \in 1 .. 3 : Greets(p)
    BY <1>2 DEF Phase
  <2>. PICK n \in Nat : n = Len(toDaemon)
    BY LenProperties DEF Types
  <2>. PICK m \in Nat : m = Len(r)
    BY LenProperties
  <2>2. /\ Len(toDaemon') = n + m
        /\ \A i \in 1 .. n : toDaemon'[i] = toDaemon[i]
        /\ \A i \in 1 .. m : toDaemon'[n + i] = r[i]
    BY Joined DEF Types
  <2>3. p <= n /\ toDaemon[p] = "monitor"
    BY <2>1 DEF Greets
  <2>4. p <= Len(toDaemon') /\ toDaemon'[p] = "monitor"
    BY <2>2, <2>3
  <2>5. ASSUME NEW i \in 1 .. Len(toDaemon'), toDaemon'[i] = "monitor"
        PROVE  i = p
    <3>1. i \in 1 .. n \/ (i - n \in 1 .. m /\ n + (i - n) = i)
      BY <2>2
    <3>2. i \in 1 .. n
      BY <2>2, <2>5, <3>1 DEF Some
    <3>. QED
      BY <2>1, <2>2, <2>5, <3>2 DEF Greets
  <2>6. /\ p = 3 => who = "web" /\ toDaemon'[1] = "show"
        /\ p >= 2 => toDaemon'[p - 1] = "status"
    <3>1. 1 \in 1 .. n /\ (p >= 2 => p - 1 \in 1 .. n)
      BY <2>3
    <3>. QED
      BY <2>1, <2>2, <3>1 DEF Greets
  <2>7. Greets(p)'
    BY <2>1, <2>4, <2>5, <2>6 DEF Greets
  <2>. QED
    BY <1>2, <2>7 DEF Phase
<1>. QED
  BY <1>1, <1>2

LEMMA ReadFollows ==
    ASSUME Types, Course, toClient # <<>>, toClient' = Tail(toClient),
           UNCHANGED <<batch, monitor, stateVars, historyVars, who>>,
           NEW r \in Seq(Asked), toDaemon' = toDaemon \o r, ~Some(r, {"monitor"}),
           Head(toClient) \in NoticesOf(Reloading) /\ who = "web" => Some(r, {"show"}),
           Head(toClient) \in NoticesOf({"mode"}) /\ who = "web" => Some(r, {"status"}),
           Head(toClient) \in NoticesOf(Restating) => Some(r, {"status"}),
           PlaybackHeld' = IF Head(toClient) \in Statuses THEN Head(toClient).playback
                           ELSE PlaybackHeld,
           ModeHeld' = IF Head(toClient) \in ModeKind THEN Head(toClient).mode ELSE ModeHeld,
           who = "web" => \A Q \in SUBSET Queue : WillCopy(Q) =>
                             Copied(toClient', tmp', off', offFound', copy', Q)
    PROVE  Course'
<1>1. /\ UNCHANGED <<queue, playback, mode, monitor, batch, queueSince, playSince, who>>
      /\ UNCHANGED ModeKind
  BY DEF stateVars, historyVars, ModeKind
<1>2. toClient \in Seq(Message) /\ toDaemon \in Seq(Asked) /\ queueSince \in SUBSET Queue
      /\ {queue} \in SUBSET Queue
  BY DEF Types
<1>3. \A K : Some(toClient, K) <=> Head(toClient) \in K \/ Some(toClient', K)
  BY <1>2, SomeRest
<1>4. \A K : Some(toDaemon', K) <=> Some(toDaemon, K) \/ Some(r, K)
  BY <1>2, SomeJoined
<1>5. \A P : Played(toClient, PlaybackHeld, P) => Played(toClient', PlaybackHeld', P)
  BY <1>2, PlayedRead
<1>6. WillMode => WillMode'
  <2>1. WillMode => Moded(toClient', ModeKind, ModeHeld', mode)
    BY <1>2, ModedRead DEF WillMode
  <2>. QED
    BY <1>1, <2>1 DEF WillMode
<1>7. /\ WillPlay({playback}) => WillPlay({playback})'
      /\ WillPlay(playSince) => WillPlay(playSince)'
  BY <1>1, <1>5 DEF WillPlay
<1>8. who = "web" => /\ WillCopy({queue}) => WillCopy({queue})'
                     /\ WillCopy(queueSince) => WillCopy(queueSince)'
  BY <1>1, <1>2 DEF WillCopy
<1>9. Phase'
  BY <1>1, <1>6, <1>7, <1>8, PhaseAsked DEF Course
<1>10. Follows'
  BY <1>1, <1>3, <1>4, <1>6, <1>7, <1>8
     DEF Course, Follows, CopyFollows, ModeFollows, PlayFollows
<1>11. Since'
  BY <1>1 DEF Course, Since
<1>. QED
  BY <1>9, <1>10, <1>11 DEF Course

LEMMA AskFollows ==
    ASSUME Types, Course, UNCHANGED <<batch, monitor, toClient, stateVars, historyVars>>,
           NEW r \in Seq(Asked), toDaemon' = toDaemon \o r, ~Some(r, {"monitor"}),
           UNCHANGED webVars, UNCHANGED mprisVars, UNCHANGED who
    PROVE  Course'
<1>1. /\ UNCHANGED <<queue, playback, mode, monitor, batch, queueSince, playSince>>
      /\ UNCHANGED <<tmp, off, offFound, copy, shown, status, who>>
      /\ UNCHANGED <<PlaybackHeld, ModeHeld, ModeKind>>
  BY DEF stateVars, historyVars, webVars, copyVars, mprisVars,
         PlaybackHeld, ModeHeld, ModeKind
<1>2. \A K : Some(toDaemon', K) <=> Some(toDaemon, K) \/ Some(r, K)
  BY SomeJoined DEF Types
<1>3. Phase'
  BY <1>1, PhaseAsked DEF Course, WillCopy, WillPlay, WillMode
<1>4. Follows'
  BY <1>1, <1>2 DEF Course, Follows, CopyFollows, ModeFollows, PlayFollows,
                    WillCopy, WillPlay, WillMode
<1>. QED
  BY <1>1, <1>3, <1>4 DEF Course, Since

(* Nothing happens that matters to what is under way.                      *)
LEMMA CourseKept ==
    ASSUME Types, Course, UNCHANGED notifierVars, UNCHANGED copyVars, UNCHANGED <<status, who>>
    PROVE  Course'
<1>1. /\ UNCHANGED <<queue, playback, mode, monitor, batch, queueSince, playSince>>
      /\ UNCHANGED <<toClient, toDaemon>>
      /\ UNCHANGED <<tmp, off, offFound, copy, shown, status, who>>
      /\ UNCHANGED <<PlaybackHeld, ModeHeld, ModeKind>>
  BY DEF notifierVars, wireVars, stateVars, historyVars, copyVars,
         PlaybackHeld, ModeHeld, ModeKind
<1>2. UNCHANGED <<WillMode, Since>> /\ WillCopy(queueSince)' = WillCopy(queueSince)
      /\ WillCopy({queue})' = WillCopy({queue}) /\ WillPlay(playSince)' = WillPlay(playSince)
      /\ WillPlay({playback})' = WillPlay({playback})
  BY <1>1 DEF WillMode, WillCopy, WillPlay, Since
<1>3. \A p \in 1 .. 3 : Greets(p) => Greets(p)'
  BY <1>1, <1>2 DEF Greets
<1>4. Phase'
  BY <1>1, <1>3 DEF Course, Phase
<1>5. Follows'
  BY <1>1, <1>2 DEF Course, Follows, CopyFollows, ModeFollows, PlayFollows
<1>. QED
  BY <1>2, <1>4, <1>5 DEF Course

-----------------------------------------------------------------------------
(* The page: the copy, or as many songs of the list being read as there    *)
(* are, with the mark that the position known so far puts among them.      *)
Flagged == [j \in 1 .. Len(tmp) |-> <<tmp[j], offFound /\ off = j - 1>>]

PageFollows == socket # "none" /\ ~missed =>
    IF tmp = <<>> THEN page = Rows ELSE socket = "open" /\ page = Flagged

WebGood == /\ WebTypeOK /\ PageFollows
           /\ who = "web" => Orderly(toClient, tmp, off, offFound)

MprisGood ==
    /\ status = [playback |-> status.playback, mode |-> status.mode,
                 position |-> status.position]
    /\ status.playback \in PlaybackType /\ status.position \in Nat

ViewsInv == Types /\ WebGood /\ MprisGood /\ Course

LEMMA WebKept ==
    ASSUME WebGood, UNCHANGED webVars, UNCHANGED who,
           who = "web" => Orderly(toClient', tmp, off, offFound)
    PROVE  WebGood'
<1>1. UNCHANGED <<tmp, off, offFound, copy, page, socket, missed, who>>
  BY DEF webVars, copyVars, pageVars
<1>. QED
  BY <1>1 DEF WebGood, WebTypeOK, PageFollows, Flagged, Rows

LEMMA MprisKept ==
    ASSUME MprisGood, UNCHANGED mprisVars
    PROVE  MprisGood'
BY DEF MprisGood, mprisVars

LEMMA DaemonKeeps ==
    ASSUME ViewsInv, DaemonNext, UNCHANGED webVars, UNCHANGED mprisVars, UNCHANGED who
    PROVE  ViewsInv'
<1>1. Types /\ Since /\ Course /\ Ordered /\ WebGood /\ MprisGood
  BY DEF ViewsInv, Course, Ordered, WebGood, WebTypeOK
<1>2. MprisGood'
  BY <1>1, MprisKept
<1>3. ASSUME NEW n, Happened(n)
      PROVE  WebGood'
  <2>1. toClient' = toClient \o n /\ n \in Seq(Message) /\ ~Some(n, Lists)
    BY <1>3 DEF Happened
  <2>2. who = "web" => Orderly(toClient', tmp, off, offFound)
    BY <1>1, <2>1, OrderlyJoined DEF Types, WebGood
  <2>. QED
    BY <1>1, <2>2, WebKept
<1>4. ASSUME NEW n, Happened(n), toDaemon' \in Seq(Asked), batch' \in 0 .. Len(toDaemon')
      PROVE  Types'
  <2>1. toClient' \in Seq(Message)
    BY <1>1, <1>4, ConcatProperties DEF Happened, Types
  <2>. QED
    BY <1>1, <1>4, <2>1 DEF Happened, Types
<1>5. CASE Elsewhere
  <2>1. PICK n : Happened(n)
    BY <1>1, <1>5, ElsewhereTells
  <2>2. UNCHANGED <<toDaemon, batch>>
    BY <1>1, <1>5, ElsewhereTells
  <2>3. Types'
    BY <1>1, <1>4, <2>1, <2>2 DEF Types
  <2>. QED
    BY <1>1, <1>2, <1>3, <1>5, <2>1, <2>3, ElsewhereFollows DEF ViewsInv
<1>6. CASE Dispatch
  <2>1. batch' = Len(toDaemon) /\ UNCHANGED <<toDaemon, monitor, toClient, stateVars, historyVars>>
    BY <1>6 DEF Dispatch
  <2>2. Len(toDaemon) \in Nat
    BY <1>1, LenProperties DEF Types
  <2>3. Types'
    BY <1>1, <2>1, <2>2 DEF Types, stateVars, historyVars
  <2>4. WebGood'
    BY <1>1, <2>1, WebKept DEF WebGood
  <2>. QED
    BY <1>1, <1>2, <1>6, <2>3, <2>4, DispatchFollows DEF ViewsInv
<1>7. CASE Serve
  <2>1. /\ batch > 0 /\ batch' = batch - 1 /\ toDaemon # <<>> /\ toDaemon' = Tail(toDaemon)
    BY <1>1, <1>7, ServeTells
  <2>2. toDaemon' \in Seq(Asked) /\ batch' \in 0 .. Len(toDaemon')
    <3>1. /\ toDaemon' \in Seq(Asked) /\ Len(toDaemon) \in Nat \ {0}
          /\ Len(toDaemon') = Len(toDaemon) - 1
      BY <1>1, <2>1, Rest DEF Types
    <3>. QED
      BY <1>1, <2>1, <3>1 DEF Types
  <2>3. Course'
    BY <1>1, <1>7, ServeFollows
  <2>4. CASE \E n : Happened(n)
    BY <1>2, <1>3, <1>4, <2>2, <2>3, <2>4 DEF ViewsInv
  <2>5. CASE Reply(ShowReply)
    <3>1. toClient' = toClient \o ReplyOf(queue) /\ ReplyOf(queue) \in Seq(Message)
      BY <1>1, <2>5, ShowFollows DEF Ordered
    <3>2. UNCHANGED <<queue, playback, mode, position, monitor, queueSince, playSince>>
      BY <2>5 DEF Reply, stateVars, historyVars
    <3>3. toClient' \in Seq(Message)
      BY <1>1, <3>1, ConcatProperties DEF Types
    <3>4. Types'
      BY <1>1, <2>2, <3>2, <3>3 DEF Types
    <3>5. who = "web" => Orderly(toClient', tmp, off, offFound)
      BY <1>1, <3>1, ReplyJoined DEF Types, Ordered
    <3>6. WebGood'
      BY <1>1, <3>5, WebKept
    <3>. QED
      BY <1>2, <2>3, <3>4, <3>6 DEF ViewsInv
  <2>6. CASE StartMonitor
    <3>1. /\ monitor' = TRUE /\ queueSince' = {queue} /\ playSince' = {playback}
          /\ UNCHANGED <<toClient, queue, playback, mode, position>>
      BY <2>6 DEF StartMonitor, stateVars
    <3>2. Types'
      BY <1>1, <2>2, <3>1 DEF Types
    <3>3. WebGood'
      BY <1>1, <3>1, WebKept DEF WebGood
    <3>. QED
      BY <1>2, <2>3, <3>2, <3>3 DEF ViewsInv
  <2>. QED
    BY <1>1, <1>7, <2>4, <2>5, <2>6, ServeTells
<1>. QED
  BY <1>5, <1>6, <1>7 DEF DaemonNext

-----------------------------------------------------------------------------
LEMMA AnswerIs ==
    ASSUME NEW e \in Event
    PROVE  /\ Answer(e) \in Seq(Asked) /\ ~Some(Answer(e), {"monitor"})
           /\ e \in Reloading => Some(Answer(e), {"show"})
           /\ e = "mode" => Some(Answer(e), {"status"})
           /\ e \in Restating => Some(Answer(e), {"status"})
<1>1. /\ Some(<<"show", "status">>, {"show"}) /\ Some(<<"show", "status">>, {"status"})
      /\ ~Some(<<"show", "status">>, {"monitor"})
      /\ Some(<<"status">>, {"status"}) /\ ~Some(<<"status">>, {"monitor"})
      /\ ~Some(<<>>, {"monitor"})
  BY DEF Some
<1>2. /\ <<"show", "status">> \in Seq(Asked) /\ <<"status">> \in Seq(Asked)
      /\ <<>> \in Seq(Asked)
  BY DEF Asked
<1>3. CASE e \in {"next", "prev", "jump", "commit"}
  <2>1. Answer(e) = <<"show", "status">>
    BY <1>3 DEF Answer
  <2>. QED
    BY <2>1, <1>1, <1>2
<1>4. CASE e \in {"play", "pause", "stop", "mode"}
  <2>1. Answer(e) = <<"status">>
    BY <1>4 DEF Answer
  <2>. QED
    BY <2>1, <1>1, <1>2, <1>4 DEF Reloading
<1>5. CASE e \in {"add", "seek"}
  <2>1. Answer(e) = <<>>
    BY <1>5 DEF Answer
  <2>. QED
    BY <2>1, <1>1, <1>2, <1>5 DEF Reloading, Restating
<1>. QED
  BY <1>3, <1>4, <1>5 DEF Event

LEMMA RequestsIs ==
    ASSUME NEW e \in Event
    PROVE  /\ Requests(e) \in Seq(Asked) /\ ~Some(Requests(e), {"monitor"})
           /\ e \in Restating => Some(Requests(e), {"status"})
<1>1. /\ Some(<<"status">>, {"status"}) /\ ~Some(<<"status">>, {"monitor"})
      /\ ~Some(<<>>, {"monitor"})
  BY DEF Some
<1>2. <<"status">> \in Seq(Asked) /\ <<>> \in Seq(Asked)
  BY DEF Asked
<1>. QED
  BY <1>1, <1>2 DEF Requests, Restating

(* Reading keeps the types of what is under way.                           *)
LEMMA ReadTypes ==
    ASSUME Types, toClient # <<>>, toClient' = Tail(toClient),
           UNCHANGED <<batch, monitor, stateVars, historyVars, who>>,
           NEW r \in Seq(Asked), toDaemon' = toDaemon \o r
    PROVE  Types' /\ Head(toClient) \in Message
<1>1. UNCHANGED <<queue, playback, mode, position, queueSince, playSince, monitor, batch, who>>
  BY DEF stateVars, historyVars
<1>2. toClient' \in Seq(Message) /\ Head(toClient) \in Message
  BY Rest DEF Types
<1>3. /\ toDaemon' \in Seq(Asked) /\ Len(toDaemon') = Len(toDaemon) + Len(r)
      /\ Len(toDaemon) \in Nat /\ Len(r) \in Nat
  BY Joined DEF Types
<1>4. batch' \in 0 .. Len(toDaemon')
  BY <1>1, <1>3 DEF Types
<1>. QED
  BY <1>1, <1>2, <1>3, <1>4 DEF Types

-----------------------------------------------------------------------------
(* The web interface reads a message: what each handler needs in common.   *)
Reading == /\ toClient # <<>> /\ toClient' = Tail(toClient)
           /\ UNCHANGED <<batch, monitor, stateVars, historyVars, who, mprisVars>>

LEMMA NothingAsked ==
    ASSUME Types, UNCHANGED toDaemon
    PROVE  /\ <<>> \in Seq(Asked) /\ toDaemon' = toDaemon \o <<>>
           /\ \A K : ~Some(<<>>, K)
BY EmptySeq, ConcatEmptySeq, Single DEF Types

LEMMA GetEventKeeps ==
    ASSUME ViewsInv, who = "web", Reading, GetEvent(Head(toClient))
    PROVE  ViewsInv'
<1>. PICK m : m = Head(toClient)
  OBVIOUS
<1>1. /\ m.type = "event" /\ toDaemon' = toDaemon \o Answer(m.event)
      /\ UNCHANGED copyVars /\ UNCHANGED pageVars
  BY DEF GetEvent, Ask, NoBroadcast
<1>2. /\ UNCHANGED <<tmp, off, offFound, copy, shown, status, who>> /\ UNCHANGED webVars
      /\ toClient # <<>> /\ toClient \in Seq(Message) /\ toClient' = Tail(toClient)
  BY <1>1 DEF Reading, copyVars, webVars, mprisVars, ViewsInv, Types
<1>3. m \in Notices /\ m \notin Lists /\ m \notin Statuses /\ m.event \in Event
  BY <1>1, <1>2, Rest, Kinds DEF Lists
<1>4. /\ Answer(m.event) \in Seq(Asked) /\ ~Some(Answer(m.event), {"monitor"})
      /\ m.event \in Reloading => Some(Answer(m.event), {"show"})
      /\ m.event = "mode" => Some(Answer(m.event), {"status"})
      /\ m.event \in Restating => Some(Answer(m.event), {"status"})
  BY <1>3, AnswerIs
<1>5. Types'
  BY <1>1, <1>4, ReadTypes DEF ViewsInv, Reading
<1>6. /\ Orderly(toClient', tmp, off, offFound)
      /\ \A Q \in SUBSET Queue : WillCopy(Q) =>
            Copied(toClient', tmp', off', offFound', copy', Q)
  <2>1. /\ Orderly(toClient', tmp, off, offFound)
        /\ \A Q \in SUBSET Queue : Brings(toClient, tmp, off, offFound, Q) =>
              Brings(toClient', tmp, off, offFound, Q)
    BY <1>2, <1>3, OtherRead DEF ViewsInv, WebGood, WebTypeOK
  <2>2. Some(toClient', Showns) => Some(toClient, Showns)
    BY <1>2, SomeRest
  <2>. QED
    BY <1>2, <2>1, <2>2 DEF WillCopy, Copied
<1>7. Course'
  <2>1. /\ PlaybackHeld' = IF m \in Statuses THEN m.playback ELSE PlaybackHeld
        /\ ModeHeld' = IF m \in ModeKind THEN m.mode ELSE ModeHeld
    BY <1>2, <1>3 DEF PlaybackHeld, ModeHeld, ModeKind
  <2>2. /\ m \in NoticesOf(Reloading) /\ who = "web" => Some(Answer(m.event), {"show"})
        /\ m \in NoticesOf({"mode"}) /\ who = "web" => Some(Answer(m.event), {"status"})
        /\ m \in NoticesOf(Restating) => Some(Answer(m.event), {"status"})
    BY <1>4 DEF NoticesOf
  <2>3. UNCHANGED <<batch, monitor, stateVars, historyVars, who>>
    BY DEF Reading
  <2>. QED
    BY <1>1, <1>2, <1>4, <1>6, <2>1, <2>2, <2>3, ReadFollows DEF ViewsInv
<1>8. WebGood' /\ MprisGood'
  BY <1>2, <1>6, WebKept, MprisKept DEF ViewsInv, Reading
<1>. QED
  BY <1>5, <1>7, <1>8 DEF ViewsInv

LEMMA GetStatusKeeps ==
    ASSUME ViewsInv, who = "web", Reading,
           GetStatus(Head(toClient)) \/ GetErr(Head(toClient))
    PROVE  ViewsInv'
<1>. PICK m : m = Head(toClient)
  OBVIOUS
<1>1. /\ \/ m.type = "status" /\ shown' = [playback |-> m.playback, mode |-> m.mode]
         \/ m.type = "err" /\ UNCHANGED shown
      /\ UNCHANGED <<tmp, off, offFound, copy, toDaemon>> /\ UNCHANGED pageVars
  BY DEF GetStatus, GetErr, NoBroadcast, copyVars
<1>2. /\ UNCHANGED <<status, who, page, socket, missed>>
      /\ toClient # <<>> /\ toClient \in Seq(Message) /\ toClient' = Tail(toClient)
  BY <1>1 DEF Reading, pageVars, mprisVars, ViewsInv, Types
<1>3. /\ m \in Message /\ m \notin Lists /\ m \notin Notices
      /\ m \in Statuses <=> m.type = "status"
  BY <1>1, <1>2, Rest, Kinds DEF Lists
<1>4. /\ <<>> \in Seq(Asked) /\ toDaemon' = toDaemon \o <<>>
      /\ \A K : ~Some(<<>>, K)
  BY <1>1, NothingAsked DEF ViewsInv
<1>5. Types'
  BY <1>4, ReadTypes DEF ViewsInv, Reading
<1>6. /\ Orderly(toClient', tmp, off, offFound)
      /\ \A Q \in SUBSET Queue : WillCopy(Q) =>
            Copied(toClient', tmp', off', offFound', copy', Q)
  <2>1. /\ Orderly(toClient', tmp, off, offFound)
        /\ \A Q \in SUBSET Queue : Brings(toClient, tmp, off, offFound, Q) =>
              Brings(toClient', tmp, off, offFound, Q)
    BY <1>2, <1>3, OtherRead DEF ViewsInv, WebGood, WebTypeOK
  <2>2. Some(toClient', Showns) => Some(toClient, Showns)
    BY <1>2, SomeRest
  <2>. QED
    BY <1>1, <2>1, <2>2 DEF WillCopy, Copied
<1>7. Course'
  <2>1. /\ PlaybackHeld' = IF m \in Statuses THEN m.playback ELSE PlaybackHeld
        /\ ModeHeld' = IF m \in ModeKind THEN m.mode ELSE ModeHeld
    BY <1>1, <1>2, <1>3 DEF PlaybackHeld, ModeHeld, ModeKind
  <2>2. \A E : m \notin NoticesOf(E)
    BY <1>3 DEF NoticesOf
  <2>3. UNCHANGED <<batch, monitor, stateVars, historyVars, who>>
    BY DEF Reading
  <2>. QED
    BY <1>2, <1>4, <1>6, <2>1, <2>2, <2>3, ReadFollows DEF ViewsInv
<1>8. WebGood'
  BY <1>1, <1>2, <1>6 DEF ViewsInv, WebGood, WebTypeOK, PageFollows, Flagged, Rows
<1>9. MprisGood'
  BY MprisKept DEF ViewsInv, Reading
<1>. QED
  BY <1>5, <1>7, <1>8, <1>9 DEF ViewsInv

(* A song of a list: the page has got it too, if it got the others.        *)
LEMMA GetShowKeeps ==
    ASSUME ViewsInv, who = "web", Reading, GetShow(Head(toClient))
    PROVE  ViewsInv'
<1>. PICK m : m = Head(toClient)
  OBVIOUS
<1>1. /\ m.type = "show"
      /\ page' = IF socket = "open"
                 THEN (IF tmp = <<>> THEN <<>> ELSE page) \o <<<<m.song, m.playing>>>>
                 ELSE page
      /\ missed' = (socket # "open" \/ (missed /\ ~(tmp = <<>>)))
      /\ tmp' = Append(tmp, m.song)
      /\ offFound' = (offFound \/ m.playing)
      /\ off' = IF offFound' THEN off ELSE off + 1
      /\ UNCHANGED <<copy, shown, toDaemon, socket>>
  BY DEF GetShow, Broadcast
<1>2. /\ UNCHANGED <<status, who>>
      /\ toClient # <<>> /\ toClient \in Seq(Message) /\ toClient' = Tail(toClient)
      /\ tmp \in Seq(Song) /\ off \in Nat /\ offFound \in BOOLEAN
      /\ Orderly(toClient, tmp, off, offFound)
  BY DEF Reading, mprisVars, ViewsInv, Types, WebGood, WebTypeOK
<1>3. /\ m \in Shows /\ m \notin Notices /\ m \notin Statuses /\ m \notin Showns
      /\ m.song \in Song /\ m.playing \in BOOLEAN
  BY <1>1, <1>2, Rest, Kinds
<1>4. /\ <<>> \in Seq(Asked) /\ toDaemon' = toDaemon \o <<>>
      /\ \A K : ~Some(<<>>, K)
  BY <1>1, NothingAsked DEF ViewsInv
<1>5. Types'
  BY <1>4, ReadTypes DEF ViewsInv, Reading
<1>6. /\ Orderly(toClient', tmp', off', offFound')
      /\ \A Q \in SUBSET Queue : Brings(toClient, tmp, off, offFound, Q) =>
            Brings(toClient', tmp', off', offFound', Q)
      /\ \E q \in Queue : /\ Begun(tmp, off, offFound, q) /\ Len(tmp) + 1 <= Size(q)
                          /\ m = ShowOf(q, Len(tmp) + 1)
  <2>1. /\ Head(toClient) \in Shows /\ tmp' = Append(tmp, Head(toClient).song)
        /\ offFound' = (offFound \/ Head(toClient).playing)
        /\ off' = IF offFound' THEN off ELSE off + 1
    BY <1>1, <1>3
  <2>2. /\ toClient \in Seq(Message) /\ toClient # <<>> /\ tmp \in Seq(Song)
        /\ offFound \in BOOLEAN /\ Orderly(toClient, tmp, off, offFound)
    BY <1>2
  <2>3. /\ Orderly(Tail(toClient), tmp', off', offFound')
        /\ \A Q \in SUBSET Queue : Brings(toClient, tmp, off, offFound, Q) =>
              Brings(Tail(toClient), tmp', off', offFound', Q)
        /\ \E q \in Queue : /\ Begun(tmp, off, offFound, q) /\ Len(tmp) + 1 <= Size(q)
                            /\ Head(toClient) = ShowOf(q, Len(tmp) + 1)
    BY ONLY <2>1, <2>2, ShowRead
  <2>. QED
    BY <1>2, <2>3
<1>7. \A Q \in SUBSET Queue : WillCopy(Q) =>
          Copied(toClient', tmp', off', offFound', copy', Q)
  <2>1. Some(toClient', Showns) => Some(toClient, Showns)
    BY <1>2, SomeRest
  <2>. QED
    BY <1>1, <1>6, <2>1 DEF WillCopy, Copied
<1>8. Course'
  <2>1. /\ PlaybackHeld' = IF m \in Statuses THEN m.playback ELSE PlaybackHeld
        /\ ModeHeld' = IF m \in ModeKind THEN m.mode ELSE ModeHeld
    BY <1>1, <1>2, <1>3 DEF PlaybackHeld, ModeHeld, ModeKind
  <2>2. \A E : m \notin NoticesOf(E)
    BY <1>3 DEF NoticesOf
  <2>3. UNCHANGED <<batch, monitor, stateVars, historyVars, who>>
    BY DEF Reading
  <2>. QED
    BY <1>2, <1>4, <1>7, <2>1, <2>2, <2>3, ReadFollows DEF ViewsInv
<1>. PICK n \in Nat : n = Len(tmp)
  BY <1>2, LenProperties
<1>9. /\ tmp' \in Seq(Song) /\ Len(tmp') = n + 1 /\ tmp' # <<>> /\ tmp'[n + 1] = m.song
      /\ \A j \in 1 .. n : tmp'[j] = tmp[j]
  BY <1>1, <1>2, <1>3, AppendProperties
<1>10. WebTypeOK'
  <2>1. page' \in Seq(Song \X BOOLEAN)
    <3>1. <<<<m.song, m.playing>>>> \in Seq(Song \X BOOLEAN)
      BY <1>3
    <3>2. page \in Seq(Song \X BOOLEAN) /\ <<>> \in Seq(Song \X BOOLEAN)
      BY EmptySeq DEF ViewsInv, WebGood, WebTypeOK
    <3>. QED
      BY <1>1, <3>1, <3>2, ConcatProperties
  <2>2. off' \in Nat /\ offFound' \in BOOLEAN /\ missed' \in BOOLEAN
    BY <1>1, <1>2
  <2>. QED
    BY <1>1, <1>9, <2>1, <2>2 DEF ViewsInv, WebGood, WebTypeOK
<1>11. ASSUME socket' # "none", ~missed'
       PROVE  socket' = "open" /\ page' = Flagged'
  <2>1. socket = "open" /\ (tmp = <<>> \/ ~missed)
    BY <1>1, <1>11
  <2>2. PICK x : x = IF tmp = <<>> THEN <<>> ELSE page
    OBVIOUS
  <2>3. x = Flagged
    <3>1. CASE tmp = <<>>
      <4>1. Flagged = <<>>
        BY <3>1 DEF Flagged
      <4>. QED
        BY <2>2, <3>1, <4>1
    <3>2. CASE tmp # <<>>
      BY <2>1, <2>2, <3>2 DEF ViewsInv, WebGood, PageFollows
    <3>. QED
      BY <3>1, <3>2
  <2>4. /\ x \in Seq(Song \X BOOLEAN) /\ Len(x) = n
        /\ \A j \in 1 .. n : x[j] = <<tmp[j], offFound /\ off = j - 1>>
    <3>1. \A j \in 1 .. n : tmp[j] \in Song
      BY <1>2, ElementOfSeq
    <3>2. \A j \in 1 .. n : <<tmp[j], offFound /\ off = j - 1>> \in Song \X BOOLEAN
      BY <1>2, <3>1
    <3>. QED
      BY <2>3, <3>2 DEF Flagged
  <2>5. page' = Append(x, <<m.song, m.playing>>)
    <3>1. <<m.song, m.playing>> \in Song \X BOOLEAN
      BY <1>3
    <3>. QED
      BY <1>1, <2>1, <2>2, <2>4, <3>1, AppendIsConcat
  <2>6. /\ Len(page') = n + 1 /\ page' \in Seq(Song \X BOOLEAN)
        /\ \A j \in 1 .. n : page'[j] = <<tmp[j], offFound /\ off = j - 1>>
        /\ page'[n + 1] = <<m.song, m.playing>>
    <3>1. <<m.song, m.playing>> \in Song \X BOOLEAN
      BY <1>3
    <3>. QED
      BY <2>4, <2>5, <3>1, AppendProperties
  <2>7. PICK q \in Queue : Begun(tmp, off, offFound, q) /\ m = ShowOf(q, n + 1)
    BY <1>6
  <2>8. /\ m.playing = (q.off = n) /\ q.off \in Int
        /\ offFound = (q.off \in 0 .. n - 1) /\ off = IF offFound THEN q.off ELSE n
    <3>1. n + 1 - 1 = n
      OBVIOUS
    <3>. QED
      BY <2>7, <3>1, QueueFacts DEF Begun, ShowOf
  <2>9. ASSUME NEW j \in 1 .. n
        PROVE  (offFound /\ off = j - 1) = (offFound' /\ off' = j - 1)
    <3>1. CASE offFound
      BY <1>1, <3>1
    <3>2. CASE ~offFound /\ m.playing
      <4>1. off = n /\ off' = n
        BY <1>1, <2>8, <3>2
      <4>. QED
        BY <3>2, <4>1
    <3>3. CASE ~offFound /\ ~m.playing
      BY <1>1, <1>2, <1>3, <3>3
    <3>. QED
      BY <3>1, <3>2, <3>3
  <2>10. m.playing = (offFound' /\ off' = n + 1 - 1)
    <3>0. n + 1 - 1 = n
      OBVIOUS
    <3>1. CASE offFound
      <4>1. q.off \in 0 .. n - 1 /\ off = q.off
        BY <2>8, <3>1
      <4>2. q.off # n /\ off # n
        BY <4>1
      <4>3. m.playing = FALSE
        BY <2>8, <4>2
      <4>4. off' = off
        BY <1>1, <3>1
      <4>. QED
        BY <3>0, <4>2, <4>3, <4>4
    <3>2. CASE ~offFound
      <4>1. off = n
        BY <2>8, <3>2
      <4>2. CASE m.playing = TRUE
        <5>1. offFound' = TRUE /\ off' = off
          BY <1>1, <4>2
        <5>. QED
          BY <3>0, <4>1, <4>2, <5>1
      <4>3. CASE m.playing = FALSE
        <5>1. offFound' = FALSE
          BY <1>1, <1>2, <3>2, <4>3
        <5>. QED
          BY <4>3, <5>1
      <4>. QED
        BY <4>2, <4>3, <1>3
    <3>. QED
      BY <3>1, <3>2
  <2>11. \A j \in 1 .. n + 1 : page'[j] = <<tmp'[j], offFound' /\ off' = j - 1>>
    <3>1. \A j \in 1 .. n + 1 : j \in 1 .. n \/ j = n + 1
      OBVIOUS
    <3>2. ASSUME NEW j \in 1 .. n
          PROVE  page'[j] = <<tmp'[j], offFound' /\ off' = j - 1>>
      BY <1>9, <2>6, <2>9
    <3>3. page'[n + 1] = <<tmp'[n + 1], offFound' /\ off' = n + 1 - 1>>
      BY <1>9, <2>6, <2>10
    <3>. QED
      BY ONLY <3>1, <3>2, <3>3
  <2>12. page' = [j \in 1 .. n + 1 |-> page'[j]]
    BY <2>6, LenProperties
  <2>. QED
    BY <1>1, <1>9, <2>1, <2>11, <2>12 DEF Flagged
<1>12. WebGood'
  BY <1>6, <1>9, <1>10, <1>11 DEF WebGood, PageFollows
<1>13. MprisGood'
  BY MprisKept DEF ViewsInv, Reading
<1>. QED
  BY <1>5, <1>8, <1>12, <1>13 DEF ViewsInv

(* The end of a list: the page is the list already, or is emptied.         *)
LEMMA GetShownKeeps ==
    ASSUME ViewsInv, who = "web", Reading, GetShown(Head(toClient))
    PROVE  ViewsInv'
<1>. PICK m : m = Head(toClient)
  OBVIOUS
<1>1. /\ m.type = "shown"
      /\ IF tmp = <<>>
         THEN /\ page' = IF socket = "open" THEN <<>> \o <<>> ELSE page
              /\ missed' = (socket # "open" \/ (missed /\ ~TRUE))
              /\ UNCHANGED socket
         ELSE UNCHANGED <<page, socket, missed>>
      /\ copy' = Swap(tmp, IF tmp = <<>> THEN -1 ELSE off)
      /\ tmp' = <<>> /\ off' = 0 /\ offFound' = FALSE
      /\ UNCHANGED <<shown, toDaemon>>
  BY DEF GetShown, Broadcast, NoBroadcast, pageVars
<1>2. /\ UNCHANGED <<status, who>>
      /\ toClient # <<>> /\ toClient \in Seq(Message) /\ toClient' = Tail(toClient)
      /\ tmp \in Seq(Song) /\ off \in Nat /\ offFound \in BOOLEAN
      /\ Orderly(toClient, tmp, off, offFound)
  BY DEF Reading, mprisVars, ViewsInv, Types, WebGood, WebTypeOK
<1>3. m \in Showns /\ m \notin Notices /\ m \notin Statuses
  BY <1>1, <1>2, Rest, Kinds
<1>4. /\ <<>> \in Seq(Asked) /\ toDaemon' = toDaemon \o <<>>
      /\ \A K : ~Some(<<>>, K)
  BY <1>1, NothingAsked DEF ViewsInv
<1>5. Types'
  BY <1>4, ReadTypes DEF ViewsInv, Reading
<1>6. /\ Orderly(toClient', tmp', off', offFound')
      /\ \A Q \in SUBSET Queue : Brings(toClient, tmp, off, offFound, Q) =>
            \/ Brings(toClient', tmp', off', offFound', Q)
            \/ ~Some(toClient', Showns) /\ copy' \in Q
      /\ copy' \in Queue /\ tmp = copy'.songs /\ Begun(tmp, off, offFound, copy')
  <2>1. /\ toClient # <<>> /\ toClient \in Seq(Message) /\ Head(toClient) \in Showns
        /\ tmp \in Seq(Song) /\ offFound \in BOOLEAN
        /\ Orderly(toClient, tmp, off, offFound)
    BY <1>2, <1>3
  <2>2. /\ tmp' = <<>> /\ off' = 0 /\ offFound' \in BOOLEAN /\ ~offFound'
        /\ copy' = Swap(tmp, IF tmp = <<>> THEN -1 ELSE off)
    BY <1>1
  <2>3. /\ Orderly(Tail(toClient), tmp', off', offFound')
        /\ \A Q \in SUBSET Queue : Brings(toClient, tmp, off, offFound, Q) =>
              \/ Brings(Tail(toClient), tmp', off', offFound', Q)
              \/ ~Some(Tail(toClient), Showns) /\ copy' \in Q
        /\ copy' \in Queue /\ tmp = copy'.songs /\ Begun(tmp, off, offFound, copy')
    BY ONLY <2>1, <2>2, ShownRead
  <2>. QED
    BY <1>2, <2>3
<1>7. \A Q \in SUBSET Queue : WillCopy(Q) =>
          Copied(toClient', tmp', off', offFound', copy', Q)
  <2>1. Some(toClient, Showns)
    BY <1>2, <1>3, SomeRest
  <2>. QED
    BY <1>6, <2>1 DEF WillCopy, Copied
<1>8. Course'
  <2>1. /\ PlaybackHeld' = IF m \in Statuses THEN m.playback ELSE PlaybackHeld
        /\ ModeHeld' = IF m \in ModeKind THEN m.mode ELSE ModeHeld
    BY <1>1, <1>2, <1>3 DEF PlaybackHeld, ModeHeld, ModeKind
  <2>2. \A E : m \notin NoticesOf(E)
    BY <1>3 DEF NoticesOf
  <2>3. UNCHANGED <<batch, monitor, stateVars, historyVars, who>>
    BY DEF Reading
  <2>. QED
    BY <1>2, <1>4, <1>7, <2>1, <2>2, <2>3, ReadFollows DEF ViewsInv
<1>9. copy'.songs \in Seq(Song) /\ copy'.off \in -1 .. Len(copy'.songs) - 1
  BY <1>6, QueueFacts DEF Size
<1>10. PICK s : s = IF tmp = <<>> /\ socket = "open" THEN <<>> ELSE page
  OBVIOUS
<1>11. page' = s
  <2>1. <<>> \o <<>> = <<>>
    BY ConcatEmptySeq, EmptySeq
  <2>. QED
    BY <1>1, <1>10, <2>1
<1>12. WebTypeOK'
  <2>1. page' \in Seq(Song \X BOOLEAN)
    BY <1>10, <1>11, EmptySeq DEF ViewsInv, WebGood, WebTypeOK
  <2>2. <<>> \in Seq(Song)
    BY EmptySeq
  <2>. QED
    BY <1>1, <1>9, <2>1, <2>2 DEF ViewsInv, WebGood, WebTypeOK
<1>13. ASSUME socket' # "none", ~missed'
       PROVE  page' = Rows'
  <2>1. Rows' = [i \in 1 .. Len(tmp) |-> <<tmp[i], copy'.off = i - 1>>]
    BY <1>6 DEF Rows
  <2>2. CASE tmp = <<>>
    <3>1. page' = <<>>
      BY <1>1, <1>10, <1>11, <1>13, <2>2
    <3>. QED
      BY <2>1, <2>2, <3>1
  <2>3. CASE tmp # <<>>
    <3>1. page' = Flagged
      BY <1>1, <1>13, <2>3 DEF ViewsInv, WebGood, PageFollows
    <3>2. ASSUME NEW j \in 1 .. Len(tmp)
          PROVE  (copy'.off = j - 1) = (offFound /\ off = j - 1)
      <4>1. /\ offFound = (copy'.off \in 0 .. Len(tmp) - 1)
            /\ off = IF offFound THEN copy'.off ELSE Len(tmp)
        BY <1>6 DEF Begun
      <4>2. Len(tmp) \in Nat /\ copy'.off \in Int
        BY <1>2, <1>6, LenProperties, QueueFacts
      <4>3. CASE offFound = TRUE
        BY <4>1, <4>3
      <4>4. CASE offFound = FALSE
        <5>1. copy'.off \notin 0 .. Len(tmp) - 1
          BY <4>1, <4>4
        <5>2. copy'.off # j - 1
          BY <4>2, <5>1
        <5>. QED
          BY <4>4, <5>2
      <4>. QED
        BY <1>2, <4>3, <4>4
    <3>. QED
      BY <2>1, <3>1, <3>2 DEF Flagged
  <2>. QED
    BY <2>2, <2>3
<1>14. WebGood'
  BY <1>1, <1>6, <1>12, <1>13 DEF WebGood, PageFollows
<1>15. MprisGood'
  BY MprisKept DEF ViewsInv, Reading
<1>. QED
  BY <1>5, <1>8, <1>14, <1>15 DEF ViewsInv

LEMMA ReceiveKeeps ==
    ASSUME ViewsInv, who = "web", Receive, UNCHANGED <<mprisVars, who>>
    PROVE  ViewsInv'
<1>1. Reading
  BY DEF Receive, Reading
<1>. QED
  BY <1>1, GetEventKeeps, GetStatusKeeps, GetShowKeeps, GetShownKeeps DEF Receive

(* The browser loads the page and opens its websocket.                     *)
LEMMA LoadKeeps ==
    ASSUME ViewsInv, Load, UNCHANGED <<mprisVars, who>>
    PROVE  ViewsInv'
<1>1. /\ page' = Rows /\ socket' = "loaded" /\ missed' = (tmp # <<>>)
      /\ UNCHANGED copyVars /\ UNCHANGED notifierVars /\ UNCHANGED <<status, who>>
  BY DEF Load, mprisVars
<1>2. UNCHANGED <<tmp, off, offFound, copy, toClient>>
  BY <1>1 DEF copyVars, notifierVars, wireVars
<1>3. Course'
  BY <1>1, CourseKept DEF ViewsInv
<1>4. Types'
  BY <1>1 DEF ViewsInv, Types, notifierVars, wireVars, stateVars, historyVars
<1>5. Rows \in Seq(Song \X BOOLEAN)
  <2>1. copy.songs \in Seq(Song)
    BY DEF ViewsInv, WebGood, WebTypeOK
  <2>2. Len(copy.songs) \in Nat /\ \A i \in 1 .. Len(copy.songs) : copy.songs[i] \in Song
    BY <2>1, LenProperties, ElementOfSeq
  <2>3. \A i \in 1 .. Len(copy.songs) :
            <<copy.songs[i], copy.off = i - 1>> \in Song \X BOOLEAN
    BY <2>2
  <2>. QED
    BY <2>2, <2>3 DEF Rows
<1>6. WebGood'
  BY <1>1, <1>2, <1>5 DEF ViewsInv, WebGood, WebTypeOK, PageFollows, Rows
<1>7. MprisGood'
  BY MprisKept DEF ViewsInv
<1>. QED
  BY <1>3, <1>4, <1>6, <1>7 DEF ViewsInv

LEMMA OpenKeeps ==
    ASSUME ViewsInv, OpenSocket, UNCHANGED <<mprisVars, who>>
    PROVE  ViewsInv'
<1>1. /\ socket = "loaded" /\ socket' = "open" /\ UNCHANGED <<page, missed>>
      /\ UNCHANGED copyVars /\ UNCHANGED notifierVars /\ UNCHANGED <<status, who>>
  BY DEF OpenSocket, mprisVars
<1>2. UNCHANGED <<tmp, off, offFound, copy, toClient>>
  BY <1>1 DEF copyVars, notifierVars, wireVars
<1>3. Course'
  BY <1>1, CourseKept DEF ViewsInv
<1>4. Types'
  BY <1>1 DEF ViewsInv, Types, notifierVars, wireVars, stateVars, historyVars
<1>5. WebGood'
  BY <1>1, <1>2 DEF ViewsInv, WebGood, WebTypeOK, PageFollows, Rows, Flagged
<1>6. MprisGood'
  BY MprisKept DEF ViewsInv
<1>. QED
  BY <1>3, <1>4, <1>5, <1>6 DEF ViewsInv

(* A form is sent, or a method of the bus is called.                       *)
LEMMA AskKeeps ==
    ASSUME ViewsInv, UNCHANGED <<batch, monitor, toClient, stateVars, historyVars>>,
           UNCHANGED webVars, UNCHANGED mprisVars, UNCHANGED who,
           NEW x \in {"jump", "skip", "start", "pause", "mode"}, toDaemon' = toDaemon \o <<x>>
    PROVE  ViewsInv'
<1>1. <<x>> \in Seq(Asked) /\ ~Some(<<x>>, {"monitor"})
  BY Single DEF Asked
<1>2. Course'
  BY <1>1, AskFollows DEF ViewsInv
<1>3. /\ toDaemon' \in Seq(Asked) /\ Len(toDaemon') = Len(toDaemon) + 1
      /\ Len(toDaemon) \in Nat
  BY <1>1, Joined DEF ViewsInv, Types
<1>4. Types'
  BY <1>3 DEF ViewsInv, Types, stateVars, historyVars
<1>5. WebGood'
  BY WebKept DEF ViewsInv, WebGood
<1>6. MprisGood'
  BY MprisKept DEF ViewsInv
<1>. QED
  BY <1>2, <1>4, <1>5, <1>6 DEF ViewsInv

LEMMA WebKeeps ==
    ASSUME ViewsInv, Web
    PROVE  ViewsInv'
<1>1. who = "web" /\ UNCHANGED <<mprisVars, who>>
  BY DEF Web
<1>2. CASE Receive
  BY <1>1, <1>2, ReceiveKeeps
<1>3. CASE Load \/ OpenSocket
  BY <1>1, <1>3, LoadKeeps, OpenKeeps
<1>4. CASE Command
  <2>1. PICK x \in {"jump", "skip", "start", "pause", "mode"} : toDaemon' = toDaemon \o <<x>>
    BY <1>4 DEF Command, Ask
  <2>. QED
    BY <1>1, <1>4, <2>1, AskKeeps DEF Command
<1>5. CASE DaemonNext /\ UNCHANGED webVars
  BY <1>1, <1>5, DaemonKeeps
<1>. QED
  BY <1>2, <1>3, <1>4, <1>5 DEF Web, WebNext

-----------------------------------------------------------------------------
(* The bridge.  A handler: what it asks for, and what it holds afterwards. *)
LEMMA BridgeReads ==
    ASSUME ViewsInv, who = "mpris2",
           toClient # <<>>, toClient' = Tail(toClient), UNCHANGED <<who, webVars>>,
           UNCHANGED <<batch, monitor, stateVars, historyVars>>,
           NEW r \in Seq(Asked), toDaemon' = toDaemon \o r, ~Some(r, {"monitor"}),
           Head(toClient) \in NoticesOf(Restating) => Some(r, {"status"}),
           status'.playback = IF Head(toClient) \in Statuses THEN Head(toClient).playback
                              ELSE status.playback,
           status'.mode = IF Head(toClient) \in ModeNews THEN Head(toClient).mode
                          ELSE status.mode,
           MprisGood'
    PROVE  ViewsInv'
<1>1. /\ PlaybackHeld' = IF Head(toClient) \in Statuses THEN Head(toClient).playback
                         ELSE PlaybackHeld
      /\ ModeHeld' = IF Head(toClient) \in ModeKind THEN Head(toClient).mode ELSE ModeHeld
  BY DEF PlaybackHeld, ModeHeld, ModeKind
<1>2. UNCHANGED <<batch, monitor, stateVars, historyVars, who>>
  OBVIOUS
<1>3. Types'
  BY <1>2, ReadTypes DEF ViewsInv
<1>4. Course'
  BY <1>1, <1>2, ReadFollows DEF ViewsInv
<1>5. WebGood'
  BY WebKept DEF ViewsInv
<1>. QED
  BY <1>3, <1>4, <1>5 DEF ViewsInv

LEMMA MpReceiveKeeps ==
    ASSUME ViewsInv, who = "mpris2", MpReceive, UNCHANGED <<webVars, who>>
    PROVE  ViewsInv'
<1>. PICK m : m = Head(toClient)
  OBVIOUS
<1>1. /\ toClient # <<>> /\ toClient' = Tail(toClient) /\ toClient \in Seq(Message)
      /\ UNCHANGED <<batch, monitor, stateVars, historyVars>>
  BY DEF MpReceive, ViewsInv, Types
<1>2. m \in Message
  BY <1>1, Rest
<1>3. /\ status = [playback |-> status.playback, mode |-> status.mode,
                   position |-> status.position]
      /\ status.playback \in PlaybackType /\ status.position \in Nat
  BY DEF ViewsInv, MprisGood
<1>4. UNCHANGED toDaemon => /\ <<>> \in Seq(Asked) /\ toDaemon' = toDaemon \o <<>>
                            /\ ~Some(<<>>, {"monitor"})
  BY NothingAsked DEF ViewsInv
<1>5. \A x \in Notices : x.event # "mode" => x \notin ModeNews
  BY Kinds DEF ModeNews, NoticesOf
<1>6. CASE MpModeEvent(m)
  <2>1. /\ m.type = "event" /\ m.event = "mode" /\ status' = [status EXCEPT !.mode = m.mode]
        /\ UNCHANGED toDaemon
    BY <1>6 DEF MpModeEvent
  <2>2. m \in Notices /\ m \notin Statuses
    BY <1>2, <2>1, Kinds
  <2>3. m \in ModeNews /\ m \notin NoticesOf(Restating)
    BY <2>1, <2>2 DEF ModeNews, NoticesOf, Restating
  <2>4. /\ status'.playback = status.playback /\ status'.mode = m.mode
        /\ status' = [playback |-> status'.playback, mode |-> status'.mode,
                      position |-> status'.position]
        /\ status'.position = status.position
    BY <1>3, <2>1
  <2>5. MprisGood'
    BY <1>3, <2>1, <2>4 DEF MprisGood
  <2>. QED
    BY <1>1, <1>4, <2>1, <2>2, <2>3, <2>4, <2>5, BridgeReads
<1>7. CASE MpSeekEvent(m)
  <2>1. /\ m.type = "event" /\ m.event = "seek"
        /\ status' = [status EXCEPT !.position = m.position]
        /\ UNCHANGED toDaemon
    BY <1>7 DEF MpSeekEvent
  <2>2. m \in Notices /\ m \notin Statuses
    BY <1>2, <2>1, Kinds
  <2>3. m \notin ModeNews /\ m \notin NoticesOf(Restating)
    BY <1>5, <2>1, <2>2 DEF NoticesOf, Restating
  <2>4. /\ status'.playback = status.playback /\ status'.mode = status.mode
        /\ status' = [playback |-> status'.playback, mode |-> status'.mode,
                      position |-> status'.position]
        /\ status'.position = m.position
    BY <1>3, <2>1
  <2>5. m.position \in Nat
    BY <2>2, NotifierAssumption DEF Notices
  <2>6. MprisGood'
    BY <1>3, <2>1, <2>4, <2>5 DEF MprisGood
  <2>. QED
    BY <1>1, <1>4, <2>1, <2>2, <2>3, <2>4, <2>6, BridgeReads
<1>8. CASE MpEvent(m)
  <2>1. /\ m.type = "event" /\ m.event \notin {"mode", "seek"}
        /\ toDaemon' = toDaemon \o Requests(m.event)
        /\ UNCHANGED status /\ UNCHANGED mprisVars
    BY <1>8 DEF MpEvent, mprisVars
  <2>2. m \in Notices /\ m \notin Statuses /\ m.event \in Event
    BY <1>2, <2>1, Kinds
  <2>3. m \notin ModeNews
    BY <1>5, <2>1, <2>2
  <2>4. /\ Requests(m.event) \in Seq(Asked) /\ ~Some(Requests(m.event), {"monitor"})
        /\ m \in NoticesOf(Restating) => Some(Requests(m.event), {"status"})
    BY <2>2, RequestsIs DEF NoticesOf
  <2>5. MprisGood'
    BY <2>1, MprisKept DEF ViewsInv
  <2>. QED
    BY <1>1, <2>1, <2>2, <2>3, <2>4, <2>5, BridgeReads
<1>9. CASE MpStatus(m)
  <2>1. /\ m.type = "status"
        /\ status' = [playback |-> m.playback, mode |-> m.mode, position |-> m.position]
        /\ UNCHANGED toDaemon
    BY <1>9 DEF MpStatus
  <2>2. m \in Statuses /\ m \notin Notices
    BY <1>2, <2>1, Kinds
  <2>3. m \in ModeNews /\ m \notin NoticesOf(Restating)
    BY <2>2 DEF ModeNews, NoticesOf
  <2>4. /\ status'.playback = m.playback /\ status'.mode = m.mode
        /\ status' = [playback |-> status'.playback, mode |-> status'.mode,
                      position |-> status'.position]
        /\ status'.position = m.position
    BY <2>1
  <2>5. m.position \in Nat /\ m.playback \in PlaybackType
    BY <2>2, NotifierAssumption DEF Statuses
  <2>6. MprisGood'
    BY <1>3, <2>1, <2>4, <2>5 DEF MprisGood
  <2>. QED
    BY <1>1, <1>4, <2>1, <2>2, <2>3, <2>4, <2>6, BridgeReads
<1>10. CASE MpErr(m)
  <2>1. m.type = "err" /\ UNCHANGED <<status, toDaemon>> /\ UNCHANGED mprisVars
    BY <1>10 DEF MpErr, mprisVars
  <2>2. m \notin Statuses /\ m \notin Notices
    BY <2>1, Kinds
  <2>3. m \notin ModeNews /\ m \notin NoticesOf(Restating)
    BY <2>2 DEF ModeNews, NoticesOf
  <2>4. MprisGood'
    BY <2>1, MprisKept DEF ViewsInv
  <2>. QED
    BY <1>1, <1>4, <2>1, <2>2, <2>3, <2>4, BridgeReads
<1>. QED
  BY <1>6, <1>7, <1>8, <1>9, <1>10 DEF MpReceive

LEMMA MprisKeeps ==
    ASSUME ViewsInv, Mpris
    PROVE  ViewsInv'
<1>1. who = "mpris2" /\ UNCHANGED <<webVars, who>>
  BY DEF Mpris
<1>2. CASE MpReceive
  BY <1>1, <1>2, MpReceiveKeeps
<1>3. CASE BusCommand
  <2>1. PICK x \in {"skip", "start", "pause", "mode"} : toDaemon' = Append(toDaemon, x)
    BY <1>3 DEF BusCommand
  <2>2. toDaemon' = toDaemon \o <<x>>
    <3>1. toDaemon \in Seq(Asked) /\ x \in Asked
      BY DEF ViewsInv, Types, Asked
    <3>. QED
      BY <2>1, <3>1, AppendIsConcat
  <2>. QED
    BY <1>1, <1>3, <2>2, AskKeeps DEF BusCommand
<1>4. CASE DaemonNext /\ UNCHANGED mprisVars
  BY <1>1, <1>4, DaemonKeeps
<1>. QED
  BY <1>2, <1>3, <1>4 DEF Mpris, MprisNext

-----------------------------------------------------------------------------
LEMMA ViewsStart == ViewsInit => ViewsInv
<1>. SUFFICES ASSUME ViewsInit
              PROVE  ViewsInv
  OBVIOUS
<1>1. /\ who \in {"web", "mpris2"}
      /\ toDaemon = IF who = "web" THEN <<"show", "status", "monitor">>
                                   ELSE <<"status", "monitor">>
      /\ queue \in Queue /\ playback \in Playback /\ mode \in Mode /\ position \in Position
      /\ batch = 0 /\ monitor = FALSE /\ toClient = <<>> /\ queueSince = {} /\ playSince = {}
  BY DEF ViewsInit, NotifierInit, Greeting, Subscription
<1>2. playback \in PlaybackType
  BY <1>1, NotifierAssumption DEF PlaybackType
<1>3. Types
  <2>1. toClient \in Seq(Message)
    BY <1>1, EmptySeq
  <2>2. toDaemon \in Seq(Asked)
    <3>1. /\ "show" \in Asked /\ "status" \in Asked /\ "monitor" \in Asked
      BY DEF Asked
    <3>2. CASE who = "web"
      <4>1. toDaemon = <<"show", "status", "monitor">>
        BY <1>1, <3>2
      <4>. QED
        BY <3>1, <4>1
    <3>3. CASE who = "mpris2"
      <4>1. toDaemon = <<"status", "monitor">>
        BY <1>1, <3>3
      <4>. QED
        BY <3>1, <4>1
    <3>. QED
      BY <1>1, <3>2, <3>3
  <2>3. batch \in 0 .. Len(toDaemon)
    <3>1. Len(toDaemon) \in Nat
      BY <2>2, LenProperties
    <3>. QED
      BY <1>1, <3>1
  <2>4. queueSince \in SUBSET Queue /\ playSince \in SUBSET PlaybackType
    BY <1>1
  <2>5. monitor \in BOOLEAN
    BY <1>1
  <2>. QED
    BY ONLY <1>1, <1>2, <2>1, <2>2, <2>3, <2>4, <2>5 DEF Types
<1>4. Course
  <2>1. CASE who = "web"
    <3>1. toDaemon = <<"show", "status", "monitor">>
      BY <1>1, <2>1
    <3>2. Greets(3)
      BY <1>1, <2>1, <3>1 DEF Greets
    <3>. QED
      BY <1>1, <3>2 DEF Course, Since, Follows, Phase
  <2>2. CASE who = "mpris2"
    <3>1. toDaemon = <<"status", "monitor">>
      BY <1>1, <2>2
    <3>2. Greets(2)
      BY <1>1, <2>2, <3>1 DEF Greets
    <3>. QED
      BY <1>1, <3>2 DEF Course, Since, Follows, Phase
  <2>. QED
    BY <1>1, <2>1, <2>2
<1>5. WebGood
  <2>1. /\ tmp = <<>> /\ off = 0 /\ offFound = FALSE
        /\ copy = [songs |-> <<>>, off |-> -1]
        /\ page = <<>> /\ socket = "none" /\ missed = FALSE
    BY DEF ViewsInit, WebInit
  <2>2. Orderly(toClient, tmp, off, offFound)
    BY <1>1, <2>1 DEF Orderly, InReplies, Halfway
  <2>3. /\ tmp \in Seq(Song) /\ copy.songs \in Seq(Song) /\ page \in Seq(Song \X BOOLEAN)
        /\ copy.off \in -1 .. Len(copy.songs) - 1
    BY <2>1, EmptySeq
  <2>. QED
    BY <2>1, <2>2, <2>3 DEF WebGood, WebTypeOK, PageFollows
<1>6. MprisGood
  <2>1. /\ status = [playback |-> [state |-> "stopped", song |-> None], mode |-> {},
                     position |-> 0]
    BY DEF ViewsInit, MprisInit
  <2>. QED
    BY <2>1 DEF MprisGood, PlaybackType
<1>. QED
  BY <1>3, <1>4, <1>5, <1>6 DEF ViewsInv

LEMMA ViewsStutter ==
    ASSUME ViewsInv, UNCHANGED viewVars
    PROVE  ViewsInv'
<1>1. /\ UNCHANGED notifierVars /\ UNCHANGED webVars /\ UNCHANGED mprisVars /\ UNCHANGED who
      /\ UNCHANGED <<copyVars, status, toClient>>
  BY DEF viewVars, webVars, mprisVars, notifierVars, wireVars
<1>2. Course'
  BY <1>1, CourseKept DEF ViewsInv
<1>3. Types'
  BY <1>1 DEF ViewsInv, Types, notifierVars, wireVars, stateVars, historyVars
<1>4. WebGood' /\ MprisGood'
  BY <1>1, WebKept, MprisKept DEF ViewsInv, WebGood
<1>. QED
  BY <1>2, <1>3, <1>4 DEF ViewsInv

(* The invariant: what is under way, or what will be asked for, leaves     *)
(* each program with a state of the daemon that is recent.                 *)
THEOREM ViewsAlways == ViewsSpec => []ViewsInv
<1>1. ViewsInv /\ [Web \/ Mpris]_viewVars => ViewsInv'
  BY WebKeeps, MprisKeeps, ViewsStutter
<1>. QED
  BY <1>1, ViewsStart, PTL DEF ViewsSpec

LEMMA NothingUnderWay ==
    ASSUME ViewsInv, Settled
    PROVE  /\ \A K : ~Some(toClient, K) /\ ~Some(toDaemon, K)
           /\ who = "web" => copy \in queueSince
           /\ PlaybackHeld \in playSince /\ ModeHeld = mode
<1>1. toClient = <<>> /\ toDaemon = <<>> /\ monitor
  BY DEF Settled
<1>2. \A K : ~Some(<<>>, K)
  BY Single
<1>3. /\ \A K, V : ~Latest(<<>>, K, V)
      /\ \A Q : ~Brings(<<>>, tmp, off, offFound, Q)
  BY DEF Latest, Brings
<1>4. Follows
  BY DEF ViewsInv, Course
<1>. QED
  BY <1>1, <1>2, <1>3, <1>4
     DEF Follows, CopyFollows, ModeFollows, PlayFollows, WillCopy, WillMode, WillPlay,
         Copied, Moded, Played

(* The web interface, when all has been answered, has a queue and a        *)
(* playback that were the daemon's after the last event that told of a     *)
(* change of them, and exactly its modes: no reply is mixed with another   *)
(* and none that is too old is left in place (web/web.c, imsg_dispatch()). *)
THEOREM WebKeepsUp == ViewsSpec => []WebCopyIsRecent
<1>1. ViewsInv => WebCopyIsRecent
  <2>. SUFFICES ASSUME ViewsInv, who = "web"
                PROVE  WebTypeOK /\ CopyIsRecent /\ ShownIsRecent
    BY DEF WebCopyIsRecent
  <2>1. WebTypeOK
    BY DEF ViewsInv, WebGood
  <2>2. ASSUME Settled
        PROVE  copy \in queueSince /\ shown.playback \in playSince /\ shown.mode = mode
    BY <2>2, NothingUnderWay DEF PlaybackHeld, ModeHeld
  <2>. QED
    BY <2>1, <2>2 DEF CopyIsRecent, ShownIsRecent
<1>. QED
  BY <1>1, ViewsAlways, PTL

(* A browser that has not missed the beginning of a list shows, between    *)
(* lists, the songs of the copy and marks the one at its position          *)
(* (dispatch_event() and render_playlist() in web/web.c).                  *)
THEOREM PageKeepsUp == ViewsSpec => []PageIsCopy
<1>1. ViewsInv => PageIsCopy
  BY DEF ViewsInv, WebGood, PageFollows, PageIsCopy
<1>. QED
  BY <1>1, ViewsAlways, PTL

(* The mpris2 bridge likewise has exactly the modes, and a recent playback *)
(* (mpris2/mpris2.c, imsg_dispatch()).                                     *)
THEOREM BridgeKeepsUp == ViewsSpec => []MprisStatusIsRecent
<1>1. ViewsInv => MprisStatusIsRecent
  <2>. SUFFICES ASSUME ViewsInv, who = "mpris2"
                PROVE  MprisTypeOK /\ StatusIsRecent
    BY DEF MprisStatusIsRecent
  <2>1. MprisTypeOK
    BY DEF ViewsInv, MprisGood, MprisTypeOK, PlaybackType
  <2>2. ASSUME Settled
        PROVE  status.mode = mode /\ status.playback \in playSince
    BY <2>2, NothingUnderWay DEF PlaybackHeld, ModeHeld
  <2>. QED
    BY <2>1, <2>2 DEF StatusIsRecent
<1>. QED
  BY <1>1, ViewsAlways, PTL

=============================================================================
