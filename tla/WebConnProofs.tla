---------------------------- MODULE WebConnProofs ----------------------------
(***************************************************************************)
(* Commands are sent once and answers are well framed, for every set of    *)
(* requests, in whatever pieces they arrive, of any number of connections. *)
(***************************************************************************)
EXTENDS WebConn, SequenceTheorems, FiniteSetTheorems, WellFoundedInduction, TLAPS

(* What a client holds, with pieces of S.                                  *)
Token == ToSet(Page) \cup {<<"link">>, <<"notfound">>, <<"refused">>, <<"pong">>}
            \cup ({"event"} \X Nat)
Item == ({"head"} \X Nat \X BOOLEAN) \cup ({"chunk", "data"} \X Seq(Token))

(* The path of a request, and of none.                                     *)
Path(S) == {x[4] : x \in S} \cup {""}

ClientType(S) ==
    [rbuf : Seq(S), wbuf : Seq(Item), buf : Seq(Token),
     method : {"unknown", "GET", "POST"}, version : {"1.0", "1.1"}, path : Path(S),
     handshake : BOOLEAN, clen : Nat, reqdone : BOOLEAN, invalid : BOOLEAN,
     chunked : BOOLEAN, bioChunked : BOOLEAN,
     ws : BOOLEAN, done : BOOLEAN, route : {"none", "page", "ws"}]

(* A client whose buffers change is a client.                              *)
WithBuffers(k, c, v) == [k EXCEPT !.wbuf = c, !.buf = v]

LEMMA BuffersChange ==
    \A S : \A k \in ClientType(S), c \in Seq(Item), v \in Seq(Token) :
        /\ WithBuffers(k, c, v) \in ClientType(S)
        /\ WithBuffers(k, c, v).wbuf = c /\ WithBuffers(k, c, v).buf = v
        /\ \A f \in {"rbuf", "ws", "bioChunked"} : WithBuffers(k, c, v)[f] = k[f]
  <1> TAKE S
  <1> TAKE k \in ClientType(S), c \in Seq(Item), v \in Seq(Token)
  <1> DEFINE k1 == WithBuffers(k, c, v)
  <1>1. k1 \in ClientType(S)
    BY DEF ClientType, WithBuffers
  <1>2. k1.wbuf = c /\ k1.buf = v
    BY DEF ClientType, WithBuffers
  <1>3. \A f \in {"rbuf", "ws", "bioChunked"} : k1[f] = k[f]
    BY DEF ClientType, WithBuffers
  <1>4. QED
    BY <1>1, <1>2, <1>3

-----------------------------------------------------------------------------
(* What has been read of a request.                                        *)

(* k has heard the first m pieces of p, and they are lines of its head.    *)
Heard(k, p, m) ==
    LET is(kind) == {i \in 1 .. m : p[i][1] = kind} IN
    /\ m \in 0 .. Len(p) /\ ~k.invalid
    /\ \A i \in 1 .. m : p[i] = <<"end">> => i = m
    /\ k.reqdone <=> \E i \in 1 .. m : p[i] = <<"end">>
    /\ Proper(p, m)
    /\ \A i \in is("first") : /\ k.method = p[i][2] /\ k.version = p[i][3]
                              /\ k.path = p[i][4] /\ k.chunked = (p[i][3] = "1.1")
    /\ is("first") = {} => k.method = "unknown"
    /\ k.handshake <=> \E i \in 1 .. m : p[i] = <<"handshake">>
    /\ \A i \in is("length") : k.clen = p[i][2]
    /\ is("length") = {} => k.clen = 0

(* A set of numbers has a least one.                                       *)
LEMMA LeastOf ==
    ASSUME NEW T \in SUBSET Nat, T # {}
    PROVE  \E i \in T : \A j \in T : i <= j
  <1>1. PICK i \in T : \A j \in T : ~(<<j, i>> \in OpToRel(<, Nat))
    BY NatLessThanWellFounded, WFMin
  <1>2. ASSUME NEW j \in T, j < i PROVE <<j, i>> \in OpToRel(<, Nat)
    BY <1>2 DEF OpToRel
  <1>3. \A j \in T : ~(j < i)
    BY <1>1, <1>2
  <1>4. QED
    BY <1>3

(* The empty line is the last of the lines that are read.                  *)
LEMMA HeadLinesIs ==
    ASSUME NEW S, NEW buf \in Seq(S)
    PROVE  /\ HeadLines(buf) \in 0 .. Len(buf)
           /\ \A i \in 1 .. HeadLines(buf) : buf[i] = <<"end">> => i = HeadLines(buf)
  <1> DEFINE blank == {i \in 1 .. Len(buf) : buf[i] = <<"end">>}
  <1>1. CASE blank # {}
    <2>1. \E i \in blank : \A j \in blank : i <= j
      <3> HIDE DEF blank
      <3>1. blank \in SUBSET Nat
        BY DEF blank
      <3>2. QED
        BY <1>1, <3>1, LeastOf
    <2>2. HeadLines(buf) \in blank /\ \A j \in blank : HeadLines(buf) <= j
      BY <1>1, <2>1 DEF HeadLines
    <2>3. QED
      BY <2>2
  <1>2. CASE blank = {}
    <2>1. \A i \in 1 .. Len(buf) : buf[i] # <<"end">>
      BY <1>2
    <2>2. HeadLines(buf) = IF buf # <<>> /\ Last(buf) = <<"part">> THEN Len(buf) - 1 ELSE Len(buf)
      BY <1>2 DEF HeadLines
    <2>3. Len(buf) \in Nat /\ (buf # <<>> => Len(buf) > 0)
      BY EmptySeq, LenProperties
    <2>4. HeadLines(buf) \in 0 .. Len(buf)
      BY <2>2, <2>3
    <2>5. QED
      BY <2>1, <2>3, <2>4
  <1>3. QED
    BY <1>1, <1>2

(* The pieces of a request, and some that are at a place of it.            *)
Shaped(p) ==
    /\ p \in Seq(ToSet(p))
    /\ \A i \in 1 .. Len(p) : p[i][1] = "first" =>
            /\ p[i] = <<"first", p[i][2], p[i][3], p[i][4]>>
            /\ p[i][2] \in {"GET", "POST"} /\ p[i][3] \in {"1.0", "1.1"}
    /\ \A i \in 1 .. Len(p) : p[i][1] = "length" => p[i][2] \in Nat
    /\ \A i, j \in 1 .. Len(p) :
            p[i][1] = p[j][1] /\ p[i][1] \in {"first", "length"} => i = j

IsAt(p, m, buf, n) == m \in Nat /\ n \in Nat /\ m + n <= Len(p)
                        /\ \A i \in 1 .. n : buf[i] = p[m + i]

LEMMA RequestShape ==
    ASSUME NEW r, IsRequest(r)
    PROVE  Shaped(r.pieces)
  BY DEF IsRequest, Shaped

(* What is left of d when n of it were taken.                              *)
LEMMA RestIs ==
    ASSUME NEW S, NEW d \in Seq(S), NEW n \in 0 .. Len(d)
    PROVE  /\ SubSeq(d, n + 1, Len(d)) \in Seq(S)
           /\ Len(SubSeq(d, n + 1, Len(d))) = Len(d) - n
           /\ \A i \in 1 .. Len(d) - n : SubSeq(d, n + 1, Len(d))[i] = d[n + i]
  <1> DEFINE rest == SubSeq(d, n + 1, Len(d))
  <1>1. Len(d) \in Nat /\ n \in Nat /\ n <= Len(d) /\ n + 1 \in Int /\ Len(d) \in Int
    BY LenProperties
  <1>2. \A i \in n + 1 .. Len(d) : d[i] \in S
    BY <1>1, ElementOfSeq
  <1>3. /\ rest \in Seq(S)
        /\ Len(rest) = IF n + 1 <= Len(d) THEN Len(d) - (n + 1) + 1 ELSE 0
        /\ \A i \in 1 .. Len(d) - (n + 1) + 1 : rest[i] = d[(n + 1) + i - 1]
    BY <1>1, <1>2, SubSeqProperties
  <1> HIDE DEF rest
  <1>4. Len(rest) = Len(d) - n
    BY <1>1, <1>3
  <1>5. ASSUME NEW i \in 1 .. Len(d) - n PROVE rest[i] = d[n + i]
    <2>1. i \in 1 .. Len(d) - (n + 1) + 1 /\ (n + 1) + i - 1 = n + i
      BY <1>1
    <2>2. QED
      BY <1>3, <2>1
  <1>6. QED
    BY <1>3, <1>4, <1>5 DEF rest

(* What a line among some pieces is, by its place in the request.          *)
LEMMA LinesAre ==
    ASSUME NEW p, Shaped(p), NEW m, NEW buf, NEW n, IsAt(p, m, buf, n)
    PROVE  /\ \A x : x \in Lines(buf, n) <=>
                x # <<"part">> /\ \E i \in m + 1 .. m + n : x = p[i]
           /\ \A kind \in {"first", "length"} :
                /\ Has(Lines(buf, n), kind) <=> \E i \in m + 1 .. m + n : p[i][1] = kind
                /\ \A i \in m + 1 .. m + n :
                        p[i][1] = kind => Named(Lines(buf, n), kind) = p[i]
  <1>0. m \in Nat /\ n \in Nat /\ Len(p) \in Nat /\ m + n <= Len(p)
    BY LenProperties DEF Shaped, IsAt
  <1>1. ASSUME NEW i \in m + 1 .. m + n PROVE i - m \in 1 .. n /\ buf[i - m] = p[i]
    BY <1>0, <1>1 DEF IsAt
  <1>2. ASSUME NEW x
        PROVE  x \in Lines(buf, n) <=> x # <<"part">> /\ \E i \in m + 1 .. m + n : x = p[i]
    <2>1. ASSUME x \in Lines(buf, n)
          PROVE  x # <<"part">> /\ \E i \in m + 1 .. m + n : x = p[i]
      <3>1. PICK i \in 1 .. n : x = buf[i]
        BY <2>1 DEF Lines
      <3>2. m + i \in m + 1 .. m + n /\ buf[i] = p[m + i]
        BY <1>0 DEF IsAt
      <3>3. QED
        BY <2>1, <3>1, <3>2 DEF Lines
    <2>2. ASSUME x # <<"part">>, NEW i \in m + 1 .. m + n, x = p[i]
          PROVE  x \in Lines(buf, n)
      BY <1>1, <2>2 DEF Lines
    <2>3. QED
      BY <2>1, <2>2
  <1>3. ASSUME NEW kind \in {"first", "length"}
        PROVE  /\ Has(Lines(buf, n), kind) <=> \E i \in m + 1 .. m + n : p[i][1] = kind
               /\ \A i \in m + 1 .. m + n :
                        p[i][1] = kind => Named(Lines(buf, n), kind) = p[i]
    <2>1. ASSUME NEW i \in m + 1 .. m + n, p[i][1] = kind
          PROVE  p[i] \in Lines(buf, n)
      BY <1>2, <2>1
    <2>2. Has(Lines(buf, n), kind) <=> \E i \in m + 1 .. m + n : p[i][1] = kind
      BY <1>2, <2>1 DEF Has
    <2>3. ASSUME NEW i \in m + 1 .. m + n, p[i][1] = kind,
                 NEW x \in Lines(buf, n), x[1] = kind
          PROVE  x = p[i]
      <3>1. PICK j \in m + 1 .. m + n : x = p[j]
        BY <1>2
      <3>2. i \in 1 .. Len(p) /\ j \in 1 .. Len(p)
        BY <1>0
      <3>3. QED
        BY <2>3, <3>1, <3>2 DEF Shaped
    <2>4. QED
      BY <2>1, <2>2, <2>3 DEF Named
  <1>4. QED
    BY <1>2, <1>3

(* What is to be heard after m pieces of p: a, then b, then d.             *)
Follow(p, m, a, b, d) ==
    /\ Len(a) + Len(b) + Len(d) = Len(p) - m
    /\ \A i \in 1 .. Len(a) : a[i] = p[m + i]
    /\ \A i \in 1 .. Len(b) : b[i] = p[m + Len(a) + i]
    /\ \A i \in 1 .. Len(d) : d[i] = p[m + Len(a) + Len(b) + i]

(* Reading more lines of the head: k1 has heard them as well, and the rest *)
(* is as it was.                                                           *)
LEMMA ParseHears ==
    ASSUME NEW p, Shaped(p), NEW S, S = ToSet(p),
           NEW k \in ClientType(S), NEW b \in Seq(S), NEW d \in Seq(S),
           NEW m, Heard(k, p, m), Follow(p, m, k.rbuf, b, d), ~Parse(k).invalid
    PROVE  /\ Parse(k) \in ClientType(S)
           /\ \E n \in Nat : Heard(Parse(k), p, n) /\ Follow(p, n, Parse(k).rbuf, b, d)
           /\ \A f \in {"wbuf", "buf", "bioChunked", "ws", "done", "route"} : Parse(k)[f] = k[f]
  <1> DEFINE n == IF k.reqdone THEN 0 ELSE HeadLines(k.rbuf)
             L == Lines(k.rbuf, n)
             k1 == Parse(k)
             rest == SubSeq(k.rbuf, n + 1, Len(k.rbuf))
  <1>0. /\ k.rbuf \in Seq(S) /\ p \in Seq(S) /\ m \in Nat /\ m <= Len(p)
        /\ Len(p) \in Nat /\ Len(k.rbuf) \in Nat /\ Len(b) \in Nat /\ Len(d) \in Nat
    BY LenProperties DEF ClientType, Heard, Shaped
  <1>1. /\ n \in 0 .. Len(k.rbuf)
        /\ \A i \in 1 .. n : k.rbuf[i] = <<"end">> => i = n
    <2>1. CASE k.reqdone
      BY <1>0, <2>1
    <2>2. CASE ~k.reqdone
      <3>1. n = HeadLines(k.rbuf)
        BY <2>2
      <3> HIDE DEF n
      <3>2. QED
        BY <1>0, <3>1, HeadLinesIs
    <2>3. QED
      BY <2>1, <2>2
  <1>2. IsAt(p, m, k.rbuf, n)
    BY <1>0, <1>1 DEF IsAt, Follow
  <1>3. /\ \A x : x \in L <=> x # <<"part">> /\ \E i \in m + 1 .. m + n : x = p[i]
        /\ \A kind \in {"first", "length"} :
                /\ Has(L, kind) <=> \E i \in m + 1 .. m + n : p[i][1] = kind
                /\ \A i \in m + 1 .. m + n : p[i][1] = kind => Named(L, kind) = p[i]
    <2> HIDE DEF n
    <2>1. QED
      BY <1>2, LinesAre
  <1>4. /\ k1.rbuf = rest /\ k1.invalid = Invalid(k, n)
        /\ k1.method = IF Has(L, "first") THEN Named(L, "first")[2] ELSE k.method
        /\ k1.version = IF Has(L, "first") THEN Named(L, "first")[3] ELSE k.version
        /\ k1.path = IF Has(L, "first") THEN Named(L, "first")[4] ELSE k.path
        /\ k1.chunked = IF Has(L, "first") THEN Named(L, "first")[3] = "1.1" ELSE k.chunked
        /\ k1.handshake = (k.handshake \/ <<"handshake">> \in L)
        /\ k1.clen = IF Has(L, "length") THEN Named(L, "length")[2] ELSE k.clen
        /\ k1.reqdone = (k.reqdone \/ <<"end">> \in L)
        /\ \A f \in {"wbuf", "buf", "bioChunked", "ws", "done", "route"} : k1[f] = k[f]
    BY DEF ClientType, Parse, Heed
  <1>5. /\ rest \in Seq(S) /\ Len(rest) = Len(k.rbuf) - n
        /\ \A i \in 1 .. Len(k.rbuf) - n : rest[i] = k.rbuf[n + i]
    <2> HIDE DEF n
    <2>1. QED
      BY <1>0, <1>1, RestIs
  <1>6. Follow(p, m + n, rest, b, d)
    <2> DEFINE a == k.rbuf
    <2>1. ASSUME NEW i \in 1 .. Len(rest) PROVE rest[i] = p[m + n + i]
      <3>1. n + i \in 1 .. Len(a) /\ i \in 1 .. Len(a) - n /\ m + (n + i) = m + n + i
        <4>1. n \in 0 .. Len(a) /\ Len(a) \in Nat /\ m \in Nat /\ i \in 1 .. Len(a) - n
          BY <1>0, <1>1, <1>5
        <4> HIDE DEF n, rest, a
        <4>2. QED
          BY ONLY <4>1
      <3> HIDE DEF n, rest
      <3>2. rest[i] = a[n + i] /\ a[n + i] = p[m + (n + i)]
        BY <1>5, <3>1 DEF Follow
      <3>3. QED
        BY <3>1, <3>2
    <2> HIDE DEF n, rest
    <2>a. /\ n \in Nat /\ Len(a) \in Nat /\ Len(rest) = Len(a) - n
          /\ Len(a) + Len(b) + Len(d) = Len(p) - m
      BY <1>0, <1>1, <1>5 DEF Follow
    <2> HIDE DEF a
    <2>2. Len(rest) + Len(b) + Len(d) = Len(p) - (m + n)
      BY <1>0, <2>a
    <2>3. m + n + Len(rest) = m + Len(a)
      BY <1>0, <2>a
    <2>4. /\ \A i \in 1 .. Len(b) : b[i] = p[m + n + Len(rest) + i]
          /\ \A i \in 1 .. Len(d) : d[i] = p[m + n + Len(rest) + Len(b) + i]
      BY <2>3 DEF Follow, a
    <2>5. QED
      BY <2>1, <2>2, <2>4 DEF Follow
  <1>7. k1 \in ClientType(S)
    <2>1. ASSUME NEW i \in m + 1 .. m + n PROVE i \in 1 .. Len(p)
      BY <1>0, <1>1, <1>2 DEF IsAt
    <2>2. ASSUME Has(L, "first")
          PROVE  /\ Named(L, "first")[2] \in {"GET", "POST"}
                 /\ Named(L, "first")[3] \in {"1.0", "1.1"}
                 /\ Named(L, "first")[4] \in Path(S)
      <3>1. PICK i \in m + 1 .. m + n : p[i][1] = "first" /\ Named(L, "first") = p[i]
        BY <1>3, <2>2
      <3>2. i \in 1 .. Len(p)
        BY <2>1
      <3>3. p[i][2] \in {"GET", "POST"} /\ p[i][3] \in {"1.0", "1.1"}
        BY <3>1, <3>2 DEF Shaped
      <3>4. p[i] \in S
        BY <1>0, <3>2, ElementOfSeq
      <3>5. p[i][4] \in Path(S)
        BY <3>4 DEF Path
      <3> HIDE DEF L, n
      <3>6. QED
        BY <3>1, <3>3, <3>5
    <2>3. Has(L, "length") => Named(L, "length")[2] \in Nat
      BY <1>3, <2>1 DEF Shaped
    <2>4. Heed(k, L) \in ClientType(S)
      <3> DEFINE method == IF Has(L, "first") THEN Named(L, "first")[2] ELSE k.method
                 version == IF Has(L, "first") THEN Named(L, "first")[3] ELSE k.version
                 path == IF Has(L, "first") THEN Named(L, "first")[4] ELSE k.path
                 chunked == IF Has(L, "first") THEN Named(L, "first")[3] = "1.1" ELSE k.chunked
                 shaken == k.handshake \/ <<"handshake">> \in L
                 clen == IF Has(L, "length") THEN Named(L, "length")[2] ELSE k.clen
                 over == k.reqdone \/ <<"end">> \in L
      <3>1. /\ method \in {"unknown", "GET", "POST"} /\ version \in {"1.0", "1.1"}
            /\ path \in Path(S) /\ clen \in Nat
        BY <2>2, <2>3 DEF ClientType
      <3>2. chunked \in BOOLEAN /\ shaken \in BOOLEAN /\ over \in BOOLEAN
        BY DEF ClientType
      <3>3. Heed(k, L) = [k EXCEPT !.method = method, !.version = version, !.path = path,
                                   !.chunked = chunked, !.handshake = shaken,
                                   !.clen = clen, !.reqdone = over]
        BY DEF Heed
      <3> HIDE DEF method, version, path, chunked, shaken, clen, over, L
      <3>4. k \in ClientType(S)
        OBVIOUS
      <3>5. Heed(k, L) =
              [rbuf |-> k.rbuf, wbuf |-> k.wbuf, buf |-> k.buf, method |-> method,
               version |-> version, path |-> path, handshake |-> shaken, clen |-> clen,
               reqdone |-> over, invalid |-> k.invalid, chunked |-> chunked,
               bioChunked |-> k.bioChunked, ws |-> k.ws, done |-> k.done, route |-> k.route]
        BY ONLY <3>3, <3>4 DEF ClientType
      <3>6. /\ k.rbuf \in Seq(S) /\ k.wbuf \in Seq(Item) /\ k.buf \in Seq(Token)
            /\ k.invalid \in BOOLEAN /\ k.bioChunked \in BOOLEAN /\ k.ws \in BOOLEAN
            /\ k.done \in BOOLEAN /\ k.route \in {"none", "page", "ws"}
        BY ONLY <3>4 DEF ClientType
      <3>7. QED
        BY ONLY <3>1, <3>2, <3>5, <3>6 DEF ClientType
    <2>5. Invalid(k, n) \in BOOLEAN
      BY DEF Invalid
    <2>6. k1 = [Heed(k, L) EXCEPT !.rbuf = rest, !.invalid = Invalid(k, n)]
      BY DEF Parse
    <2> HIDE DEF L, k1, n, rest
    <2>7. QED
      BY <1>5, <2>4, <2>5, <2>6 DEF ClientType
  <1>8. \A i \in 1 .. m + n : i \in 1 .. m \/ i \in m + 1 .. m + n
    BY <1>0, <1>1
  <1>9. Heard(k1, p, m + n)
    <2> DEFINE q == m + n
    <2>0. m + n \in 0 .. Len(p) /\ ~k1.invalid
      BY <1>0, <1>1, <1>2 DEF IsAt
    <2>1. ASSUME NEW i \in 1 .. m + n, p[i] = <<"end">> PROVE i = m + n
      <3>1. CASE i \in 1 .. m
        <4>1. k.reqdone /\ i = m
          BY <2>1, <3>1 DEF Heard
        <4>2. QED
          BY <1>0, <4>1
      <3>2. CASE i \in m + 1 .. m + n
        <4>1. i - m \in 1 .. n /\ i = m + (i - m)
          BY <1>0, <1>1, <3>2
        <4>2. k.rbuf[i - m] = <<"end">>
          BY <1>2, <2>1, <4>1 DEF IsAt
        <4> HIDE DEF n
        <4>3. i - m = n
          BY <1>1, <4>1, <4>2
        <4>4. QED
          BY <1>0, <1>1, <4>3
      <3>3. QED
        BY <1>8, <3>1, <3>2
    <2>a. \A i \in 1 .. m + n : i \in 1 .. m \/ i \in m + 1 .. m + n
      BY <1>8
    <2>b. (\A i \in 1 .. m : i \in 1 .. m + n) /\ \A i \in m + 1 .. m + n : i \in 1 .. m + n
      BY <1>0, <1>1
    <2>2. k1.reqdone <=> \E i \in 1 .. m + n : p[i] = <<"end">>
      <3>1. k1.reqdone <=> k.reqdone \/ \E i \in m + 1 .. m + n : p[i] = <<"end">>
        <4>1. <<"end">> \in L <=> \E i \in m + 1 .. m + n : p[i] = <<"end">>
          <5> HIDE DEF L, n
          <5>1. QED
            BY <1>3
        <4> HIDE DEF L, n, k1, rest
        <4>2. QED
          BY <1>4, <4>1
      <3> HIDE DEF n, k1
      <3>2. QED
        BY <2>a, <2>b, <3>1 DEF Heard
    <2>3. Proper(p, m + n)
      <3>1. ASSUME NEW i \in m + 1 .. m + n
            PROVE  p[i][1] # "bad" /\ (Opens(p, i) => p[i][1] = "first")
        <4>1. i - m \in 1 .. n /\ i = m + (i - m)
          BY <1>0, <1>1
        <4> HIDE DEF n
        <4>2. k.rbuf[i - m] = p[i]
          BY <1>2, <4>1 DEF IsAt
        <4>3. ~Invalid(k, n)
          BY <1>4
        <4>4. p[i][1] # "bad"
          BY <4>1, <4>2, <4>3 DEF Invalid
        <4>5. ASSUME Opens(p, i) PROVE p[i][1] = "first"
          <5>1. \A j \in 1 .. m : p[j] = <<"part">>
            BY <1>0, <4>5 DEF Opens
          <5>2. k.method = "unknown"
            BY <5>1 DEF Heard
          <5>3. ASSUME NEW j \in 1 .. (i - m) - 1 PROVE k.rbuf[j] = <<"part">>
            <6>1. j \in 1 .. n /\ m + j \in 1 .. i - 1
              <7>1. n \in Int /\ i \in Int /\ m \in Nat
                BY <1>0, <1>1
              <7>2. QED
                BY <4>1, <7>1
            <6>2. QED
              BY <1>2, <4>5, <6>1 DEF IsAt, Opens
          <5>4. Opens(k.rbuf, i - m)
            BY <4>2, <4>5, <5>3 DEF Opens
          <5>5. QED
            BY <4>1, <4>2, <4>3, <5>2, <5>4 DEF Invalid
        <4>6. QED
          BY <4>4, <4>5
      <3>2. Proper(p, m)
        BY DEF Heard
      <3> HIDE DEF n
      <3>3. QED
        BY <2>a, <3>1, <3>2 DEF Proper
    <2>4. ASSUME NEW i \in 1 .. m + n, p[i][1] = "first"
          PROVE  /\ k1.method = p[i][2] /\ k1.version = p[i][3]
                 /\ k1.path = p[i][4] /\ k1.chunked = (p[i][3] = "1.1")
      <3>1. CASE i \in 1 .. m
        <4>1. ASSUME NEW j \in m + 1 .. m + n, p[j][1] = "first" PROVE FALSE
          <5>1. j \in 1 .. Len(p) /\ i \in 1 .. Len(p) /\ i # j
            BY <1>0, <1>1, <2>0, <3>1
          <5>2. QED
            BY <2>4, <4>1, <5>1 DEF Shaped
        <4>2. ~Has(L, "first")
          BY <1>3, <4>1
        <4>3. /\ k.method = p[i][2] /\ k.version = p[i][3]
              /\ k.path = p[i][4] /\ k.chunked = (p[i][3] = "1.1")
          BY <2>4, <3>1 DEF Heard
        <4>4. QED
          BY <1>4, <4>2, <4>3
      <3>2. CASE i \in m + 1 .. m + n
        <4>1. Has(L, "first") /\ Named(L, "first") = p[i]
          BY <1>3, <2>4, <3>2
        <4>2. QED
          BY <1>4, <4>1
      <3>3. QED
        BY <1>8, <3>1, <3>2
    <2>5. ASSUME \A i \in 1 .. m + n : p[i][1] # "first" PROVE k1.method = "unknown"
      <3>1. ~Has(L, "first")
        BY <1>3, <2>5, <2>b
      <3>2. k.method = "unknown"
        BY <2>5, <2>b DEF Heard
      <3>3. QED
        BY <1>4, <3>1, <3>2
    <2>6. k1.handshake <=> \E i \in 1 .. m + n : p[i] = <<"handshake">>
      <3>1. k1.handshake <=> k.handshake \/ \E i \in m + 1 .. m + n : p[i] = <<"handshake">>
        <4>1. <<"handshake">> \in L <=> \E i \in m + 1 .. m + n : p[i] = <<"handshake">>
          <5> HIDE DEF L, n
          <5>1. QED
            BY <1>3
        <4> HIDE DEF L, n, k1, rest
        <4>2. QED
          BY <1>4, <4>1
      <3> HIDE DEF n, k1
      <3>2. QED
        BY <2>a, <2>b, <3>1 DEF Heard
    <2>7. ASSUME NEW i \in 1 .. m + n, p[i][1] = "length" PROVE k1.clen = p[i][2]
      <3>1. CASE i \in 1 .. m
        <4>1. ASSUME NEW j \in m + 1 .. m + n, p[j][1] = "length" PROVE FALSE
          <5>1. j \in 1 .. Len(p) /\ i \in 1 .. Len(p) /\ i # j
            BY <1>0, <1>1, <2>0, <3>1
          <5>2. QED
            BY <2>7, <4>1, <5>1 DEF Shaped
        <4>2. ~Has(L, "length")
          BY <1>3, <4>1
        <4>3. k.clen = p[i][2]
          BY <2>7, <3>1 DEF Heard
        <4>4. QED
          BY <1>4, <4>2, <4>3
      <3>2. CASE i \in m + 1 .. m + n
        <4>1. Has(L, "length") /\ Named(L, "length") = p[i]
          BY <1>3, <2>7, <3>2
        <4>2. QED
          BY <1>4, <4>1
      <3>3. QED
        BY <1>8, <3>1, <3>2
    <2>8. ASSUME \A i \in 1 .. m + n : p[i][1] # "length" PROVE k1.clen = 0
      <3>1. ~Has(L, "length")
        BY <1>3, <2>8, <2>b
      <3>2. k.clen = 0
        BY <2>8, <2>b DEF Heard
      <3>3. QED
        BY <1>4, <3>1, <3>2
    <2>9. QED
      <3> HIDE DEF k1, n
      <3>1. QED
        BY <2>0, <2>1, <2>2, <2>3, <2>4, <2>5, <2>6, <2>7, <2>8 DEF Heard
  <1>10. QED
    BY <1>0, <1>1, <1>4, <1>6, <1>7, <1>9

(* What a complete request of k is to be answered.                         *)
Owes(r, k) == Due(r, k.method, k.path, k.handshake, <<"form">> \in ToSet(k.rbuf))

(* When a request is complete its route is the one that is due.            *)
LEMMA DueIsKnown ==
    ASSUME NEW r, IsRequest(r), NEW p, p = r.pieces, NEW S, S = ToSet(p),
           NEW k \in ClientType(S), NEW b \in Seq(S), NEW d \in Seq(S),
           NEW m, Heard(k, p, m), Follow(p, m, k.rbuf, b, d), k.reqdone, ~BodyMissing(k)
    PROVE  Owes(r, k)
  <1> DEFINE buf == k.rbuf
             body == m + 1 .. Len(p)
             form == \E j \in body : p[j] = <<"form">>
             shaken == \E j \in 1 .. m : p[j] = <<"handshake">>
  <1>0. /\ p \in Seq(S) /\ m \in Nat /\ m <= Len(p) /\ Len(p) \in Nat
        /\ buf \in Seq(S) /\ Len(buf) \in Nat /\ Len(b) \in Nat /\ Len(d) \in Nat
    BY RequestShape, LenProperties DEF ClientType, Heard, Shaped
  <1>1. m \in 1 .. Len(p) /\ HeadEnds(p, m) /\ Proper(p, m)
    <2>1. PICK i \in 1 .. m : p[i] = <<"end">>
      BY DEF Heard
    <2>2. i = m
      BY <2>1 DEF Heard
    <2>3. ASSUME NEW j \in 1 .. m - 1 PROVE p[j] # <<"end">>
      BY <1>0 DEF Heard
    <2>4. QED
      BY <1>0, <2>1, <2>2, <2>3 DEF Heard, HeadEnds
  <1>2. PICK i \in 1 .. m : i < m /\ p[i][1] = "first"
    <2> DEFINE T == {i \in 1 .. m : p[i] # <<"part">>}
    <2>1. m \in T
      BY <1>1 DEF HeadEnds
    <2>2. T \in SUBSET Nat /\ T # {}
      BY <2>1
    <2>3. PICK i \in T : \A j \in T : i <= j
      <3> HIDE DEF T
      <3>1. QED
        BY <2>2, LeastOf
    <2>4. \A j \in 1 .. i - 1 : p[j] = <<"part">>
      BY <1>0, <2>3
    <2>5. Opens(p, i)
      BY <2>3, <2>4 DEF Opens
    <2>6. p[i][1] = "first"
      BY <1>1, <2>3, <2>5 DEF Proper
    <2>7. i # m
      BY <1>1, <2>6 DEF HeadEnds
    <2>8. QED
      BY <1>0, <2>3, <2>6, <2>7
  <1>3. k.method = p[i][2] /\ k.path = p[i][4] /\ k.handshake = shaken
    BY <1>2 DEF Heard, ClientType
  <1>4. i \in 1 .. Len(p) /\ Due(r, p[i][2], p[i][4], shaken, form)
    <2>1. i \in 1 .. Len(p)
      BY <1>0
    <2>2. QED
      BY <1>1, <1>2, <2>1 DEF IsRequest
  <1>5. ASSUME <<"form">> \in ToSet(buf) PROVE form
    <2>1. PICK j \in 1 .. Len(buf) : buf[j] = <<"form">>
      BY <1>0, <1>5, LenProperties DEF ToSet
    <2>2. m + j \in body /\ p[m + j] = <<"form">>
      BY <1>0, <2>1 DEF Follow
    <2>3. QED
      BY <2>2
  <1>6. ASSUME k.method = "POST", form PROVE <<"form">> \in ToSet(buf)
    <2>1. PICK l \in 1 .. m, j \in body :
                p[l][1] = "length" /\ p[j] = <<"form">> /\ j <= m + p[l][2]
      BY <1>1, <1>2, <1>3, <1>4, <1>6 DEF IsRequest
    <2>2. p[l][2] \in Nat /\ k.clen = p[l][2]
      <3>1. l \in 1 .. Len(p)
        BY <1>0
      <3>2. QED
        BY <2>1, <3>1, RequestShape DEF Heard, Shaped
    <2>3. Len(buf) >= k.clen
      BY <1>0, <1>6, <2>2 DEF BodyMissing
    <2>7. m \in Int /\ j \in Int /\ m + 1 <= j
      BY <1>0
    <2>8. j <= m + Len(buf) /\ Len(buf) \in Nat
      BY <1>0, <2>1, <2>2, <2>3, <2>7
    <2>4. j - m \in 1 .. Len(buf) /\ m + (j - m) = j
      BY ONLY <2>7, <2>8
    <2>5. buf[j - m] = <<"form">>
      BY <2>1, <2>4 DEF Follow
    <2>6. QED
      BY <1>0, <2>4, <2>5, LenProperties DEF ToSet
  <1>7. (<<"form">> \in ToSet(buf)) \in BOOLEAN /\ form \in BOOLEAN /\ p[i][2] \in {"GET", "POST"}
    BY <1>2, <1>4, RequestShape DEF Shaped
  <1>8. CASE k.method = "POST"
    <2> HIDE DEF form, shaken, buf
    <2>1. form = (<<"form">> \in ToSet(buf))
      BY <1>5, <1>6, <1>7, <1>8
    <2>2. QED
      BY <1>3, <1>4, <2>1 DEF buf, Owes
  <1>9. CASE k.method = "GET"
    <2> HIDE DEF form, shaken
    <2>1. QED
      BY <1>3, <1>4, <1>9 DEF Due, Owes
  <1>10. QED
    BY <1>3, <1>7, <1>8, <1>9

-----------------------------------------------------------------------------
(* What is sent.                                                           *)

(* s is a head and then text, up to cut[i] with the i-th item.             *)
Cuts(s, text, cut) ==
    /\ cut \in [1 .. Len(s) -> 0 .. Len(text)]
    /\ 1 \in 1 .. Len(s) => cut[1] = 0
    /\ \A i \in 2 .. Len(s) : /\ cut[i - 1] <= cut[i]
                              /\ s[i][2] = SubSeq(text, cut[i - 1] + 1, cut[i])

(* A set of numbers that has 0 and with each number the next one has them  *)
(* all.                                                                    *)
LEMMA Induct ==
    ASSUME NEW S, 0 \in S, \A m \in Nat : m \in S => m + 1 \in S
    PROVE  Nat \subseteq S
  <1> DEFINE T == Nat \ S
  <1>1. ASSUME T # {} PROVE FALSE
    <2>1. PICK x \in T : \A y \in T : x <= y
      <3> HIDE DEF T
      <3>1. T \in SUBSET Nat
        BY DEF T
      <3>2. QED
        BY <1>1, <3>1, LeastOf
    <2>2. x - 1 \in Nat
      OBVIOUS
    <2>3. x - 1 \in S
      BY <2>1, <2>2
    <2>4. QED
      BY <2>2, <2>3
  <1>2. QED
    BY <1>1

(* What such items say together.                                           *)
LEMMA PayloadIs ==
    ASSUME NEW s, NEW S, NEW text \in Seq(S), NEW cut, Cuts(s, text, cut), Len(s) \in Nat \ {0}
    PROVE  Payload(s) = SubSeq(text, 1, cut[Len(s)])
  <1> DEFINE I == 1 .. Len(s)
             F(f) == [i \in I |-> IF i = 1 THEN <<>> ELSE f[i - 1] \o s[i][2]]
             g == [i \in I |-> SubSeq(text, 1, cut[i])]
             f == CHOOSE f : f = F(f)
  <1>1. ASSUME NEW i \in I, i # 1
        PROVE  SubSeq(text, 1, cut[i - 1]) \o s[i][2] = SubSeq(text, 1, cut[i])
    <2>1. /\ i \in 2 .. Len(s) /\ i - 1 \in 1 .. Len(s)
      BY <1>1
    <2>2. /\ cut[i] \in 0 .. Len(text) /\ cut[i - 1] \in 0 .. Len(text) /\ cut[i - 1] <= cut[i]
          /\ s[i][2] = SubSeq(text, cut[i - 1] + 1, cut[i])
      BY <2>1 DEF Cuts
    <2>3. ASSUME NEW x, x = cut[i - 1], NEW y, y = cut[i]
          PROVE  SubSeq(text, 1, x) \o SubSeq(text, x + 1, y) = SubSeq(text, 1, y)
      <3>1. /\ 1 \in 1 .. Len(text) + 1 /\ x \in 1 - 1 .. Len(text) /\ y \in x .. Len(text)
        BY <2>2, <2>3, LenProperties
      <3>2. QED
        BY <3>1, ConcatAdjacentSubSeq
    <2>4. QED
      BY <2>2, <2>3
  <1>2. SubSeq(text, 1, cut[1]) = <<>>
    BY SubSeqEmpty DEF Cuts
  <1>3. g = F(g)
    <2>1. ASSUME NEW i \in I PROVE g[i] = F(g)[i]
      <3>1. i # 1 => i - 1 \in I
        OBVIOUS
      <3>2. CASE i = 1
        BY <1>2, <3>2
      <3>3. CASE i # 1
        BY <1>1, <3>1, <3>3
      <3>4. QED
        BY <3>2, <3>3
    <2>2. QED
      BY <2>1
  <1>4. f = F(f)
    <2> HIDE DEF g, F
    <2>1. QED
      BY <1>3
  <1>5. Payload(s) = f[Len(s)]
    BY DEF Payload
  <1> HIDE DEF f
  <1> DEFINE T == {n \in Nat : n + 1 \in I => f[n + 1] = SubSeq(text, 1, cut[n + 1])}
  <1>6. 0 \in T
    <2>1. 1 \in I => f[1] = <<>>
      BY <1>4
    <2>2. 0 + 1 = 1
      OBVIOUS
    <2>3. QED
      BY <1>2, <2>1, <2>2
  <1>7. ASSUME NEW n \in Nat, n \in T PROVE n + 1 \in T
    <2>1. SUFFICES ASSUME n + 1 + 1 \in I PROVE f[n + 1 + 1] = SubSeq(text, 1, cut[n + 1 + 1])
      OBVIOUS
    <2>2. n + 1 \in I /\ n + 1 + 1 # 1 /\ (n + 1 + 1) - 1 = n + 1
      BY <2>1
    <2>3. f[n + 1] = SubSeq(text, 1, cut[n + 1])
      BY <1>7, <2>2
    <2>4. f[n + 1 + 1] = f[(n + 1 + 1) - 1] \o s[n + 1 + 1][2]
      BY <1>4, <2>1, <2>2
    <2>5. QED
      BY <1>1, <2>1, <2>2, <2>3, <2>4
  <1>8. Nat \subseteq T
    <2> HIDE DEF T
    <2>1. QED
      BY <1>6, <1>7, Induct
  <1>9. (Len(s) - 1) + 1 \in I => f[(Len(s) - 1) + 1] = SubSeq(text, 1, cut[(Len(s) - 1) + 1])
    <2>1. Len(s) - 1 \in Nat
      OBVIOUS
    <2>2. Len(s) - 1 \in T
      <3> HIDE DEF T
      <3>1. QED
        BY <1>8, <2>1
    <2>3. QED
      BY <2>2
  <1>10. (Len(s) - 1) + 1 = Len(s) /\ Len(s) \in I
    OBVIOUS
  <1>11. QED
    BY <1>5, <1>9, <1>10

(* s is the answer to r as far as it goes, and the whole of it.            *)
IsPart(s, r) ==
    /\ s \in Seq(Item) /\ r.text \in Seq(Token)
    /\ Len(s) > 0 => s[1] = <<"head", r.code, s[1][3]>>
    /\ \A i \in 2 .. Len(s) : /\ s[i][1] = IF s[1][3] THEN "chunk" ELSE "data"
                              /\ s[i][2] = <<>> => i = Len(s)
    /\ \E cut : Cuts(s, r.text, cut)

IsAnswer(s, r) ==
    /\ IsPart(s, r) /\ Len(s) > 0
    /\ s[1][3] => s[Len(s)] = LastChunk
    /\ \E cut : Cuts(s, r.text, cut) /\ cut[Len(s)] = Len(r.text)

(* s is the head of a websocket and frames, with the events since the o-th. *)
IsTalk(s, o) ==
    /\ s \in Seq(Item)
    /\ Len(s) > 0 => s[1] = <<"head", 101, FALSE>>
    /\ \A i \in 2 .. Len(s) : s[i][1] = "data" /\ Len(s[i][2]) = 1
    /\ \A i \in ToldAt(s) : s[i][2][1][2] = o + Cardinality({j \in ToldAt(s) : j <= i})

(* What has been written of either is one as well.                         *)
LEMMA Beginning ==
    ASSUME NEW a \in Seq(Item), NEW b \in Seq(Item)
    PROVE  /\ a \o b \in Seq(Item) /\ Len(a \o b) = Len(a) + Len(b)
           /\ Len(a) \in Nat /\ Len(b) \in Nat
           /\ \A i \in 1 .. Len(a) : (a \o b)[i] = a[i]
  <1>1. Len(a) \in Nat /\ Len(b) \in Nat
    BY LenProperties
  <1>2. a \o b \in Seq(Item) /\ Len(a \o b) = Len(a) + Len(b)
    BY ConcatProperties
  <1>3. \A i \in 1 .. Len(a) + Len(b) :
            (a \o b)[i] = IF i <= Len(a) THEN a[i] ELSE b[i - Len(a)]
    BY ConcatProperties
  <1>4. QED
    BY <1>1, <1>2, <1>3

LEMMA PartBegins ==
    ASSUME NEW r, NEW a \in Seq(Item), NEW b \in Seq(Item), IsPart(a \o b, r)
    PROVE  IsPart(a, r)
  <1> DEFINE s == a \o b
  <1>1. /\ s \in Seq(Item) /\ Len(s) = Len(a) + Len(b) /\ Len(a) \in Nat /\ Len(b) \in Nat
        /\ \A i \in 1 .. Len(a) : s[i] = a[i]
    BY Beginning
  <1> HIDE DEF s
  <1>2. /\ r.text \in Seq(Token)
        /\ Len(s) > 0 => s[1] = <<"head", r.code, s[1][3]>>
        /\ \A i \in 2 .. Len(s) : /\ s[i][1] = IF s[1][3] THEN "chunk" ELSE "data"
                                  /\ s[i][2] = <<>> => i = Len(s)
        /\ \E cut : Cuts(s, r.text, cut)
    BY DEF IsPart, s
  <1>3. Len(a) > 0 => a[1] = <<"head", r.code, a[1][3]>>
    BY <1>1, <1>2
  <1>4. ASSUME NEW i \in 2 .. Len(a)
        PROVE  /\ a[i][1] = IF a[1][3] THEN "chunk" ELSE "data"
               /\ a[i][2] = <<>> => i = Len(a)
    <2>1. /\ i \in 2 .. Len(s) /\ i \in 1 .. Len(a) /\ 1 \in 1 .. Len(a)
          /\ i = Len(s) => i = Len(a)
      BY <1>1
    <2>2. s[i] = a[i] /\ s[1] = a[1]
      BY <1>1, <2>1
    <2>3. QED
      BY <1>2, <2>1, <2>2
  <1>5. \E cut : Cuts(a, r.text, cut)
    <2>1. PICK cut : Cuts(s, r.text, cut)
      BY <1>2
    <2> DEFINE part == [i \in 1 .. Len(a) |-> cut[i]]
    <2>2. \A i \in 1 .. Len(a) : i \in 1 .. Len(s)
      BY <1>1
    <2>3. part \in [1 .. Len(a) -> 0 .. Len(r.text)]
      BY <2>1, <2>2 DEF Cuts
    <2>4. 1 \in 1 .. Len(a) => part[1] = 0
      BY <2>1, <2>2 DEF Cuts
    <2>5. ASSUME NEW i \in 2 .. Len(a)
          PROVE  part[i - 1] <= part[i] /\ a[i][2] = SubSeq(r.text, part[i - 1] + 1, part[i])
      <3>1. i \in 2 .. Len(s) /\ i \in 1 .. Len(a) /\ i - 1 \in 1 .. Len(a)
        BY <1>1
      <3>2. cut[i - 1] <= cut[i] /\ s[i][2] = SubSeq(r.text, cut[i - 1] + 1, cut[i])
        BY <2>1, <3>1 DEF Cuts
      <3>3. part[i] = cut[i] /\ part[i - 1] = cut[i - 1] /\ s[i] = a[i]
        BY <1>1, <3>1
      <3>4. QED
        BY <3>2, <3>3
    <2> HIDE DEF part
    <2>6. Cuts(a, r.text, part)
      BY <2>3, <2>4, <2>5 DEF Cuts
    <2>7. QED
      BY <2>6
  <1>6. QED
    BY <1>2, <1>3, <1>4, <1>5 DEF IsPart

LEMMA TalkBegins ==
    ASSUME NEW o, NEW a \in Seq(Item), NEW b \in Seq(Item), IsTalk(a \o b, o)
    PROVE  IsTalk(a, o)
  <1> DEFINE s == a \o b
  <1>1. /\ s \in Seq(Item) /\ Len(s) = Len(a) + Len(b) /\ Len(a) \in Nat /\ Len(b) \in Nat
        /\ \A i \in 1 .. Len(a) : s[i] = a[i]
    BY Beginning
  <1> HIDE DEF s
  <1>2. /\ Len(s) > 0 => s[1] = <<"head", 101, FALSE>>
        /\ \A i \in 2 .. Len(s) : s[i][1] = "data" /\ Len(s[i][2]) = 1
        /\ \A i \in ToldAt(s) : s[i][2][1][2] = o + Cardinality({j \in ToldAt(s) : j <= i})
    BY DEF IsTalk, s
  <1>3. \A i \in 2 .. Len(a) : i \in 2 .. Len(s) /\ s[i] = a[i]
    BY <1>1
  <1>4. ASSUME NEW i \in ToldAt(a)
        PROVE  a[i][2][1][2] = o + Cardinality({j \in ToldAt(a) : j <= i})
    <2>1. i \in ToldAt(s) /\ i \in 2 .. Len(a) /\ s[i] = a[i]
      BY <1>3 DEF ToldAt
    <2>2. ASSUME NEW j \in ToldAt(s), j <= i PROVE j \in ToldAt(a)
      <3>1. j \in 2 .. Len(a)
        BY <1>1, <2>1, <2>2 DEF ToldAt
      <3>2. QED
        BY <1>3, <3>1 DEF ToldAt
    <2>3. \A j \in ToldAt(a) : j \in ToldAt(s)
      BY <1>3 DEF ToldAt
    <2>4. {j \in ToldAt(a) : j <= i} = {j \in ToldAt(s) : j <= i}
      BY <2>2, <2>3
    <2>5. QED
      BY <1>2, <2>1, <2>4
  <1>5. \A i \in 2 .. Len(a) : a[i][1] = "data" /\ Len(a[i][2]) = 1
    BY <1>2, <1>3
  <1>6. Len(a) > 0 => a[1] = <<"head", 101, FALSE>>
    <2>1. Len(a) > 0 => Len(s) > 0 /\ s[1] = a[1]
      BY <1>1
    <2>2. QED
      BY <1>2, <2>1
  <1>7. QED
    BY <1>4, <1>5, <1>6 DEF IsTalk

(* The items.                                                              *)
LEMMA ItemsAre ==
    /\ \A code \in Nat, b \in BOOLEAN : <<"head", code, b>> \in Item
    /\ \A d \in Seq(Token) : <<"chunk", d>> \in Item /\ <<"data", d>> \in Item
    /\ \A f \in Token : <<f>> \in Seq(Token)
    /\ \A h \in Item : <<h>> \in Seq(Item) /\ Len(<<h>>) = 1 /\ <<h>>[1] = h
  <1>1. \A code \in Nat, b \in BOOLEAN : <<"head", code, b>> \in Item
    BY DEF Item
  <1>2. ASSUME NEW d \in Seq(Token) PROVE <<"chunk", d>> \in Item /\ <<"data", d>> \in Item
    <2>1. "chunk" \in {"chunk", "data"} /\ "data" \in {"chunk", "data"}
      OBVIOUS
    <2>2. QED
      BY <2>1 DEF Item
  <1>3. \A f \in Token : <<f>> \in Seq(Token)
    OBVIOUS
  <1>4. \A h \in Item : <<h>> \in Seq(Item) /\ Len(<<h>>) = 1 /\ <<h>>[1] = h
    OBVIOUS
  <1>5. QED
    BY <1>1, <1>2, <1>3, <1>4

(* A frame more: if it is an event, it is the next one.                    *)
GoesOn(s, o, f, t) ==
    /\ f \in Token /\ t = Append(s, <<"data", <<f>>>>)
    /\ f = <<"pong">> \/ f = <<"event", o + Cardinality(ToldAt(s)) + 1>>

LEMMA TalkGoesOn ==
    ASSUME NEW o \in Nat, NEW s, IsTalk(s, o), Len(s) > 0, NEW f, NEW t, GoesOn(s, o, f, t)
    PROVE  /\ IsTalk(t, o) /\ Len(t) > 0
           /\ Cardinality(ToldAt(s)) \in Nat
           /\ Cardinality(ToldAt(t)) =
                Cardinality(ToldAt(s)) + (IF f[1] = "event" THEN 1 ELSE 0)
  <1> DEFINE n == Len(s) + 1
  <1>a. f \in Token /\ t = Append(s, <<"data", <<f>>>>)
    BY DEF GoesOn
  <1>0. s \in Seq(Item) /\ Len(s) \in Nat /\ <<"data", <<f>>>> \in Item
    BY <1>a, ItemsAre, LenProperties DEF IsTalk
  <1>1. /\ t \in Seq(Item) /\ Len(t) = n /\ t[n] = <<"data", <<f>>>>
        /\ \A i \in 1 .. Len(s) : t[i] = s[i]
    BY <1>0, <1>a, AppendProperties
  <1>2. /\ \A i \in 2 .. Len(s) : i \in 2 .. Len(t) /\ t[i] = s[i]
        /\ \A i \in 2 .. Len(t) : i = n \/ i \in 2 .. Len(s)
        /\ n \in 2 .. Len(t) /\ n \notin 2 .. Len(s)
    BY <1>0, <1>1
  <1> HIDE DEF n
  <1>3. /\ \A i \in ToldAt(s) : i \in ToldAt(t) /\ i \in 2 .. Len(s) /\ t[i] = s[i]
        /\ \A i \in ToldAt(t) : i = n \/ i \in ToldAt(s)
        /\ n \in ToldAt(t) <=> f[1] = "event"
        /\ n \notin ToldAt(s)
    BY <1>1, <1>2 DEF ToldAt
  <1>4. IsFiniteSet(ToldAt(s)) /\ Cardinality(ToldAt(s)) \in Nat
    <2>1. IsFiniteSet(2 .. Len(s))
      BY <1>0, FS_Interval
    <2>2. ToldAt(s) \subseteq 2 .. Len(s)
      BY DEF ToldAt
    <2>3. QED
      BY <2>1, <2>2, FS_Subset, FS_CardinalityType
  <1>5. /\ f[1] = "event" => ToldAt(t) = ToldAt(s) \cup {n}
        /\ f[1] # "event" => ToldAt(t) = ToldAt(s)
    BY <1>3
  <1>6. Cardinality(ToldAt(t)) = Cardinality(ToldAt(s)) + (IF f[1] = "event" THEN 1 ELSE 0)
    <2>1. CASE f[1] = "event"
      <3>1. Cardinality(ToldAt(s) \cup {n}) = Cardinality(ToldAt(s)) + 1
        BY <1>3, <1>4, FS_AddElement
      <3>2. QED
        BY <1>5, <2>1, <3>1
    <2>2. CASE f[1] # "event"
      BY <1>4, <1>5, <2>2
    <2>3. QED
      BY <2>1, <2>2
  <1>7. ASSUME NEW i \in ToldAt(t)
        PROVE  t[i][2][1][2] = o + Cardinality({j \in ToldAt(t) : j <= i})
    <2>1. CASE i \in ToldAt(s)
      <3>1. ~ (n <= i)
        BY <1>0, <1>3, <2>1 DEF n
      <3>2. {j \in ToldAt(t) : j <= i} = {j \in ToldAt(s) : j <= i}
        BY <1>3, <3>1
      <3>3. s[i][2][1][2] = o + Cardinality({j \in ToldAt(s) : j <= i})
        BY <2>1 DEF IsTalk
      <3>4. QED
        BY <1>3, <2>1, <3>2, <3>3
    <2>2. CASE i \notin ToldAt(s)
      <3>1. i = n /\ f[1] = "event"
        BY <1>3, <2>2
      <3>2. \A j \in ToldAt(t) : j <= n
        BY <1>0, <1>1 DEF ToldAt, n
      <3>3. {j \in ToldAt(t) : j <= i} = ToldAt(t)
        BY <3>1, <3>2
      <3>4. f = <<"event", o + Cardinality(ToldAt(s)) + 1>>
        BY <3>1 DEF GoesOn
      <3>5. t[i][2][1] = f
        BY <1>1, <3>1
      <3>6. f[2] = o + Cardinality(ToldAt(s)) + 1
        BY <3>4
      <3>7. Cardinality(ToldAt(t)) = Cardinality(ToldAt(s)) + 1
        BY <1>6, <3>1
      <3>8. f[2] = o + Cardinality(ToldAt(t))
        BY <1>4, <3>6, <3>7
      <3>9. QED
        BY <3>3, <3>5, <3>8
    <2>3. QED
      BY <2>1, <2>2
  <1>8. \A i \in 2 .. Len(t) : t[i][1] = "data" /\ Len(t[i][2]) = 1
    <2>1. t[n][1] = "data" /\ Len(t[n][2]) = 1
      BY <1>1
    <2>2. \A i \in 2 .. Len(s) : t[i][1] = "data" /\ Len(t[i][2]) = 1
      BY <1>2 DEF IsTalk
    <2>3. QED
      BY <1>2, <2>1, <2>2
  <1>9. t[1] = <<"head", 101, FALSE>> /\ Len(t) > 0
    <2>1. 1 \in 1 .. Len(s) /\ Len(t) > 0
      BY <1>0, <1>1 DEF n
    <2>2. QED
      BY <1>1, <2>1 DEF IsTalk
  <1>10. QED
    BY <1>1, <1>4, <1>6, <1>7, <1>8, <1>9 DEF IsTalk

(* The head alone is the beginning of a websocket.                         *)
IsOpening(s) == \E head \in Item : head = <<"head", 101, FALSE>> /\ s = <<head>>

LEMMA TalkStarts ==
    ASSUME NEW o, NEW s, IsOpening(s)
    PROVE  IsTalk(s, o) /\ Len(s) > 0 /\ Cardinality(ToldAt(s)) = 0
  <1>0. PICK head \in Item : head = <<"head", 101, FALSE>> /\ s = <<head>>
    BY DEF IsOpening
  <1>1. s \in Seq(Item) /\ Len(s) = 1 /\ s[1] = head
    BY ONLY <1>0, ItemsAre
  <1>2. 2 .. Len(s) = {}
    BY <1>1
  <1>3. ToldAt(s) = {}
    BY <1>2 DEF ToldAt
  <1>4. \A i \in 2 .. Len(s) : FALSE
    BY <1>2
  <1>5. Cardinality(ToldAt(s)) = 0
    BY <1>3, FS_EmptySet
  <1>6. \A i \in ToldAt(s) : s[i][2][1][2] = o + Cardinality({j \in ToldAt(s) : j <= i})
    BY <1>3
  <1>7. \A i \in 2 .. Len(s) : s[i][1] = "data" /\ Len(s[i][2]) = 1
    BY <1>4
  <1>8. s[1] = <<"head", 101, FALSE>>
    BY <1>0, <1>1
  <1>9. IsTalk(s, o)
    BY ONLY <1>1, <1>6, <1>7, <1>8 DEF IsTalk
  <1>10. QED
    BY <1>1, <1>5, <1>9

(* A text in n chunks that end at the places of end, what is left of it if *)
(* anything is, and the last chunk.                                        *)
InChunks(s, text, n, end) ==
    /\ n \in Nat /\ end[0] = 0
    /\ \A i \in 0 .. n : end[i] \in Nat /\ end[i] <= Len(text)
    /\ \A i \in 1 .. n : end[i - 1] < end[i]
    /\ Len(s) = n + (IF end[n] = Len(text) THEN 2 ELSE 3)
    /\ s[1][3] = TRUE /\ s[Len(s)] = LastChunk
    /\ \A i \in 2 .. Len(s) : s[i][1] = "chunk"
    /\ \A i \in 2 .. n + 1 : s[i][2] = SubSeq(text, end[i - 2] + 1, end[i - 1])
    /\ end[n] # Len(text) => s[n + 2][2] = SubSeq(text, end[n] + 1, Len(text))

LEMMA ChunksAnswer ==
    ASSUME NEW r, r.text \in Seq(Token), NEW s \in Seq(Item), NEW n, NEW end,
           InChunks(s, r.text, n, end), s[1] = <<"head", r.code, s[1][3]>>
    PROVE  IsAnswer(s, r)
  <1> DEFINE text == r.text
             L == Len(text)
             cut == [i \in 1 .. Len(s) |-> IF i <= n + 1 THEN end[i - 1] ELSE L]
  <1>0. L \in Nat /\ n \in Nat /\ Len(s) \in Nat
    BY LenProperties DEF InChunks
  <1>1. /\ end[0] = 0 /\ Len(s) = n + (IF end[n] = L THEN 2 ELSE 3)
        /\ \A i \in 0 .. n : end[i] \in Nat /\ end[i] <= L
        /\ \A i \in 1 .. n : end[i - 1] < end[i]
    BY DEF InChunks
  <1>2. /\ \A i \in 2 .. n + 1 : s[i][2] = SubSeq(text, end[i - 2] + 1, end[i - 1])
        /\ end[n] # L => s[n + 2][2] = SubSeq(text, end[n] + 1, L)
        /\ \A i \in 2 .. Len(s) : s[i][1] = "chunk"
        /\ s[1][3] = TRUE /\ s[Len(s)] = LastChunk
    BY DEF InChunks
  <1> HIDE DEF L, text
  <1>3. cut \in [1 .. Len(s) -> 0 .. L] /\ cut[1] = 0 /\ cut[Len(s)] = L
    <2>1. ASSUME NEW i \in 1 .. Len(s) PROVE cut[i] \in 0 .. L
      <3>1. CASE i <= n + 1
        <4>1. i - 1 \in 0 .. n
          BY <1>0, <3>1
        <4>2. end[i - 1] \in 0 .. L
          BY <1>0, <1>1, <4>1
        <4>3. QED
          BY <3>1, <4>2
      <3>2. CASE i > n + 1
        BY <1>0, <3>2
      <3>3. QED
        BY <1>0, <3>1, <3>2
    <2>2. cut[1] = 0 /\ cut[Len(s)] = L
      BY <1>0, <1>1
    <2>3. QED
      BY <2>1, <2>2
  <1>4. ASSUME NEW i \in 2 .. Len(s)
        PROVE  /\ cut[i - 1] <= cut[i] /\ s[i][1] = "chunk"
               /\ s[i][2] = SubSeq(text, cut[i - 1] + 1, cut[i])
               /\ s[i][2] = <<>> => i = Len(s)
    <2> DEFINE a == cut[i - 1]
               b == cut[i]
    <2>1. a \in 0 .. L /\ b \in 0 .. L
      <3>1. i \in 1 .. Len(s) /\ i - 1 \in 1 .. Len(s)
        BY <1>0
      <3> HIDE DEF cut
      <3>2. QED
        BY <1>3, <3>1
    <2>2. a < b => SubSeq(text, a + 1, b) # <<>>
      <3>0. text \in Seq(Token) /\ L = Len(text)
        BY DEF text, L
      <3>1. ASSUME NEW x \in 0 .. L, NEW y \in 0 .. L, x < y
            PROVE  SubSeq(text, x + 1, y) # <<>>
        <4>1. \A j \in x + 1 .. y : text[j] \in Token
          BY <1>0, <3>0, <3>1, ElementOfSeq
        <4>2. Len(SubSeq(text, x + 1, y)) = y - (x + 1) + 1
          BY <1>0, <3>1, <4>1, SubSeqProperties
        <4>3. SubSeq(text, x + 1, y) = <<>> => Len(SubSeq(text, x + 1, y)) = 0
          BY EmptySeq
        <4>4. QED
          BY <1>0, <3>1, <4>2, <4>3
      <3>2. QED
        BY <2>1, <3>1
    <2>3. CASE i <= n + 1
      <3>1. a = end[i - 2] /\ b = end[i - 1] /\ i \in 2 .. n + 1 /\ i - 1 \in 1 .. n
        <4>1. (i - 1) - 1 = i - 2 /\ i - 1 <= n + 1 /\ i - 1 \in 1 .. Len(s)
          BY <1>0, <2>3
        <4>2. QED
          BY <1>0, <2>3, <4>1
      <3>2. a < b
        <4>1. (i - 1) - 1 = i - 2
          OBVIOUS
        <4> HIDE DEF a, b, cut
        <4>2. QED
          BY <1>1, <3>1, <4>1
      <3>4. s[i][1] = "chunk" /\ s[i][2] = SubSeq(text, a + 1, b)
        BY <1>2, <3>1
      <3> HIDE DEF a, b
      <3>5. a <= b
        BY <1>0, <2>1, <3>2
      <3>6. s[i][2] # <<>>
        BY ONLY <2>2, <3>2, <3>4
      <3>7. QED
        BY ONLY <3>4, <3>5, <3>6 DEF a, b
    <2>4. CASE i = n + 2 /\ end[n] # L
      <3>1. a = end[n] /\ b = L
        <4>1. i - 1 = n + 1 /\ i - 1 \in 1 .. Len(s) /\ (i - 1) - 1 = n
          BY <1>0, <2>4
        <4>2. QED
          BY <2>4, <4>1
      <3>2. a < b
        BY <1>0, <1>1, <2>4, <3>1
      <3>4. s[i][1] = "chunk" /\ s[i][2] = SubSeq(text, a + 1, b)
        BY <1>2, <2>4, <3>1
      <3> HIDE DEF a, b
      <3>5. a <= b
        BY <1>0, <2>1, <3>2
      <3>6. s[i][2] # <<>>
        BY ONLY <2>2, <3>2, <3>4
      <3>7. QED
        BY ONLY <3>4, <3>5, <3>6 DEF a, b
    <2>5. CASE i = Len(s)
      <3>1. a = L /\ b = L
        <4>1. CASE end[n] # L
          BY <1>0, <1>1, <2>5, <4>1
        <4>2. CASE end[n] = L
          <5>1. i - 1 = n + 1 /\ i - 1 \in 1 .. Len(s) /\ (i - 1) - 1 = n
            BY <1>0, <1>1, <2>5, <4>2
          <5>2. QED
            BY <1>0, <1>1, <2>5, <4>2, <5>1
        <4>3. QED
          BY <4>1, <4>2
      <3>2. s[i][1] = "chunk" /\ s[i][2] = <<>>
        BY <1>2, <2>5 DEF LastChunk
      <3> HIDE DEF a, b
      <3>3. SubSeq(text, a + 1, b) = <<>>
        BY <1>0, <3>1, SubSeqEmpty
      <3>4. a <= b /\ (s[i][2] = <<>> => i = Len(s))
        BY <1>0, <2>5, <3>1
      <3>5. s[i][1] = "chunk" /\ s[i][2] = SubSeq(text, a + 1, b)
        BY ONLY <3>2, <3>3
      <3>6. QED
        BY ONLY <3>4, <3>5 DEF a, b
    <2>6. i <= n + 1 \/ (i = n + 2 /\ end[n] # L) \/ i = Len(s)
      BY <1>0, <1>1
    <2>7. QED
      BY <2>3, <2>4, <2>5, <2>6
  <1>5. Len(s) > 0
    BY <1>0, <1>1
  <1> HIDE DEF cut
  <1>6. Cuts(s, text, cut)
    BY <1>3, <1>4 DEF Cuts, L
  <1>7. IsPart(s, r)
    BY <1>2, <1>4, <1>6 DEF IsPart, text
  <1>8. QED
    BY <1>2, <1>3, <1>5, <1>6, <1>7 DEF IsAnswer, L, text

(* A text that is not in chunks is one item, if it is not empty.           *)
LEMMA WholeAnswers ==
    ASSUME NEW r, r.text \in Seq(Token), NEW s \in Seq(Item),
           Len(s) > 0, s[1] = <<"head", r.code, s[1][3]>>, s[1][3] = FALSE,
           Len(s) = IF r.text = <<>> THEN 1 ELSE 2,
           Len(s) = 2 => s[2][1] = "data" /\ s[2][2] = r.text
    PROVE  IsAnswer(s, r)
  <1> DEFINE L == Len(r.text)
             cut == [i \in 1 .. Len(s) |-> IF i = 1 THEN 0 ELSE L]
  <1>1. L \in Nat /\ (r.text = <<>> <=> L = 0) /\ SubSeq(r.text, 1, L) = r.text
    BY LenProperties, EmptySeq, SubSeqFull
  <1>2. /\ cut \in [1 .. Len(s) -> 0 .. L] /\ cut[1] = 0 /\ cut[Len(s)] = L
        /\ Len(s) = 2 => cut[2] = L
    BY <1>1
  <1> HIDE DEF cut
  <1>3. ASSUME NEW i \in 2 .. Len(s)
        PROVE  /\ cut[i - 1] <= cut[i] /\ s[i][1] = "data"
               /\ s[i][2] = SubSeq(r.text, cut[i - 1] + 1, cut[i])
               /\ s[i][2] = <<>> => i = Len(s)
    <2>1. i = 2 /\ Len(s) = 2 /\ i - 1 = 1
      OBVIOUS
    <2>2. cut[i - 1] = 0 /\ cut[i] = L /\ 0 + 1 = 1
      BY <1>2, <2>1
    <2>3. s[i][1] = "data" /\ s[i][2] = r.text
      BY <2>1
    <2>4. cut[i - 1] <= cut[i]
      BY <1>1, <2>2
    <2>5. SubSeq(r.text, cut[i - 1] + 1, cut[i]) = r.text
      BY <1>1, <2>2
    <2>6. QED
      BY <2>1, <2>3, <2>4, <2>5
  <1>4. Cuts(s, r.text, cut)
    BY <1>2, <1>3 DEF Cuts
  <1>5. IsPart(s, r)
    BY <1>3, <1>4 DEF IsPart
  <1>6. QED
    BY <1>2, <1>4, <1>5 DEF IsAnswer

(* Where the chunks of a text of length L end.                             *)
LEMMA Multiples ==
    ASSUME NEW L \in Nat, NEW n, n = L \div BufCap
    PROVE  /\ n \in Nat /\ n * BufCap \in Nat /\ n * BufCap <= L /\ 0 * BufCap = 0
           /\ \A i \in 0 .. n : i * BufCap \in Nat /\ i * BufCap <= L
           /\ \A i \in 1 .. n : (i - 1) * BufCap < i * BufCap
  <1>0. BufCap \in Nat /\ BufCap > 0
    BY BufCapIsPositive
  <1>1. n \in Nat /\ n * BufCap <= L
    BY <1>0
  <1>2. ASSUME NEW i \in Nat, NEW m \in Nat, i <= m
        PROVE  i * BufCap \in Nat /\ i * BufCap <= m * BufCap
    BY ONLY <1>0, <1>2, i \in Nat, m \in Nat
  <1>3. ASSUME NEW i \in 0 .. n PROVE i * BufCap \in Nat /\ i * BufCap <= L
    <2>1. i \in Nat /\ i <= n
      BY <1>1
    <2>2. i * BufCap \in Nat /\ i * BufCap <= n * BufCap
      BY <1>1, <1>2, <2>1
    <2>3. n * BufCap \in Nat
      BY <1>1, <1>2
    <2> DEFINE x == i * BufCap
               y == n * BufCap
    <2>4. x \in Nat /\ x <= y /\ y \in Nat /\ y <= L
      BY <1>1, <2>2, <2>3
    <2> HIDE DEF x, y
    <2>5. x \in Nat /\ x <= L
      BY <2>4
    <2>6. QED
      BY <2>5 DEF x
  <1>4. ASSUME NEW i \in 1 .. n PROVE (i - 1) * BufCap < i * BufCap
    <2>1. i - 1 \in Nat /\ i \in Int
      BY <1>1
    <2> DEFINE x == (i - 1) * BufCap
               y == i * BufCap
    <2>2. y = x + BufCap /\ x \in Int
      BY ONLY <1>0, <2>1
    <2> HIDE DEF x, y
    <2>3. x < y
      BY <1>0, <2>2
    <2>4. QED
      BY <2>3 DEF x, y
  <1>5. n * BufCap \in Nat /\ 0 * BufCap = 0
    BY <1>0, <1>1, <1>2
  <1>6. QED
    BY <1>1, <1>3, <1>4, <1>5

(* Either is what is composed for an answer, after its head.               *)
LEMMA AnswerIs ==
    ASSUME NEW S, NEW r, r.text \in Seq(Token), r.code \in Nat, NEW k \in ClientType(S),
           k.wbuf = <<<<"head", r.code, k.bioChunked>>>>, k.buf = <<>>,
           NEW k1, k1 = HttpClose(Write(k, r.text))
    PROVE  /\ k1 \in ClientType(S) /\ IsAnswer(k1.wbuf, r)
           /\ \A f \in {"rbuf", "ws"} : k1[f] = k[f]
  <1> DEFINE text == r.text
             head == <<"head", r.code, k.bioChunked>>
  <1>1. head \in Item /\ k.bioChunked \in BOOLEAN
    BY ItemsAre DEF ClientType
  <1>2. <<head>> \in Seq(Item) /\ Len(<<head>>) = 1 /\ <<head>>[1] = head
    BY <1>1, ItemsAre
  <1> DEFINE w == Write(k, text)
             fields == {"rbuf", "ws"}
  <1> HIDE DEF head
  <1>3. CASE ~k.bioChunked
    <2> DEFINE data == <<"data", text>>
    <2>1. data \in Item
      BY ItemsAre
    <2>2. Append(<<head>>, data) \in Seq(Item) /\ Len(Append(<<head>>, data)) = 2
          /\ Append(<<head>>, data)[1] = head /\ Append(<<head>>, data)[2] = data
      <3> HIDE DEF data
      <3>1. Append(<<head>>, data)[Len(<<head>>) + 1] = data
        BY <1>2, <2>1, AppendProperties
      <3>2. QED
        BY <1>2, <2>1, <3>1, AppendProperties
    <2>3. w = IF text = <<>> THEN k ELSE [k EXCEPT !.wbuf = Append(<<head>>, data)]
      BY <1>3 DEF Write, Compose, head
    <2>4. /\ w \in ClientType(S) /\ w.buf = <<>> /\ w.bioChunked = FALSE
          /\ w.wbuf = IF text = <<>> THEN <<head>> ELSE Append(<<head>>, data)
          /\ \A f \in fields : w[f] = k[f]
      <3> HIDE DEF data
      <3>1. CASE text = <<>>
        BY <1>1, <1>3, <2>3, <3>1 DEF ClientType, head
      <3>2. CASE text # <<>>
        <4> DEFINE c == Append(<<head>>, data)
        <4>1. k \in ClientType(S) /\ c \in Seq(Item) /\ k.buf \in Seq(Token)
          BY <2>2 DEF ClientType
        <4>2. w = [k EXCEPT !.wbuf = c]
          BY <2>3, <3>2
        <4>3. k.buf = <<>> /\ k.bioChunked = FALSE
          BY <1>1, <1>3
        <4> HIDE DEF c, w
        <4> DEFINE x == WithBuffers(k, c, k.buf)
        <4>4. /\ x \in ClientType(S) /\ x.wbuf = c /\ x.buf = k.buf
              /\ \A f \in {"rbuf", "ws", "bioChunked"} : x[f] = k[f]
          BY ONLY <4>1, BuffersChange
        <4> HIDE DEF x
        <4>5. w = x
          BY ONLY <4>1, <4>2 DEF x, WithBuffers, ClientType
        <4>6. QED
          BY <3>2, <4>3, <4>4, <4>5 DEF c
      <3>3. QED
        BY <3>1, <3>2
    <2>5. k1 = w
      <3> HIDE DEF w
      <3>1. HttpClose(w) = w
        BY <2>4 DEF HttpClose, Compose
      <3>2. QED
        BY <3>1 DEF w
    <2>6. /\ head[1] = "head" /\ head[2] = r.code /\ head[3] = FALSE
          /\ head = <<"head", r.code, head[3]>>
      BY <1>1, <1>3 DEF head
    <2>7. /\ w.wbuf \in Seq(Item) /\ Len(w.wbuf) = (IF text = <<>> THEN 1 ELSE 2)
          /\ w.wbuf[1] = head /\ (Len(w.wbuf) = 2 => w.wbuf[2] = data)
      <3> HIDE DEF w, data
      <3>1. QED
        BY <1>2, <2>2, <2>4
    <2>8. data[1] = "data" /\ data[2] = text
      OBVIOUS
    <2>9. IsAnswer(w.wbuf, r)
      <3> HIDE DEF w, data
      <3>1. Len(w.wbuf) > 0 /\ (Len(w.wbuf) = 2 => w.wbuf[2][1] = "data" /\ w.wbuf[2][2] = text)
        BY <2>7, <2>8
      <3>2. QED
        BY <2>6, <2>7, <3>1, WholeAnswers
    <2>10. QED
      BY <2>4, <2>5, <2>9
  <1>4. CASE k.bioChunked
    <2> DEFINE n == Len(text) \div BufCap
               L == Len(text)
               chunks == [i \in 1 .. n |->
                            <<"chunk", SubSeq(text, (i - 1) * BufCap + 1, i * BufCap)>>]
               rest == SubSeq(text, n * BufCap + 1, L)
               left == <<"chunk", rest>>
               c == <<head>> \o chunks
               end == [i \in 0 .. n |-> i * BufCap]
    <2>0. L \in Nat /\ BufCap \in Nat \ {0} /\ text \in Seq(Token)
      BY LenProperties, BufCapIsPositive
    <2>1. /\ n \in Nat /\ n * BufCap \in Nat /\ n * BufCap <= L /\ 0 * BufCap = 0
          /\ \A i \in 0 .. n : i * BufCap \in Nat /\ i * BufCap <= L
          /\ \A i \in 1 .. n : (i - 1) * BufCap < i * BufCap
      BY <2>0, Multiples
    <2> HIDE DEF n
    <2>2. /\ end[0] = 0
          /\ \A i \in 0 .. n : end[i] = i * BufCap /\ end[i] \in Nat /\ end[i] <= L
          /\ \A i \in 1 .. n : end[i - 1] < end[i]
      <3>1. /\ \A i \in 1 .. n : i \in 0 .. n /\ i - 1 \in 0 .. n
            /\ 0 \in 0 .. n
        BY <2>1
      <3>2. QED
        BY <2>1, <3>1
    <2>3. ASSUME NEW i \in 1 .. n
          PROVE  /\ chunks[i] \in Item /\ chunks[i][1] = "chunk"
                 /\ chunks[i][2] = SubSeq(text, end[i - 1] + 1, end[i])
      <3>1. i \in 0 .. n /\ i - 1 \in 0 .. n
        BY <2>1
      <3>2. /\ end[i] = i * BufCap /\ end[i - 1] = (i - 1) * BufCap
            /\ end[i] \in Nat /\ end[i - 1] \in Nat /\ end[i] <= L
        BY <2>2, <3>1
      <3>3. chunks[i] = <<"chunk", SubSeq(text, end[i - 1] + 1, end[i])>>
        BY <3>2
      <3> HIDE DEF end, chunks
      <3>4. SubSeq(text, end[i - 1] + 1, end[i]) \in Seq(Token)
        <4>1. \A j \in end[i - 1] + 1 .. end[i] : text[j] \in Token
          BY <2>0, <3>2, ElementOfSeq
        <4>2. QED
          BY <3>2, <4>1, SubSeqProperties
      <3> DEFINE piece == SubSeq(text, end[i - 1] + 1, end[i])
      <3>5. chunks[i][1] = "chunk" /\ chunks[i][2] = piece
        <4>1. chunks[i] = <<"chunk", piece>>
          BY <3>3
        <4> HIDE DEF piece
        <4>2. QED
          BY ONLY <4>1
      <3>6. chunks[i] \in Item
        <4>1. chunks[i] = <<"chunk", piece>>
          BY <3>3
        <4> HIDE DEF piece
        <4>2. QED
          BY <3>4, <4>1, ItemsAre DEF piece
      <3>7. QED
        BY <3>5, <3>6
    <2>4. chunks \in Seq(Item) /\ Len(chunks) = n
      <3>1. chunks \in [1 .. n -> Item]
        BY <2>3
      <3> HIDE DEF chunks
      <3>2. QED
        BY <2>1, <3>1
    <2>5. rest \in Seq(Token) /\ (rest = <<>> <=> n * BufCap = L)
      <3> DEFINE x == n * BufCap
      <3>1. \A j \in x + 1 .. L : text[j] \in Token
        BY <2>0, <2>1, ElementOfSeq
      <3> HIDE DEF x, L
      <3>2. /\ SubSeq(text, x + 1, L) \in Seq(Token)
            /\ Len(SubSeq(text, x + 1, L)) = IF x + 1 <= L THEN L - (x + 1) + 1 ELSE 0
        BY <2>0, <2>1, <3>1, SubSeqProperties DEF x
      <3>3. SubSeq(text, x + 1, L) = <<>> <=> Len(SubSeq(text, x + 1, L)) = 0
        BY <3>2, EmptySeq
      <3>4. x \in Nat /\ x <= L /\ L \in Nat
        BY <2>0, <2>1 DEF x, L
      <3>5. SubSeq(text, x + 1, L) = <<>> <=> x = L
        BY <3>2, <3>3, <3>4
      <3>6. QED
        BY <3>2, <3>5 DEF x, L
    <2>6. w = [k EXCEPT !.wbuf = <<head>> \o chunks, !.buf = rest]
      <3>1. <<>> \o text = text
        BY <2>0, ConcatEmptySeq
      <3>2. QED
        BY <1>4, <3>1 DEF Write, head, n
    <2>7. left \in Item /\ left[1] = "chunk" /\ left[2] = rest /\ LastChunk \in Item
      <3>1. <<>> \in Seq(Token)
        OBVIOUS
      <3> HIDE DEF rest
      <3>2. QED
        BY <2>5, <3>1, ItemsAre DEF LastChunk
    <2>8. /\ c \in Seq(Item) /\ Len(c) = n + 1 /\ c[1] = head
          /\ \A i \in 1 .. n : c[i + 1] = chunks[i]
      <3> HIDE DEF chunks
      <3>1. /\ c \in Seq(Item) /\ Len(c) = 1 + n
            /\ \A i \in 1 .. 1 + n : c[i] = IF i <= 1 THEN <<head>>[i] ELSE chunks[i - 1]
        BY <1>2, <2>1, <2>4, ConcatProperties
      <3>2. ASSUME NEW i \in 1 .. n PROVE c[i + 1] = chunks[i]
        <4>1. i + 1 \in 1 .. 1 + n /\ ~(i + 1 <= 1) /\ (i + 1) - 1 = i
          BY <2>1
        <4> HIDE DEF c
        <4>2. QED
          BY <3>1, <4>1
      <3> HIDE DEF c
      <3>3. 1 \in 1 .. 1 + n
        BY <2>1
      <3>4. QED
        BY <1>2, <2>1, <3>1, <3>2, <3>3
    <2> HIDE DEF c, chunks, rest, left
    <2> DEFINE d == IF rest = <<>> THEN c ELSE Append(c, left)
               e == Append(d, LastChunk)
    <2>9. /\ k1 \in ClientType(S) /\ k1.wbuf = e
          /\ \A f \in fields : k1[f] = k[f]
      <3>1. /\ w \in ClientType(S) /\ w.wbuf = c /\ w.buf = rest /\ w.bioChunked = TRUE
            /\ \A f \in fields : w[f] = k[f]
        <4>1. w = [k EXCEPT !.wbuf = c, !.buf = rest]
          BY <2>6 DEF c
        <4>2. k \in ClientType(S) /\ c \in Seq(Item) /\ rest \in Seq(Token)
          BY <2>5, <2>8
        <4> HIDE DEF w, c, rest
        <4> DEFINE x == WithBuffers(k, c, rest)
        <4>3. /\ x \in ClientType(S) /\ x.wbuf = c /\ x.buf = rest
              /\ \A f \in {"rbuf", "ws", "bioChunked"} : x[f] = k[f]
          BY ONLY <4>2, BuffersChange
        <4> HIDE DEF x
        <4>4. w = x
          BY <4>1 DEF x, WithBuffers
        <4>5. QED
          BY <1>4, <4>3, <4>4
      <3> HIDE DEF w
      <3>2. Append(c, left) \in Seq(Item)
        BY <2>7, <2>8, AppendProperties
      <3>3. d \in Seq(Item) /\ e \in Seq(Item)
        BY <2>7, <2>8, <3>2, AppendProperties
      <3>4. k1 = [w EXCEPT !.wbuf = e, !.buf = <<>>]
        <4>1. k1 = HttpClose(w)
          BY DEF w
        <4>2. CASE rest = <<>>
          <5>1. HttpClose(w) = [w EXCEPT !.wbuf = Append(c, LastChunk)]
            BY <3>1, <4>2 DEF HttpClose, Compose, LastChunk
          <5>2. [w EXCEPT !.wbuf = e] = [w EXCEPT !.wbuf = e, !.buf = <<>>]
            <6>1. w \in ClientType(S) /\ w.buf = <<>>
              BY <3>1, <4>2
            <6> HIDE DEF e
            <6>2. QED
              BY ONLY <6>1 DEF ClientType
          <5>3. QED
            BY <4>1, <4>2, <5>1, <5>2
        <4>3. CASE rest # <<>>
          <5>1. [Compose(w, w.buf) EXCEPT !.buf = <<>>] = [w EXCEPT !.wbuf = d, !.buf = <<>>]
            BY <3>1, <4>3 DEF Compose, left
          <5> HIDE DEF d, e
          <5>2. HttpClose(w) = Compose([w EXCEPT !.wbuf = d, !.buf = <<>>], <<>>)
            BY <3>1, <4>3, <5>1 DEF HttpClose
          <5> DEFINE v == [w EXCEPT !.wbuf = d, !.buf = <<>>]
          <5>3. v \in ClientType(S) /\ v.bioChunked = TRUE /\ v.wbuf = d
            BY <3>1, <3>3 DEF ClientType
          <5>4. Compose(v, <<>>) = [v EXCEPT !.wbuf = Append(d, LastChunk)]
            BY <5>3 DEF Compose, LastChunk
          <5>5. [v EXCEPT !.wbuf = Append(d, LastChunk)] = [w EXCEPT !.wbuf = e, !.buf = <<>>]
            BY <3>1 DEF ClientType, e
          <5>6. QED
            BY <4>1, <5>2, <5>4, <5>5
        <4>4. QED
          BY <4>2, <4>3
      <3> HIDE DEF e, d, c, rest, fields
      <3> DEFINE nil == <<>>
                 x == WithBuffers(w, e, nil)
      <3>5. w \in ClientType(S) /\ e \in Seq(Item) /\ nil \in Seq(Token)
        BY <3>1, <3>3
      <3> HIDE DEF nil
      <3>6. /\ x \in ClientType(S) /\ x.wbuf = e
            /\ \A f \in {"rbuf", "ws", "bioChunked"} : x[f] = w[f]
        BY ONLY <3>5, BuffersChange
      <3> HIDE DEF x
      <3>7. k1 = x
        BY <3>4 DEF x, nil, WithBuffers
      <3>8. \A f \in fields : x[f] = k[f]
        BY ONLY <3>1, <3>6 DEF fields
      <3>9. QED
        BY <3>6, <3>7, <3>8
    <2>10. /\ d \in Seq(Item) /\ Len(d) = n + (IF rest = <<>> THEN 1 ELSE 2)
           /\ \A i \in 1 .. n + 1 : d[i] = c[i]
           /\ rest # <<>> => d[n + 2] = left
      <3>1. CASE rest = <<>>
        BY <2>8, <3>1
      <3>2. CASE rest # <<>>
        <4> DEFINE a == Append(c, left)
        <4>1. /\ a \in Seq(Item) /\ Len(a) = Len(c) + 1 /\ a[Len(c) + 1] = left
              /\ \A i \in 1 .. Len(c) : a[i] = c[i]
          BY <2>7, <2>8, AppendProperties
        <4>2. d = a
          BY <3>2
        <4> HIDE DEF a, d
        <4>3. Len(c) + 1 = n + 2
          BY <2>1, <2>8
        <4>4. QED
          BY <2>1, <2>8, <3>2, <4>1, <4>2, <4>3
      <3>3. QED
        BY <3>1, <3>2
    <2>11. /\ e \in Seq(Item) /\ Len(e) = n + (IF rest = <<>> THEN 2 ELSE 3)
           /\ \A i \in 1 .. n + 1 : e[i] = c[i]
           /\ rest # <<>> => e[n + 2] = left
           /\ e[Len(e)] = LastChunk
      <3>1. Len(d) \in Nat /\ Len(d) = n + (IF rest = <<>> THEN 1 ELSE 2)
        BY <2>10, LenProperties
      <3>2. /\ e \in Seq(Item) /\ Len(e) = Len(d) + 1 /\ e[Len(d) + 1] = LastChunk
            /\ \A i \in 1 .. Len(d) : e[i] = d[i]
        <4> HIDE DEF d
        <4>1. QED
          BY <2>7, <2>10, AppendProperties
      <3>3. \A i \in 1 .. n + 1 : i \in 1 .. Len(d)
        BY <2>1, <3>1
      <3>4. rest # <<>> => n + 2 \in 1 .. Len(d)
        BY <2>1, <3>1
      <3> HIDE DEF d, e
      <3>5. QED
        BY <2>1, <2>10, <3>1, <3>2, <3>3, <3>4
    <2> HIDE DEF d, e
    <2>12. InChunks(e, text, n, end) /\ e[1] = <<"head", r.code, e[1][3]>>
      <3>1. head[3] = TRUE /\ head = <<"head", r.code, head[3]>> /\ 1 \in 1 .. n + 1
        BY <1>4, <2>1 DEF head
      <3>2. e[1] = head
        BY <2>8, <2>11, <3>1
      <3>4. rest = <<>> <=> end[n] = L
        BY <2>1, <2>2, <2>5
      <3>5. ASSUME NEW i \in 2 .. n + 1
            PROVE  e[i][1] = "chunk" /\ e[i][2] = SubSeq(text, end[i - 2] + 1, end[i - 1])
        <4>1. i - 1 \in 1 .. n /\ (i - 1) + 1 = i /\ (i - 1) - 1 = i - 2 /\ i \in 1 .. n + 1
          BY <2>1
        <4>2. e[i] = chunks[i - 1]
          BY <2>8, <2>11, <4>1
        <4> HIDE DEF end
        <4>3. QED
          BY <2>3, <4>1, <4>2
      <3>6. rest # <<>> => e[n + 2][1] = "chunk" /\ e[n + 2][2] = SubSeq(text, end[n] + 1, L)
        <4>1. end[n] = n * BufCap
          BY <2>1, <2>2
        <4>2. QED
          BY <2>7, <2>11, <4>1 DEF rest
      <3>7. LastChunk[1] = "chunk"
        BY DEF LastChunk
      <3>8. ASSUME NEW i \in 2 .. Len(e) PROVE e[i][1] = "chunk"
        <4>1. i \in 2 .. n + 1 \/ (i = n + 2 /\ rest # <<>>) \/ i = Len(e)
          BY <2>1, <2>11
        <4>2. QED
          BY <2>11, <3>5, <3>6, <3>7, <4>1
      <3>9. Len(e) = n + (IF end[n] = L THEN 2 ELSE 3)
        BY <2>11, <3>4
      <3> HIDE DEF end
      <3>10. InChunks(e, text, n, end)
        BY <2>1, <2>2, <2>11, <3>1, <3>2, <3>4, <3>5, <3>6, <3>8, <3>9 DEF InChunks
      <3>11. QED
        BY <3>1, <3>2, <3>10
    <2>13. IsAnswer(e, r)
      <3> HIDE DEF end
      <3>1. QED
        BY <2>0, <2>11, <2>12, ChunksAnswer
    <2>14. QED
      BY <2>9, <2>13
  <1>5. QED
    BY <1>3, <1>4

(* To write nothing is to do nothing.                                      *)
LEMMA WriteNothing ==
    ASSUME NEW S, NEW k \in ClientType(S), k.buf = <<>>
    PROVE  Write(k, <<>>) = k
  <1>1. CASE ~k.bioChunked
    BY <1>1 DEF Write, Compose
  <1>2. CASE k.bioChunked
    <2> DEFINE n == Len(<<>>) \div BufCap
               chunks == [i \in 1 .. n |->
                            <<"chunk", SubSeq(<<>>, (i - 1) * BufCap + 1, i * BufCap)>>]
    <2>1. Len(<<>>) = 0 /\ <<>> \o <<>> = <<>>
      OBVIOUS
    <2>2. n = 0 /\ 0 * BufCap = 0
      <3>1. n \in Nat /\ n * BufCap <= 0 /\ 0 * BufCap = 0
        BY <2>1, Multiples
      <3>2. BufCap \in Nat /\ BufCap > 0
        BY BufCapIsPositive
      <3> HIDE DEF n
      <3>3. n = 0
        BY ONLY <3>1, <3>2
      <3>4. QED
        BY <3>1, <3>3
    <2>3. SubSeq(<<>>, n * BufCap + 1, Len(<<>>)) = <<>>
      <3>1. SubSeq(<<>>, 1, 0) = <<>>
        BY SubSeqEmpty
      <3>2. n * BufCap + 1 = 1
        BY <2>2
      <3>3. QED
        BY <2>1, <3>1, <3>2
    <2>4. k.wbuf \o chunks = k.wbuf
      <3>1. chunks = <<>>
        <4>1. 1 .. n = {}
          BY <2>2
        <4>2. chunks = [i \in {} |->
                            <<"chunk", SubSeq(<<>>, (i - 1) * BufCap + 1, i * BufCap)>>]
          BY <4>1
        <4>3. QED
          BY <4>2
      <3>2. k.wbuf \in Seq(Item)
        BY DEF ClientType
      <3>3. QED
        BY <3>1, <3>2, ConcatEmptySeq
    <2>5. Write(k, <<>>) = [k EXCEPT !.wbuf = k.wbuf \o chunks,
                                     !.buf = SubSeq(<<>>, n * BufCap + 1, Len(<<>>))]
      BY <1>2, <2>1 DEF Write
    <2>6. Write(k, <<>>) = [k EXCEPT !.wbuf = k.wbuf, !.buf = k.buf]
      BY <2>3, <2>4, <2>5
    <2>7. QED
      BY <2>6 DEF ClientType
  <1>3. QED
    BY <1>1, <1>2

(* The texts that are due.                                                 *)
LEMMA TextsAreText ==
    ASSUME NEW r, NEW method, NEW path, NEW shaken, NEW form, Due(r, method, path, shaken, form)
    PROVE  r.text \in Seq(Token) /\ r.code \in Nat
  <1>1. Page \in Seq(Token)
    <2>1. ToSet(Page) \subseteq Token
      BY DEF Token
    <2>2. QED
      BY <2>1, PageIsText, SeqMonotonic
  <1>2. <<"link">> \in Token /\ <<"refused">> \in Token /\ <<"notfound">> \in Token
    BY DEF Token
  <1>3. /\ <<<<"link">>>> \in Seq(Token) /\ <<<<"refused">>>> \in Seq(Token)
        /\ <<<<"notfound">>>> \in Seq(Token) /\ <<>> \in Seq(Token)
    <2> HIDE DEF Token
    <2>1. \A f \in Token : <<f>> \in Seq(Token)
      BY ItemsAre
    <2>2. QED
      BY <1>2, <2>1
  <1> DEFINE link == <<<<"link">>>>
             refused == <<<<"refused">>>>
             notfound == <<<<"notfound">>>>
  <1>4. r.text = Page \/ r.text = <<>> \/ r.text = link \/ r.text = refused \/ r.text = notfound
    BY Zenon DEF Due, Owed
  <1>5. r.code \in Nat
    BY DEF Due, Owed
  <1> HIDE DEF link, refused, notfound
  <1>6. QED
    BY <1>1, <1>3, <1>4, <1>5, Zenon DEF link, refused, notfound

(* The answer that is composed is the one that is due.                     *)
Accepted(r, k) == /\ r.code = 101 /\ k.route = "ws" /\ k.ws /\ ~k.done
                  /\ ~k.bioChunked /\ IsOpening(k.wbuf)
Replied(r, k) == /\ r.code # 101 /\ k.route = "page" /\ k.done /\ ~k.ws
                  /\ IsAnswer(k.wbuf, r)

LEMMA DispatchAnswers ==
    ASSUME NEW S, NEW r, NEW k \in ClientType(S),
           k.wbuf = <<>>, k.buf = <<>>, ~k.ws, ~k.done,
           Owes(r, k),
           NEW k1, k1 = RouteDispatch(k)
    PROVE  /\ k1 \in ClientType(S) /\ r.commands = IF IsCommand(k) THEN 1 ELSE 0
           /\ InitWs(k) => Accepted(r, k1)
           /\ ~InitWs(k) => Replied(r, k1)
  <1> DEFINE form == <<"form">> \in ToSet(k.rbuf)
             ch == k.chunked /\ r.code # 101
             head == <<"head", r.code, ch>>
             b == [k EXCEPT !.wbuf = <<head>>, !.chunked = ch, !.bioChunked = ch]
  <1>0. Due(r, k.method, k.path, k.handshake, <<"form">> \in ToSet(k.rbuf))
    BY DEF Owes
  <1>1. r.text \in Seq(Token) /\ r.code \in Nat
    BY <1>0, TextsAreText
  <1>2. head \in Item /\ ch \in BOOLEAN /\ <<head>> \in Seq(Item)
    <2>1. ch \in BOOLEAN
      BY DEF ClientType
    <2> HIDE DEF ch
    <2>2. head \in Item
      BY <1>1, <2>1, ItemsAre
    <2> HIDE DEF head
    <2>3. QED
      BY <2>1, <2>2, ItemsAre
  <1>3. /\ b \in ClientType(S) /\ b.wbuf = <<head>> /\ b.buf = <<>> /\ b.bioChunked = ch
        /\ ~b.ws /\ ~b.done /\ b.rbuf = k.rbuf
    <2> HIDE DEF ch, head
    <2>1. QED
      BY <1>2 DEF ClientType
  <1>4. Reply(k, r.code) = IF r.code = 302 THEN Write(b, <<<<"link">>>>) ELSE b
    <2>1. Append(k.wbuf, head) = <<head>>
      OBVIOUS
    <2>2. QED
      BY <2>1 DEF Reply
  <1>5. Write(b, <<>>) = b
    <2> HIDE DEF b
    <2>1. QED
      BY <1>3, WriteNothing
  <1>6. r.commands = IF IsCommand(k) THEN 1 ELSE 0
    BY <1>0 DEF Due, Owed, IsCommand
  <1>7. CASE InitWs(k)
    <2>1. r.code = 101
      BY <1>0, <1>7 DEF Due, Owed, InitWs
    <2>2. ch = FALSE /\ head = <<"head", 101, FALSE>>
      BY <2>1
    <2>3. k1 = [b EXCEPT !.ws = TRUE, !.route = "ws"]
      <3>1. Reply(k, 101) = b
        BY <1>4, <2>1
      <3> HIDE DEF b
      <3>2. QED
        BY <1>7, <3>1 DEF RouteDispatch
    <2>4. /\ k1 \in ClientType(S) /\ k1.route = "ws" /\ k1.ws /\ ~k1.done /\ ~k1.bioChunked
          /\ k1.wbuf = <<head>>
      <3> HIDE DEF b, ch, head
      <3>1. b \in ClientType(S) /\ ~b.done /\ ~b.bioChunked /\ b.wbuf = <<head>>
        BY <1>3, <2>2
      <3>2. k1 \in ClientType(S)
        BY ONLY <2>3, <3>1 DEF ClientType
      <3>3. k1.route = "ws" /\ k1.ws
        BY ONLY <2>3, <3>1 DEF ClientType
      <3>4. k1.done = b.done /\ k1.bioChunked = b.bioChunked /\ k1.wbuf = b.wbuf
        BY ONLY <2>3, <3>1 DEF ClientType
      <3>5. QED
        BY <3>1, <3>2, <3>3, <3>4
    <2>5. IsOpening(k1.wbuf)
      BY <1>2, <2>2, <2>4 DEF IsOpening
    <2>6. QED
      BY <1>6, <1>7, <2>1, <2>4, <2>5 DEF Accepted
  <1>8. CASE ~InitWs(k)
    <2> DEFINE asks == <<k.method, k.path>>
    <2>1. r.code # 101 /\ Answer(k) = Write(b, r.text)
      <3> HIDE DEF b
      <3>1. CASE k.method = "GET" /\ k.path = "/" /\ Owed(r, 200, Page, 0)
        <4>1. r.code = 200 /\ r.text = Page
          BY <3>1 DEF Owed
        <4>2. Answer(k) = Write(Reply(k, 200), Page)
          BY <3>1 DEF Answer, IsCommand, NotFound, BadRequest
        <4>3. QED
          BY <1>4, <1>5, <4>1, <4>2
      <3>2. CASE /\ k.method = "GET" /\ k.path = "/ws" /\ ~k.handshake
                 /\ Owed(r, 400, <<<<"refused">>>>, 0)
        <4>1. r.code = 400 /\ r.text = <<<<"refused">>>>
          BY <3>2 DEF Owed
        <4>2. Answer(k) = Write(Reply(k, 400), <<<<"refused">>>>)
          BY <3>2 DEF Answer, IsCommand, NotFound, BadRequest
        <4>3. QED
          BY <1>4, <1>5, <4>1, <4>2
      <3>3. CASE /\ k.method = "POST" /\ k.path = "/ctrls" /\ form
                 /\ Owed(r, 302, <<<<"link">>>>, 1)
        <4>1. r.code = 302 /\ r.text = <<<<"link">>>>
          BY <3>3 DEF Owed
        <4>2. Answer(k) = Reply(k, 302)
          BY <3>3 DEF Answer, IsCommand, NotFound, BadRequest
        <4>3. QED
          BY <1>4, <1>5, <4>1, <4>2
      <3>4. CASE k.method = "POST" /\ k.path = "/a/ctrls" /\ form /\ Owed(r, 200, <<>>, 1)
        <4>1. r.code = 200 /\ r.text = <<>>
          BY <3>4 DEF Owed
        <4>2. Answer(k) = Reply(k, 200)
          BY <3>4 DEF Answer, IsCommand, NotFound, BadRequest
        <4>3. QED
          BY <1>4, <1>5, <4>1, <4>2
      <3>5. CASE /\ k.method = "POST" /\ k.path \in {"/ctrls", "/a/ctrls"} /\ ~form
                 /\ Owed(r, 400, <<<<"refused">>>>, 0)
        <4>1. r.code = 400 /\ r.text = <<<<"refused">>>>
          BY <3>5 DEF Owed
        <4>2. Answer(k) = Write(Reply(k, 400), <<<<"refused">>>>)
          BY <3>5 DEF Answer, IsCommand, NotFound, BadRequest
        <4>3. QED
          BY <1>4, <1>5, <4>1, <4>2
      <3>6. CASE /\ ~(k.method = "GET" /\ k.path \in {"/", "/ws"})
                 /\ ~(k.method = "POST" /\ k.path \in {"/ctrls", "/a/ctrls"})
                 /\ Owed(r, 404, <<<<"notfound">>>>, 0)
        <4>1. r.code = 404 /\ r.text = <<<<"notfound">>>>
          BY <3>6 DEF Owed
        <4>2. Answer(k) = Write(Reply(k, 404), <<<<"notfound">>>>)
          BY <3>6 DEF Answer, IsCommand, NotFound, BadRequest
        <4>3. QED
          BY <1>4, <1>5, <4>1, <4>2
      <3>7. QED
        BY <1>0, <1>8, <3>1, <3>2, <3>3, <3>4, <3>5, <3>6 DEF Due, InitWs
    <2> DEFINE c == HttpClose(Write(b, r.text))
    <2>2. c \in ClientType(S) /\ IsAnswer(c.wbuf, r) /\ c.ws = b.ws
      <3>1. b.wbuf = <<<<"head", r.code, b.bioChunked>>>>
        BY <1>3
      <3> HIDE DEF b
      <3>2. QED
        BY <1>1, <1>3, <3>1, AnswerIs
    <2>3. k1 = [c EXCEPT !.done = TRUE, !.route = "page"]
      <3> HIDE DEF b
      <3>1. QED
        BY <1>8, <2>1 DEF RouteDispatch
    <2> HIDE DEF c
    <2>4. /\ k1 \in ClientType(S) /\ k1.wbuf = c.wbuf /\ k1.done /\ k1.route = "page"
          /\ k1.ws = c.ws
      BY <2>2, <2>3 DEF ClientType
    <2>5. ~k1.ws
      BY <1>3, <2>2, <2>4
    <2>6. QED
      BY <1>6, <1>8, <2>1, <2>2, <2>4, <2>5 DEF Replied
  <1>9. QED
    BY <1>6, <1>7, <1>8
-----------------------------------------------------------------------------
(* The invariant, of one connection: r is its request, k the client, b and *)
(* d what is yet to be read and to be sent, w what was written, n the      *)
(* commands, o the events before the websocket was open and e all of them. *)

(* It reads the request and has said nothing.                              *)
Reads(r, k, b, d, w, n) ==
    /\ k.route = "none" /\ k.wbuf = <<>> /\ k.buf = <<>>
    /\ ~k.bioChunked /\ ~k.ws /\ ~k.done /\ w = <<>> /\ n = 0
    /\ \E m \in 0 .. Len(r.pieces) :
            Heard(k, r.pieces, m) /\ Follow(r.pieces, m, k.rbuf, b, d)

(* It has composed the whole answer.                                       *)
Shows(r, k, w, n) ==
    /\ k.route = "page" /\ k.done /\ ~k.ws
    /\ r.code # 101 /\ n = r.commands /\ IsAnswer(w \o k.wbuf, r)

(* It is a websocket.                                                      *)
Talks(r, k, w, n, o, e) ==
    /\ k.route = "ws" /\ k.ws /\ ~k.bioChunked
    /\ r.code = 101 /\ n = r.commands
    /\ IsTalk(w \o k.wbuf, o) /\ Len(w \o k.wbuf) > 0
    /\ ~k.done => Cardinality(ToldAt(w \o k.wbuf)) = e - o

Held(r, k, b, d, w, n, o, e) ==
    /\ IsRequest(r) /\ k \in ClientType(ToSet(r.pieces))
    /\ b \in Seq(ToSet(r.pieces)) /\ d \in Seq(ToSet(r.pieces))
    /\ w \in Seq(Item) /\ o \in Nat /\ e \in Nat
    /\ Reads(r, k, b, d, w, n) \/ Shows(r, k, w, n) \/ Talks(r, k, w, n, o, e)

(* It has ended, for the reason how.                                       *)
Ended(r, w, n, o, how) ==
    /\ how \in {"peer", "done", "invalid"} /\ w \in Seq(Item)
    /\ w # <<>> => /\ n = r.commands
                   /\ IF r.code = 101 THEN IsTalk(w, o) ELSE IsPart(w, r)
    /\ how = "done" /\ r.code # 101 => IsAnswer(w, r)

(* Of all of them: there is something to write whenever the loop waits to, *)
(* or the client is about to.                                              *)
Over(f) == DOMAIN f = Conn

ConnInv(c) ==
    /\ peer[c] \in [left : Seq(ToSet(request[c].pieces)),
                    is : {"away", "waiting", "here", "silent", "gone"}]
    /\ IF ended[c] = "open"
       THEN Held(request[c], clt[c], inbox[c], peer[c].left, written[c], commands[c],
                 opened[c], events)
       ELSE clt[c] = NewClient /\ mask[c] = {}
              /\ Ended(request[c], written[c], commands[c], opened[c], ended[c])
    /\ "W" \in mask[c] => clt[c].wbuf # <<>> \/ (at # <<>> /\ at[1] = c)

ToWrite == {<<"W">>, <<"R", "W">>}

AtInv == at # <<>> =>
    \E c \in Conn, todo \in {<<>>, <<"R">>} \cup ToWrite :
        /\ at = <<c, todo>> /\ ended[c] = "open"
        /\ todo \in ToWrite => clt[c].wbuf # <<>>

WebInv ==
    /\ Over(peer) /\ Over(inbox) /\ Over(clt) /\ Over(mask)
    /\ Over(written) /\ Over(opened) /\ Over(commands) /\ Over(ended)
    /\ AtInv /\ \A c \in Conn : ConnInv(c)
-----------------------------------------------------------------------------
(* What each step does to one connection.                                  *)

LEMMA HeldStarts ==
    ASSUME NEW r, IsRequest(r), NEW e \in Nat
    PROVE  Held(r, NewClient, <<>>, r.pieces, <<>>, 0, 0, e)
  <1> DEFINE p == r.pieces
             k == NewClient
  <1>1. p \in Seq(ToSet(p)) /\ Len(p) \in Nat
    BY RequestShape, LenProperties DEF Shaped
  <1>2. k \in ClientType(ToSet(p))
    <2>1. <<>> \in Seq(ToSet(p)) /\ <<>> \in Seq(Item) /\ <<>> \in Seq(Token)
      BY EmptySeq
    <2>2. "" \in Path(ToSet(p))
      BY DEF Path
    <2> HIDE DEF p
    <2>3. QED
      BY ONLY <2>1, <2>2 DEF NewClient, ClientType
  <1>3. Heard(k, p, 0)
    <2>1. 1 .. 0 = {} /\ \A i \in 1 .. 0 : FALSE
      OBVIOUS
    <2>2. /\ ~k.invalid /\ ~k.reqdone /\ k.method = "unknown" /\ ~k.handshake /\ k.clen = 0
      BY DEF NewClient
    <2> HIDE DEF p, k
    <2>3. QED
      BY <1>1, <2>1, <2>2 DEF Heard, Proper
  <1>4. Follow(p, 0, <<>>, <<>>, p)
    BY <1>1 DEF Follow
  <1>5. k.rbuf = <<>> /\ k.route = "none" /\ k.wbuf = <<>> /\ k.buf = <<>>
        /\ ~k.bioChunked /\ ~k.ws /\ ~k.done
    BY DEF NewClient
  <1> HIDE DEF p, k
  <1>6. 0 \in 0 .. Len(p)
    BY <1>1
  <1>7. Reads(r, k, <<>>, p, <<>>, 0)
    BY <1>3, <1>4, <1>5, <1>6 DEF Reads, p
  <1>8. <<>> \in Seq(ToSet(p)) /\ <<>> \in Seq(Item)
    BY EmptySeq
  <1>9. QED
    BY <1>1, <1>2, <1>7, <1>8 DEF Held, p, k

(* More of the request arrives.                                            *)
LEMMA FollowArrives ==
    ASSUME NEW p, NEW m \in Nat, NEW S, NEW a \in Seq(S), NEW b \in Seq(S), NEW d \in Seq(S),
           NEW n \in 0 .. Len(d), Follow(p, m, a, b, d), Len(p) \in Nat,
           NEW b1, b1 = b \o SubSeq(d, 1, n), NEW d1, d1 = SubSeq(d, n + 1, Len(d))
    PROVE  b1 \in Seq(S) /\ d1 \in Seq(S) /\ Follow(p, m, a, b1, d1)
  <1>1. Len(a) \in Nat /\ Len(b) \in Nat /\ Len(d) \in Nat
    BY LenProperties
  <1> DEFINE x == SubSeq(d, 1, n)
  <1>2. x \in Seq(S) /\ Len(x) = n /\ \A i \in 1 .. n : x[i] = d[i]
    <2>1. \A i \in 1 .. n : d[i] \in S
      BY <1>1, ElementOfSeq
    <2>2. /\ x \in Seq(S) /\ Len(x) = IF 1 <= n THEN n - 1 + 1 ELSE 0
          /\ \A i \in 1 .. n - 1 + 1 : x[i] = d[1 + i - 1]
      BY <2>1, <1>1, SubSeqProperties
    <2>3. n \in Nat /\ n - 1 + 1 = n
      BY <1>1
    <2> HIDE DEF x
    <2>4. Len(x) = n
      BY <2>2, <2>3
    <2>5. ASSUME NEW i \in 1 .. n PROVE x[i] = d[i]
      <3>1. i \in 1 .. n - 1 + 1 /\ 1 + i - 1 = i
        BY <2>3
      <3>2. QED
        BY <2>2, <3>1
    <2>6. QED
      BY <2>2, <2>4, <2>5
  <1>3. /\ d1 \in Seq(S) /\ Len(d1) = Len(d) - n
        /\ \A i \in 1 .. Len(d) - n : d1[i] = d[n + i]
    BY RestIs
  <1> HIDE DEF x
  <1>4. /\ b1 \in Seq(S) /\ Len(b1) = Len(b) + n
        /\ \A i \in 1 .. Len(b) + n : b1[i] = IF i <= Len(b) THEN b[i] ELSE x[i - Len(b)]
    BY <1>2, ConcatProperties DEF x
  <1>9. n \in Nat /\ Len(b1) = Len(b) + n /\ Len(d1) = Len(d) - n
    BY <1>1, <1>3, <1>4
  <1>5. ASSUME NEW i \in 1 .. Len(b1) PROVE b1[i] = p[m + Len(a) + i]
    <2>1. CASE i <= Len(b)
      BY <2>1, <1>1, <1>4 DEF Follow
    <2>2. CASE i > Len(b)
      <3>1. i - Len(b) \in 1 .. n
        BY <2>2, <1>1, <1>4
      <3>2. i - Len(b) \in 1 .. Len(d)
        BY <3>1, <1>1
      <3>3. b1[i] = d[i - Len(b)]
        BY <1>1, <1>2, <1>4, <2>2, <3>1
      <3>4. d[i - Len(b)] = p[m + Len(a) + Len(b) + (i - Len(b))]
        BY <3>2 DEF Follow
      <3>5. m + Len(a) + Len(b) + (i - Len(b)) = m + Len(a) + i
        BY <1>1, <1>4
      <3>6. QED
        BY <3>3, <3>4, <3>5
    <2>3. QED
      BY <1>1, <1>4, <2>1, <2>2
  <1>6. ASSUME NEW i \in 1 .. Len(d1) PROVE d1[i] = p[m + Len(a) + Len(b1) + i]
    <2>1. n + i \in 1 .. Len(d) /\ d1[i] = d[n + i]
      BY <1>1, <1>3
    <2>2. d[n + i] = p[m + Len(a) + Len(b) + (n + i)]
      BY <2>1 DEF Follow
    <2>3. m + Len(a) + Len(b) + (n + i) = m + Len(a) + Len(b1) + i
      BY ONLY <1>1, <1>9, m \in Nat, i \in 1 .. Len(d1)
    <2>4. QED
      BY <2>1, <2>2, <2>3
  <1>7. Len(a) + Len(b1) + Len(d1) = Len(p) - m
    <2>1. Len(a) + Len(b) + Len(d) = Len(p) - m
      BY DEF Follow
    <2>2. QED
      BY ONLY <1>1, <1>9, <2>1, m \in Nat, Len(p) \in Nat
  <1>8. QED
    BY <1>3, <1>4, <1>5, <1>6, <1>7 DEF Follow

LEMMA HeldArrives ==
    ASSUME NEW r, NEW k, NEW b, NEW d, NEW w, NEW c, NEW o, NEW e,
           Held(r, k, b, d, w, c, o, e), NEW n \in 0 .. Len(d),
           NEW b1, b1 = b \o SubSeq(d, 1, n), NEW d1, d1 = SubSeq(d, n + 1, Len(d))
    PROVE  Held(r, k, b1, d1, w, c, o, e)
  <1> DEFINE p == r.pieces
             S == ToSet(p)
  <1>1. /\ IsRequest(r) /\ k \in ClientType(S) /\ b \in Seq(S) /\ d \in Seq(S)
        /\ w \in Seq(Item) /\ o \in Nat /\ e \in Nat
        /\ Reads(r, k, b, d, w, c) \/ Shows(r, k, w, c) \/ Talks(r, k, w, c, o, e)
    BY DEF Held
  <1>2. p \in Seq(S) /\ Len(p) \in Nat /\ Len(d) \in Nat /\ k.rbuf \in Seq(S)
    BY <1>1, RequestShape, LenProperties DEF Shaped, ClientType
  <1> HIDE DEF S
  <1>3. b1 \in Seq(S) /\ d1 \in Seq(S)
    <2>1. SubSeq(d, 1, n) \in Seq(S)
      <3>1. \A i \in 1 .. n : d[i] \in S
        BY <1>1, <1>2, ElementOfSeq
      <3>2. QED
        BY <3>1, <1>2, SubSeqProperties
    <2>2. \A i \in n + 1 .. Len(d) : d[i] \in S
      BY <1>1, <1>2, ElementOfSeq
    <2>3. d1 \in Seq(S)
      BY <2>2, <1>2, SubSeqProperties
    <2>4. QED
      BY <1>1, <2>1, <2>3, ConcatProperties
  <1>4. ASSUME Reads(r, k, b, d, w, c) PROVE Reads(r, k, b1, d1, w, c)
    <2>1. PICK m \in 0 .. Len(p) : Heard(k, p, m) /\ Follow(p, m, k.rbuf, b, d)
      BY <1>4 DEF Reads
    <2>2. m \in Nat
      BY <1>2
    <2>3. Follow(p, m, k.rbuf, b1, d1)
      BY <1>1, <1>2, <2>1, <2>2, FollowArrives
    <2>4. QED
      BY <1>4, <2>1, <2>3 DEF Reads
  <1>5. QED
    BY <1>1, <1>3, <1>4 DEF Held, S

(* The server reads it.                                                    *)
ReadInto(k, b) == [k EXCEPT !.rbuf = k.rbuf \o b]

LEMMA HeldReads ==
    ASSUME NEW r, NEW k, NEW b, NEW d, NEW w, NEW c, NEW o, NEW e,
           Held(r, k, b, d, w, c, o, e), NEW k1, k1 = ReadInto(k, b)
    PROVE  Held(r, k1, <<>>, d, w, c, o, e) /\ k1.wbuf = k.wbuf
  <1> DEFINE p == r.pieces
             S == ToSet(p)
             a1 == k.rbuf \o b
  <1>1. /\ IsRequest(r) /\ k \in ClientType(S) /\ b \in Seq(S) /\ d \in Seq(S)
        /\ w \in Seq(Item) /\ o \in Nat /\ e \in Nat
        /\ Reads(r, k, b, d, w, c) \/ Shows(r, k, w, c) \/ Talks(r, k, w, c, o, e)
    BY DEF Held
  <1> HIDE DEF S
  <1>2. p \in Seq(S) /\ Len(p) \in Nat /\ Len(d) \in Nat /\ Len(b) \in Nat
        /\ k.rbuf \in Seq(S) /\ Len(k.rbuf) \in Nat
    BY <1>1, RequestShape, LenProperties DEF Shaped, ClientType, S
  <1>3. /\ a1 \in Seq(S) /\ Len(a1) = Len(k.rbuf) + Len(b)
        /\ \A i \in 1 .. Len(k.rbuf) + Len(b) :
                a1[i] = IF i <= Len(k.rbuf) THEN k.rbuf[i] ELSE b[i - Len(k.rbuf)]
    BY <1>1, <1>2, ConcatProperties
  <1>0. k1 = [k EXCEPT !.rbuf = a1]
    BY DEF ReadInto
  <1> HIDE DEF a1
  <1>4. k1 \in ClientType(S) /\ k1.rbuf = a1
        /\ \A f \in {"wbuf", "buf", "bioChunked", "ws", "done", "route", "method", "version",
                     "path", "handshake", "clen", "reqdone", "invalid", "chunked"} : k1[f] = k[f]
    BY <1>0, <1>1, <1>3 DEF ClientType
  <1>5. ASSUME Reads(r, k, b, d, w, c) PROVE Reads(r, k1, <<>>, d, w, c)
    <2>1. PICK m \in 0 .. Len(p) : Heard(k, p, m) /\ Follow(p, m, k.rbuf, b, d)
      BY <1>5 DEF Reads
    <2>2. Heard(k1, p, m)
      BY <1>4, <2>1 DEF Heard
    <2>3. Follow(p, m, a1, <<>>, d)
      <3>0. Len(<<>>) = 0 /\ \A i \in 1 .. 0 : FALSE
        OBVIOUS
      <3>1. Len(a1) + Len(<<>>) + Len(d) = Len(p) - m
        BY <1>2, <1>3, <2>1 DEF Follow
      <3>2. ASSUME NEW i \in 1 .. Len(a1) PROVE a1[i] = p[m + i]
        <4>1. CASE i <= Len(k.rbuf)
          BY <4>1, <1>2, <1>3, <2>1 DEF Follow
        <4>2. CASE i > Len(k.rbuf)
          <5>1. i - Len(k.rbuf) \in 1 .. Len(b)
            BY <4>2, <1>2, <1>3
          <5>2. a1[i] = b[i - Len(k.rbuf)]
            BY <4>2, <1>2, <1>3
          <5>3. b[i - Len(k.rbuf)] = p[m + Len(k.rbuf) + (i - Len(k.rbuf))]
            BY <5>1, <2>1 DEF Follow
          <5>6. m \in Int /\ i \in Int /\ Len(k.rbuf) \in Int
            BY <1>2, <1>3
          <5>4. m + Len(k.rbuf) + (i - Len(k.rbuf)) = m + i
            <6>1. \A x, y, z \in Int : x + y + (z - y) = x + z
              OBVIOUS
            <6>2. QED
              BY ONLY <5>6, <6>1, Zenon
          <5>5. QED
            BY <5>2, <5>3, <5>4
        <4>3. QED
          BY <1>2, <1>3, <4>1, <4>2
      <3>3. ASSUME NEW i \in 1 .. Len(d) PROVE d[i] = p[m + Len(a1) + Len(<<>>) + i]
        <4>1. d[i] = p[m + Len(k.rbuf) + Len(b) + i]
          BY <2>1 DEF Follow
        <4>2. m + Len(k.rbuf) + Len(b) + i = m + Len(a1) + Len(<<>>) + i
          BY <1>2, <1>3
        <4>3. QED
          BY <4>1, <4>2
      <3>4. QED
        BY <3>0, <3>1, <3>2, <3>3 DEF Follow
    <2>4. QED
      BY <1>4, <1>5, <2>1, <2>2, <2>3 DEF Reads
  <1>6. Shows(r, k, w, c) => Shows(r, k1, w, c)
    BY <1>4 DEF Shows
  <1>7. Talks(r, k, w, c, o, e) => Talks(r, k1, w, c, o, e)
    BY <1>4 DEF Talks
  <1>8. <<>> \in Seq(S)
    BY EmptySeq
  <1>9. QED
    BY <1>1, <1>4, <1>5, <1>6, <1>7, <1>8 DEF Held, S
(* A piece is taken out of the buffer and written.                         *)
LEMMA Passes ==
    ASSUME NEW w \in Seq(Item), NEW s \in Seq(Item), s # <<>>
    PROVE  /\ Append(w, Head(s)) \in Seq(Item) /\ Tail(s) \in Seq(Item)
           /\ Append(w, Head(s)) \o Tail(s) = w \o s
  <1> DEFINE h == Head(s)
             t == Tail(s)
             w1 == Append(w, h)
  <1>1. /\ h \in Item /\ t \in Seq(Item) /\ Len(t) = Len(s) - 1
        /\ \A i \in 1 .. Len(t) : t[i] = s[i + 1]
    BY HeadTailProperties
  <1>2. Len(w) \in Nat /\ Len(s) \in Nat \ {0} /\ h = s[1]
    BY LenProperties, EmptySeq
  <1> HIDE DEF h, t
  <1>3. /\ w1 \in Seq(Item) /\ Len(w1) = Len(w) + 1 /\ w1[Len(w) + 1] = h
        /\ \A i \in 1 .. Len(w) : w1[i] = w[i]
    BY <1>1, <1>2, AppendProperties
  <1> HIDE DEF w1
  <1>4. /\ w1 \o t \in Seq(Item) /\ Len(w1 \o t) = Len(w1) + Len(t)
        /\ \A i \in 1 .. Len(w1) + Len(t) :
                (w1 \o t)[i] = IF i <= Len(w1) THEN w1[i] ELSE t[i - Len(w1)]
    BY <1>1, <1>3, ConcatProperties
  <1>5. /\ w \o s \in Seq(Item) /\ Len(w \o s) = Len(w) + Len(s)
        /\ \A i \in 1 .. Len(w) + Len(s) :
                (w \o s)[i] = IF i <= Len(w) THEN w[i] ELSE s[i - Len(w)]
    BY ConcatProperties
  <1>6. Len(w1 \o t) = Len(w \o s)
    BY <1>1, <1>2, <1>3, <1>4, <1>5
  <1>7. ASSUME NEW i \in 1 .. Len(w1 \o t) PROVE (w1 \o t)[i] = (w \o s)[i]
    <2>1. i \in 1 .. Len(w) \/ i = Len(w) + 1 \/ i \in Len(w) + 2 .. Len(w) + Len(s)
      BY <1>2, <1>5, <1>6
    <2>2. i \in 1 .. Len(w1) + Len(t) /\ i \in 1 .. Len(w) + Len(s)
      BY <1>4, <1>5, <1>6
    <2>3. CASE i \in 1 .. Len(w)
      BY <2>2, <2>3, <1>2, <1>3, <1>4, <1>5
    <2>4. CASE i = Len(w) + 1
      <3>1. (w1 \o t)[i] = h
        BY <2>2, <2>4, <1>2, <1>3, <1>4
      <3>2. i - Len(w) = 1 /\ ~(i <= Len(w))
        BY <2>4, <1>2
      <3>3. (w \o s)[i] = s[1]
        BY <2>2, <3>2, <1>5
      <3>4. QED
        BY <3>1, <3>3, <1>2
    <2>5. CASE i \in Len(w) + 2 .. Len(w) + Len(s)
      <3>1. ~(i <= Len(w1)) /\ ~(i <= Len(w)) /\ i - Len(w1) \in 1 .. Len(t)
        BY <2>5, <1>1, <1>2, <1>3
      <3>2. (i - Len(w1)) + 1 = i - Len(w)
        BY <2>5, <1>2, <1>3
      <3>3. (w1 \o t)[i] = t[i - Len(w1)] /\ (w \o s)[i] = s[i - Len(w)]
        BY <2>2, <3>1, <1>4, <1>5
      <3>4. t[i - Len(w1)] = s[(i - Len(w1)) + 1]
        BY <3>1, <1>1
      <3>5. QED
        BY <3>2, <3>3, <3>4
    <2>6. QED
      BY <2>1, <2>3, <2>4, <2>5
  <1>8. w1 \o t = w \o s
    BY <1>4, <1>5, <1>6, <1>7, SeqEqual
  <1>9. QED
    BY <1>1, <1>3, <1>8 DEF w1, h, t

LEMMA HeldWrites ==
    ASSUME NEW r, NEW k, NEW b, NEW d, NEW w, NEW c, NEW o, NEW e,
           Held(r, k, b, d, w, c, o, e), k.wbuf # <<>>,
           NEW k1, k1 = [k EXCEPT !.wbuf = Tail(k.wbuf)],
           NEW w1, w1 = Append(w, Head(k.wbuf))
    PROVE  Held(r, k1, b, d, w1, c, o, e) /\ k1.wbuf = Tail(k.wbuf)
  <1> DEFINE S == ToSet(r.pieces)
  <1>1. /\ k \in ClientType(S) /\ w \in Seq(Item)
        /\ Shows(r, k, w, c) \/ Talks(r, k, w, c, o, e)
    BY DEF Held, Reads
  <1>2. k.wbuf \in Seq(Item)
    BY <1>1 DEF ClientType
  <1>3. w1 \in Seq(Item) /\ Tail(k.wbuf) \in Seq(Item) /\ w1 \o Tail(k.wbuf) = w \o k.wbuf
    BY <1>1, <1>2, Passes
  <1> HIDE DEF S
  <1>4. /\ k1 \in ClientType(S) /\ k1.wbuf = Tail(k.wbuf)
        /\ \A f \in {"bioChunked", "ws", "done", "route"} : k1[f] = k[f]
    BY <1>1, <1>3 DEF ClientType
  <1>5. k1.wbuf = Tail(k.wbuf) /\ w1 \o k1.wbuf = w \o k.wbuf
    BY <1>3, <1>4
  <1>6. Shows(r, k, w, c) => Shows(r, k1, w1, c)
    BY <1>4, <1>5 DEF Shows
  <1>7. Talks(r, k, w, c, o, e) => Talks(r, k1, w1, c, o, e)
    BY <1>4, <1>5 DEF Talks
  <1>8. QED
    BY <1>1, <1>3, <1>4, <1>6, <1>7 DEF Held, S

(* The same of what a connection holds, for every value.                   *)
LEMMA WritesAreHeld ==
    \A r, k, b, d, w, c, o, e :
        Held(r, k, b, d, w, c, o, e) /\ k.wbuf # <<>> =>
            Held(r, [k EXCEPT !.wbuf = Tail(k.wbuf)], b, d, Append(w, Head(k.wbuf)), c, o, e)
  <1> SUFFICES ASSUME NEW r, NEW k, NEW b, NEW d, NEW w, NEW c, NEW o, NEW e,
                      Held(r, k, b, d, w, c, o, e), k.wbuf # <<>>
               PROVE  Held(r, [k EXCEPT !.wbuf = Tail(k.wbuf)], b, d,
                           Append(w, Head(k.wbuf)), c, o, e)
    OBVIOUS
  <1> DEFINE k1 == [k EXCEPT !.wbuf = Tail(k.wbuf)]
             w1 == Append(w, Head(k.wbuf))
  <1>1. k1 = [k EXCEPT !.wbuf = Tail(k.wbuf)] /\ w1 = Append(w, Head(k.wbuf))
    OBVIOUS
  <1> HIDE DEF k1, w1
  <1>2. Held(r, k1, b, d, w1, c, o, e)
    BY <1>1, HeldWrites
  <1>3. QED
    BY ONLY <1>1, <1>2

(* It parses what it has read.                                             *)
LEMMA HeldParses ==
    ASSUME NEW r, NEW k, NEW b, NEW d, NEW w, NEW c, NEW o, NEW e,
           Held(r, k, b, d, w, c, o, e), k.route = "none",
           NEW k1, k1 = Parse(k), ~k1.invalid
    PROVE  /\ Held(r, k1, b, d, w, c, o, e) /\ k1.wbuf = <<>> /\ ~k1.done
           /\ Reads(r, k1, b, d, w, c)
  <1> DEFINE p == r.pieces
             S == ToSet(p)
  <1>1. /\ IsRequest(r) /\ k \in ClientType(S) /\ b \in Seq(S) /\ d \in Seq(S)
        /\ w \in Seq(Item) /\ o \in Nat /\ e \in Nat /\ Reads(r, k, b, d, w, c)
    BY DEF Held, Shows, Talks
  <1>2. PICK m \in 0 .. Len(p) : Heard(k, p, m) /\ Follow(p, m, k.rbuf, b, d)
    BY <1>1 DEF Reads
  <1>3. Shaped(p)
    BY <1>1, RequestShape
  <1>4. /\ k1 \in ClientType(S)
        /\ \E n \in Nat : Heard(k1, p, n) /\ Follow(p, n, k1.rbuf, b, d)
        /\ \A f \in {"wbuf", "buf", "bioChunked", "ws", "done", "route"} : k1[f] = k[f]
    <2> HIDE DEF p
    <2>1. QED
      BY <1>1, <1>2, <1>3, ParseHears
  <1>5. PICK n \in Nat : Heard(k1, p, n) /\ Follow(p, n, k1.rbuf, b, d)
    BY <1>4
  <1>6. n \in 0 .. Len(p)
    BY <1>5 DEF Heard
  <1>7. Reads(r, k1, b, d, w, c)
    BY <1>1, <1>4, <1>5, <1>6 DEF Reads
  <1>8. k1.wbuf = <<>> /\ ~k1.done
    BY <1>7 DEF Reads
  <1>9. QED
    BY <1>1, <1>4, <1>7, <1>8 DEF Held

(* The request is complete, and its route is called.                       *)
LEMMA HeldDispatches ==
    ASSUME NEW r, NEW k, NEW b, NEW d, NEW w, NEW c, NEW o, NEW e,
           Held(r, k, b, d, w, c, o, e), Reads(r, k, b, d, w, c),
           k.reqdone, ~BodyMissing(k), NEW k1, k1 = RouteDispatch(k),
           NEW c1, c1 = c + (IF IsCommand(k) THEN 1 ELSE 0),
           NEW o1, o1 = IF InitWs(k) THEN e ELSE o
    PROVE  Held(r, k1, b, d, w, c1, o1, e)
  <1> DEFINE p == r.pieces
             S == ToSet(p)
  <1>1. /\ IsRequest(r) /\ k \in ClientType(S) /\ b \in Seq(S) /\ d \in Seq(S)
        /\ w \in Seq(Item) /\ o \in Nat /\ e \in Nat
    BY DEF Held
  <1>2. PICK m \in 0 .. Len(p) : Heard(k, p, m) /\ Follow(p, m, k.rbuf, b, d)
    BY DEF Reads
  <1>3. /\ k.wbuf = <<>> /\ k.buf = <<>> /\ ~k.ws /\ ~k.done /\ w = <<>> /\ c = 0
    BY DEF Reads
  <1>4. Owes(r, k)
    <2> HIDE DEF S
    <2>1. S = ToSet(p) /\ p = r.pieces
      BY DEF S
    <2> HIDE DEF p
    <2>2. QED
      BY <1>1, <1>2, <2>1, DueIsKnown
  <1>5. /\ k1 \in ClientType(S) /\ r.commands = IF IsCommand(k) THEN 1 ELSE 0
        /\ InitWs(k) => Accepted(r, k1)
        /\ ~InitWs(k) => Replied(r, k1)
    <2> HIDE DEF S
    <2>1. QED
      BY <1>1, <1>3, <1>4, DispatchAnswers
  <1>6. c1 = r.commands
    BY <1>3, <1>5
  <1>7. w \o k1.wbuf = k1.wbuf
    <2>1. k1.wbuf \in Seq(Item)
      BY <1>5 DEF ClientType
    <2>2. QED
      BY <1>3, <2>1, ConcatEmptySeq
  <1>8. CASE InitWs(k)
    <2> DEFINE s == k1.wbuf
    <2>1. IsOpening(s)
      BY <1>5, <1>8 DEF Accepted
    <2>2. o1 = e
      BY <1>8
    <2>3. /\ r.code = 101 /\ k1.route = "ws" /\ k1.ws /\ ~k1.done /\ ~k1.bioChunked
          /\ k1 \in ClientType(S)
      BY <1>5, <1>8 DEF Accepted
    <2> HIDE DEF s
    <2>4. IsTalk(s, o1) /\ Len(s) > 0 /\ Cardinality(ToldAt(s)) = 0
      BY ONLY <2>1, TalkStarts
    <2>5. Cardinality(ToldAt(s)) = e - o1
      BY <1>1, <2>2, <2>4
    <2>6. w \o k1.wbuf = s
      BY <1>7 DEF s
    <2>7. Talks(r, k1, w, c1, o1, e)
      BY <1>6, <2>3, <2>4, <2>5, <2>6 DEF Talks
    <2>8. QED
      BY <1>1, <2>2, <2>3, <2>7 DEF Held
  <1>9. CASE ~InitWs(k)
    <2>1. Shows(r, k1, w, c1)
      BY <1>5, <1>6, <1>7, <1>9 DEF Shows, Replied
    <2>2. o1 \in Nat
      BY <1>1, <1>9
    <2>3. QED
      BY <1>1, <1>5, <2>1, <2>2 DEF Held
  <1>10. QED
    BY <1>8, <1>9
Chats(r, k, w, c, o, e) ==
    Talks(r, k, w, c, o, e) /\ ~k.done /\ w \in Seq(Item) /\ o \in Nat /\ e \in Nat

(* A frame for a websocket: an answer to a ping, or the next event.        *)
Says(f, e, e1) ==
    /\ f \in Token /\ e1 \in Nat
    /\ \/ f = <<"pong">> /\ e1 = e
       \/ f = <<"event", e1>> /\ e1 = e + 1

LEMMA TalksOn ==
    ASSUME NEW S, NEW r, NEW k \in ClientType(S), NEW w, NEW c, NEW o, NEW e, NEW e1,
           Chats(r, k, w, c, o, e), NEW f, Says(f, e, e1), NEW k1, k1 = Frame(k, f)
    PROVE  k1 \in ClientType(S) /\ Talks(r, k1, w, c, o, e1) /\ k1.wbuf # <<>>
  <1> DEFINE s == w \o k.wbuf
             n == Cardinality(ToldAt(s))
             item == <<"data", <<f>>>>
             u == Append(k.wbuf, item)
  <1>0. /\ Talks(r, k, w, c, o, e) /\ ~k.done
        /\ w \in Seq(Item) /\ o \in Nat /\ e \in Nat /\ e1 \in Nat
    BY DEF Chats, Says
  <1>1. /\ IsTalk(s, o) /\ Len(s) > 0 /\ n = e - o /\ ~k.bioChunked
        /\ r.code = 101 /\ c = r.commands /\ k.route = "ws" /\ k.ws
    BY <1>0 DEF Talks
  <1>2. k.wbuf \in Seq(Item) /\ item \in Item
    BY ItemsAre DEF ClientType, Says
  <1>3. k1 = [k EXCEPT !.wbuf = u]
    <2>1. <<f>> # <<>>
      OBVIOUS
    <2>2. QED
      BY <1>1, <2>1 DEF Frame, Compose
  <1>4. f \in Token /\ (f = <<"pong">> \/ f = <<"event", o + n + 1>>)
    <2>1. o + n + 1 = e + 1
      BY <1>0, <1>1
    <2> HIDE DEF n
    <2>2. QED
      BY <2>1 DEF Says
  <1>6. w \o u = Append(s, item) /\ u \in Seq(Item) /\ u # <<>>
    <2> HIDE DEF item
    <2>1. w \o Append(k.wbuf, item) = Append(w \o k.wbuf, item)
      <3> DEFINE y == k.wbuf
      <3>1. w \in Seq(Item) /\ y \in Seq(Item) /\ item \in Item
        BY <1>0, <1>2
      <3> HIDE DEF y
      <3>2. w \o Append(y, item) = Append(w \o y, item)
        BY ONLY <3>1
      <3>3. QED
        BY <3>2 DEF y
    <2>2. u \in Seq(Item) /\ Len(u) = Len(k.wbuf) + 1
      BY <1>2, AppendProperties
    <2>3. Len(k.wbuf) \in Nat
      BY <1>2, LenProperties
    <2>4. u # <<>>
      <3> HIDE DEF u
      <3>1. QED
        BY <2>2, <2>3
    <2>5. QED
      BY <2>1, <2>2, <2>4
  <1> HIDE DEF u
  <1>7. /\ k1 \in ClientType(S) /\ k1.wbuf = u /\ k1.rbuf = k.rbuf
        /\ \A g \in {"bioChunked", "ws", "done", "route"} : k1[g] = k[g]
    BY <1>3, <1>6 DEF ClientType
  <1> DEFINE t == w \o u
  <1>8. t = Append(s, item)
    BY <1>6
  <1> HIDE DEF s, t
  <1>9. GoesOn(s, o, f, t)
    BY <1>4, <1>8 DEF GoesOn
  <1>5. /\ IsTalk(t, o) /\ Len(t) > 0 /\ n \in Nat
        /\ Cardinality(ToldAt(t)) = n + (IF f[1] = "event" THEN 1 ELSE 0)
    BY <1>0, <1>1, <1>9, TalkGoesOn
  <1>13. e1 - o = n + (IF f[1] = "event" THEN 1 ELSE 0)
    <2> HIDE DEF n
    <2>1. CASE f = <<"pong">> /\ e1 = e
      <3>1. f[1] # "event"
        BY <2>1
      <3>2. QED
        BY <1>0, <1>1, <1>5, <2>1, <3>1
    <2>2. CASE f = <<"event", e1>> /\ e1 = e + 1
      <3>1. f[1] = "event"
        BY <2>2
      <3>2. QED
        BY <1>0, <1>1, <1>5, <2>2, <3>1
    <2>3. QED
      BY <2>1, <2>2 DEF Says
  <1>10. w \o k1.wbuf = t
    BY <1>7 DEF t
  <1> HIDE DEF n
  <1>11. Talks(r, k1, w, c, o, e1)
    BY <1>0, <1>1, <1>5, <1>7, <1>10, <1>13 DEF Talks
  <1>12. QED
    BY <1>6, <1>7, <1>11

(* A frame of a websocket is read.                                         *)
LEMMA HeldFrames ==
    ASSUME NEW r, NEW k, NEW b, NEW d, NEW w, NEW c, NEW o, NEW e,
           Held(r, k, b, d, w, c, o, e), k.route = "ws", ~k.done,
           NEW k1, k1 = HandleWs(k)
    PROVE  Held(r, k1, b, d, w, c, o, e)
  <1> DEFINE S == ToSet(r.pieces)
  <1>1. /\ k \in ClientType(S) /\ w \in Seq(Item) /\ o \in Nat /\ e \in Nat
        /\ Talks(r, k, w, c, o, e)
    BY DEF Held, Reads, Shows
  <1> HIDE DEF S
  <1>2. ASSUME k1 \in ClientType(S), Talks(r, k1, w, c, o, e)
        PROVE  Held(r, k1, b, d, w, c, o, e)
    BY <1>2 DEF Held, S
  <1>3. CASE k.rbuf = <<>> \/ k.rbuf = <<<<"part">>>>
    BY <1>3 DEF HandleWs
  <1>4. CASE ~(k.rbuf = <<>> \/ k.rbuf = <<<<"part">>>>)
    <2> DEFINE n == IF Head(k.rbuf) = <<"part">> THEN 2 ELSE 1
               rest == SubSeq(k.rbuf, n + 1, Len(k.rbuf))
               read == [k EXCEPT !.rbuf = rest]
    <2>1. \/ k1 = Frame(read, <<"pong">>) \/ k1 = [read EXCEPT !.done = TRUE]
          \/ k1 = [k EXCEPT !.done = TRUE] \/ k1 = read
      <3>1. k1 = CASE k.rbuf[n] = <<"ping">>  -> Frame(read, <<"pong">>)
                   [] k.rbuf[n] = <<"close">> -> [read EXCEPT !.done = TRUE]
                   [] k.rbuf[n] = <<"unmasked">> -> [k EXCEPT !.done = TRUE]
                   [] OTHER -> read
        BY <1>4 DEF HandleWs
      <3> HIDE DEF n, read
      <3>2. QED
        BY <3>1
    <2>2. rest \in Seq(S)
      <3>1. k.rbuf \in Seq(S) /\ n \in {1, 2}
        BY <1>1 DEF ClientType
      <3>2. Len(k.rbuf) \in Nat
        BY <3>1, LenProperties
      <3> HIDE DEF n
      <3>3. \A i \in n + 1 .. Len(k.rbuf) : k.rbuf[i] \in S
        BY <3>1, <3>2, ElementOfSeq
      <3>4. n + 1 \in Int /\ Len(k.rbuf) \in Int
        BY <3>1, <3>2
      <3>5. QED
        BY <3>3, <3>4, SubSeqProperties
    <2> HIDE DEF rest
    <2>3. /\ read \in ClientType(S) /\ ~read.done
          /\ \A g \in {"wbuf", "bioChunked", "ws", "route"} : read[g] = k[g]
      BY <1>1, <2>2 DEF ClientType
    <2> HIDE DEF read
    <2>4. Talks(r, read, w, c, o, e)
      BY <1>1, <2>3 DEF Talks
    <2>5. CASE k1 = Frame(read, <<"pong">>)
      <3>1. <<"pong">> \in Token
        BY DEF Token
      <3>6. Says(<<"pong">>, e, e)
        BY <1>1, <3>1, Zenon DEF Says
      <3>2. PICK f : f = <<"pong">> /\ Says(f, e, e)
        BY <3>6
      <3>7. Chats(r, read, w, c, o, e)
        BY <1>1, <2>3, <2>4 DEF Chats
      <3>3. k1 = Frame(read, f)
        BY <2>5, <3>2
      <3>4. k1 \in ClientType(S) /\ Talks(r, k1, w, c, o, e)
        BY <2>3, <3>2, <3>3, <3>7, TalksOn
      <3>5. QED
        BY <1>2, <3>4
    <2>6. CASE k1 = [read EXCEPT !.done = TRUE]
      <3>1. /\ k1 \in ClientType(S) /\ k1.done
            /\ \A g \in {"wbuf", "bioChunked", "ws", "route"} : k1[g] = read[g]
        BY <2>3, <2>6 DEF ClientType
      <3>2. Talks(r, k1, w, c, o, e)
        BY <2>4, <3>1 DEF Talks
      <3>3. QED
        BY <1>2, <3>1, <3>2
    <2>7. CASE k1 = [k EXCEPT !.done = TRUE]
      <3>1. /\ k1 \in ClientType(S) /\ k1.done
            /\ \A g \in {"wbuf", "bioChunked", "ws", "route"} : k1[g] = k[g]
        BY <1>1, <2>7 DEF ClientType
      <3>2. Talks(r, k1, w, c, o, e)
        BY <1>1, <3>1 DEF Talks
      <3>3. QED
        BY <1>2, <3>1, <3>2
    <2>8. QED
      BY <1>2, <2>1, <2>3, <2>4, <2>5, <2>6, <2>7
  <1>5. QED
    BY <1>3, <1>4

(* The websockets are told of an event.                                    *)
LEMMA HeldTells ==
    ASSUME NEW r, NEW k, NEW b, NEW d, NEW w, NEW c, NEW o, NEW e,
           Held(r, k, b, d, w, c, o, e), NEW e1, e1 = e + 1,
           NEW k1, k1 = IF k.ws /\ ~k.done THEN Frame(k, <<"event", e1>>) ELSE k
    PROVE  Held(r, k1, b, d, w, c, o, e1) /\ (k.ws /\ ~k.done => k1.wbuf # <<>>)
  <1> DEFINE S == ToSet(r.pieces)
  <1>1. /\ k \in ClientType(S) /\ w \in Seq(Item) /\ o \in Nat /\ e \in Nat /\ e1 \in Nat
    BY DEF Held
  <1> HIDE DEF S
  <1>2. CASE k.ws /\ ~k.done
    <2>1. Talks(r, k, w, c, o, e)
      BY <1>2 DEF Held, Reads, Shows
    <2>2. <<"event", e1>> \in Token
      <3>1. <<"event", e1>> \in {"event"} \X Nat
        BY <1>1
      <3>2. QED
        BY <3>1 DEF Token
    <2>8. Says(<<"event", e1>>, e, e1)
      BY <1>1, <2>2, Zenon DEF Says
    <2>3. PICK f : f = <<"event", e1>> /\ Says(f, e, e1)
      BY <2>8
    <2>4. k1 = Frame(k, f)
      BY <1>2, <2>3
    <2>7. Chats(r, k, w, c, o, e)
      BY <1>1, <1>2, <2>1 DEF Chats
    <2>5. k1 \in ClientType(S) /\ Talks(r, k1, w, c, o, e1) /\ k1.wbuf # <<>>
      BY <1>1, <2>3, <2>4, <2>7, TalksOn
    <2>6. QED
      BY <1>1, <2>5 DEF Held, S
  <1>3. CASE ~(k.ws /\ ~k.done)
    <2>1. k1 = k
      BY <1>3
    <2>2. Talks(r, k, w, c, o, e) => Talks(r, k, w, c, o, e1)
      BY <1>3 DEF Talks
    <2>3. QED
      BY <1>1, <1>3, <2>1, <2>2 DEF Held
  <1>4. QED
    BY <1>2, <1>3
(* The server ends it.                                                     *)
LEMMA HeldEnds ==
    ASSUME NEW r, NEW k, NEW b, NEW d, NEW w, NEW c, NEW o, NEW e,
           Held(r, k, b, d, w, c, o, e)
    PROVE  /\ Ended(r, w, c, o, "peer") /\ Ended(r, w, c, o, "invalid")
           /\ k.done /\ k.wbuf = <<>> => Ended(r, w, c, o, "done")
  <1> DEFINE S == ToSet(r.pieces)
  <1>1. /\ k \in ClientType(S) /\ w \in Seq(Item)
        /\ Reads(r, k, b, d, w, c) \/ Shows(r, k, w, c) \/ Talks(r, k, w, c, o, e)
    BY DEF Held
  <1> HIDE DEF S
  <1>2. k.wbuf \in Seq(Item) /\ (k.wbuf = <<>> => w \o k.wbuf = w)
    BY <1>1, ConcatEmptySeq DEF ClientType
  <1>3. CASE Reads(r, k, b, d, w, c)
    <2>1. w = <<>> /\ ~k.done
      BY <1>3 DEF Reads
    <2>2. QED
      BY <1>1, <2>1 DEF Ended
  <1>4. CASE Shows(r, k, w, c)
    <2>1. IsAnswer(w \o k.wbuf, r) /\ c = r.commands /\ r.code # 101
      BY <1>4 DEF Shows
    <2>2. IsPart(w \o k.wbuf, r)
      BY <2>1 DEF IsAnswer
    <2>3. IsPart(w, r)
      BY <1>1, <1>2, <2>2, PartBegins
    <2>4. QED
      BY <1>1, <1>2, <2>1, <2>3 DEF Ended
  <1>5. CASE Talks(r, k, w, c, o, e)
    <2>1. IsTalk(w \o k.wbuf, o) /\ c = r.commands /\ r.code = 101
      BY <1>5 DEF Talks
    <2>2. IsTalk(w, o)
      BY <1>1, <1>2, <2>1, TalkBegins
    <2>3. QED
      BY <1>1, <2>1, <2>2 DEF Ended
  <1>6. QED
    BY <1>1, <1>3, <1>4, <1>5

-----------------------------------------------------------------------------
(* What a peer reads.                                                      *)
IsFramed(r, s, o) ==
    /\ s[1] = <<"head", r.code, s[1][3]>>
    /\ \A i \in 2 .. Len(s) : /\ s[i][1] = IF s[1][3] THEN "chunk" ELSE "data"
                              /\ s[i][2] = <<>> => i = Len(s)
    /\ IF r.code = 101
       THEN /\ ~s[1][3]
            /\ \A i \in 2 .. Len(s) : Len(s[i][2]) = 1
            /\ \A i \in ToldAt(s) :
                 s[i][2][1][2] = o + Cardinality({j \in ToldAt(s) : j <= i})
       ELSE IsPrefix(Payload(s), r.text)

LEMMA CutIsPrefix ==
    ASSUME NEW S, NEW text \in Seq(S), NEW n \in 0 .. Len(text)
    PROVE  IsPrefix(SubSeq(text, 1, n), text)
  <1> DEFINE u == SubSeq(text, 1, n)
  <1>1. Len(text) \in Nat /\ n \in Int /\ n \in Nat /\ n <= Len(text)
    BY LenProperties
  <1>2. \A i \in 1 .. n : text[i] \in S
    BY <1>1, ElementOfSeq
  <1>3. u \in Seq(S) /\ Len(u) = IF 1 <= n THEN n - 1 + 1 ELSE 0
    BY <1>1, <1>2, SubSeqProperties
  <1> HIDE DEF u
  <1>4. Len(u) = n
    BY <1>1, <1>3
  <1>5. SubSeq(u, 1, Len(u)) = u
    BY <1>3, SubSeqFull
  <1>6. SubSeq(u, 1, Len(u)) = SubSeq(text, 1, Len(u))
    BY <1>4, <1>5 DEF u
  <1>7. QED
    BY <1>1, <1>4, <1>6 DEF IsPrefix, u

LEMMA PartIsFramed ==
    ASSUME NEW r, NEW s, NEW o, IsPart(s, r), s # <<>>, r.code # 101
    PROVE  IsFramed(r, s, o)
  <1>1. /\ s \in Seq(Item) /\ r.text \in Seq(Token) /\ \E cut : Cuts(s, r.text, cut)
        /\ Len(s) > 0 => s[1] = <<"head", r.code, s[1][3]>>
        /\ \A i \in 2 .. Len(s) : /\ s[i][1] = IF s[1][3] THEN "chunk" ELSE "data"
                                  /\ s[i][2] = <<>> => i = Len(s)
    BY DEF IsPart
  <1>2. Len(s) \in Nat \ {0}
    BY <1>1, EmptySeq
  <1>3. PICK cut : Cuts(s, r.text, cut)
    BY <1>1
  <1>4. cut[Len(s)] \in 0 .. Len(r.text)
    BY <1>2, <1>3 DEF Cuts
  <1>5. Payload(s) = SubSeq(r.text, 1, cut[Len(s)])
    BY <1>1, <1>2, <1>3, PayloadIs
  <1>6. IsPrefix(Payload(s), r.text)
    BY <1>1, <1>4, <1>5, CutIsPrefix
  <1>7. QED
    BY <1>1, <1>2, <1>6 DEF IsFramed

LEMMA AnswerSays ==
    ASSUME NEW r, NEW s, IsAnswer(s, r)
    PROVE  /\ s \in Seq(Item) /\ s # <<>> /\ Payload(s) = r.text
           /\ s[1][3] => Last(s) = LastChunk
  <1>1. /\ s \in Seq(Item) /\ r.text \in Seq(Token) /\ Len(s) > 0
        /\ s[1][3] => s[Len(s)] = LastChunk
        /\ \E cut : Cuts(s, r.text, cut) /\ cut[Len(s)] = Len(r.text)
    BY DEF IsAnswer, IsPart
  <1>2. Len(s) \in Nat \ {0} /\ s # <<>>
    BY <1>1, LenProperties, EmptySeq
  <1>3. PICK cut : Cuts(s, r.text, cut) /\ cut[Len(s)] = Len(r.text)
    BY <1>1
  <1>4. Payload(s) = SubSeq(r.text, 1, Len(r.text))
    BY <1>1, <1>2, <1>3, PayloadIs
  <1>5. Payload(s) = r.text
    BY <1>1, <1>4, SubSeqFull
  <1>6. QED
    BY <1>1, <1>2, <1>5 DEF Last

LEMMA TalkIsFramed ==
    ASSUME NEW r, NEW s, NEW o, IsTalk(s, o), s # <<>>, r.code = 101
    PROVE  IsFramed(r, s, o)
  <1>1. Len(s) \in Nat \ {0}
    BY EmptySeq DEF IsTalk
  <1>2. s[1] = <<"head", 101, FALSE>>
    <2>1. Len(s) > 0
      BY <1>1
    <2>2. QED
      BY ONLY <2>1, IsTalk(s, o) DEF IsTalk
  <1>3. s[1][3] = FALSE
    BY <1>2
  <1>4. \A i \in 2 .. Len(s) : s[i][1] = "data" /\ Len(s[i][2]) = 1
    BY DEF IsTalk
  <1>5. ASSUME NEW i \in 2 .. Len(s) PROVE s[i][2] # <<>>
    <2>1. Len(s[i][2]) = 1 /\ Len(<<>>) = 0
      BY <1>4
    <2>2. QED
      BY <2>1
  <1>6. s[1] = <<"head", r.code, s[1][3]>>
    BY <1>2, <1>3
  <1>7. QED
    BY <1>3, <1>4, <1>5, <1>6 DEF IsFramed, IsTalk

(* What has been composed for a connection that is open is framed, and it  *)
(* is all that is due.                                                     *)
IsDue(r, k, s, c, o, e) ==
    /\ s # <<>> => IsFramed(r, s, o)
    /\ s # <<>> /\ r.code = 101 /\ k.ws /\ ~k.done => Cardinality(ToldAt(s)) = e - o
    /\ s # <<>> /\ r.code # 101 => Payload(s) = r.text
    /\ c = IF s # <<>> THEN r.commands ELSE 0

LEMMA HeldIsFramed ==
    ASSUME NEW r, NEW k, NEW b, NEW d, NEW w, NEW c, NEW o, NEW e,
           Held(r, k, b, d, w, c, o, e), NEW s, s = w \o k.wbuf
    PROVE  IsDue(r, k, s, c, o, e)
  <1>1. CASE Reads(r, k, b, d, w, c)
    <2>1. w = <<>> /\ k.wbuf = <<>> /\ c = 0
      BY <1>1 DEF Reads
    <2>2. <<>> \o <<>> = <<>>
      BY EmptySeq, ConcatEmptySeq
    <2>3. s = <<>>
      BY <2>1, <2>2
    <2>4. QED
      BY <2>1, <2>3 DEF IsDue
  <1>2. CASE Shows(r, k, w, c)
    <2>1. IsAnswer(s, r) /\ c = r.commands /\ r.code # 101
      BY <1>2 DEF Shows
    <2>2. s # <<>> /\ Payload(s) = r.text
      BY <2>1, AnswerSays
    <2>3. IsFramed(r, s, o)
      BY <2>1, <2>2, PartIsFramed DEF IsAnswer
    <2>4. QED
      BY <2>1, <2>2, <2>3 DEF IsDue
  <1>3. CASE Talks(r, k, w, c, o, e)
    <2>1. /\ IsTalk(s, o) /\ Len(s) > 0 /\ c = r.commands /\ r.code = 101
          /\ ~k.done => Cardinality(ToldAt(s)) = e - o
      BY <1>3 DEF Talks
    <2>2. s # <<>>
      BY <2>1
    <2>3. IsFramed(r, s, o)
      BY <2>1, <2>2, TalkIsFramed
    <2>4. QED
      BY <2>1, <2>2, <2>3 DEF IsDue
  <1>4. QED
    BY <1>1, <1>2, <1>3 DEF Held
-----------------------------------------------------------------------------
(* What holds at first, and what a step of one connection leaves.          *)

(* g is f but for c.                                                       *)
Only(f, g, c) == DOMAIN g = Conn /\ \A d \in Conn \ {c} : g[d] = f[d]

LEMMA ExceptOnly ==
    ASSUME NEW f, Over(f), NEW c \in Conn, NEW v
    PROVE  /\ Only(f, f, c) /\ Only(f, [f EXCEPT ![c] = v], c)
           /\ [f EXCEPT ![c] = v][c] = v
  BY DEF Over, Only

Touches(c) ==
    /\ Only(peer, peer', c) /\ Only(inbox, inbox', c) /\ Only(clt, clt', c)
    /\ Only(mask, mask', c) /\ Only(written, written', c) /\ Only(opened, opened', c)
    /\ Only(commands, commands', c) /\ Only(ended, ended', c)
    /\ UNCHANGED <<request, events>>

LEMMA OneSteps ==
    ASSUME WebInv, NEW c \in Conn, Touches(c), at = <<>> \/ at[1] = c \/ at' = at,
           AtInv', ConnInv(c)'
    PROVE  WebInv'
  <1>1. /\ Over(peer)' /\ Over(inbox)' /\ Over(clt)' /\ Over(mask)'
        /\ Over(written)' /\ Over(opened)' /\ Over(commands)' /\ Over(ended)'
    BY DEF Touches, Only, Over
  <1>2. ASSUME NEW d \in Conn, d # c PROVE ConnInv(d)'
    <2>1. ConnInv(d)
      BY DEF WebInv
    <2>2. /\ peer'[d] = peer[d] /\ inbox'[d] = inbox[d] /\ clt'[d] = clt[d]
          /\ mask'[d] = mask[d] /\ written'[d] = written[d] /\ opened'[d] = opened[d]
          /\ commands'[d] = commands[d] /\ ended'[d] = ended[d]
          /\ request' = request /\ events' = events
      BY <1>2 DEF Touches, Only
    <2>3. "W" \in mask[d] => clt[d].wbuf # <<>> \/ (at' # <<>> /\ at'[1] = d)
      BY <1>2, <2>1 DEF ConnInv
    <2>4. QED
      BY <2>1, <2>2, <2>3 DEF ConnInv
  <1>3. QED
    BY <1>1, <1>2 DEF WebInv

LEMMA WebStarts == WebConnInit => WebInv
  <1> SUFFICES ASSUME WebConnInit PROVE WebInv
    OBVIOUS
  <1>1. /\ Over(peer) /\ Over(inbox) /\ Over(clt) /\ Over(mask)
        /\ Over(written) /\ Over(opened) /\ Over(commands) /\ Over(ended)
    BY DEF WebConnInit, Over
  <1>2. AtInv
    BY DEF WebConnInit, AtInv
  <1>3. ASSUME NEW c \in Conn PROVE ConnInv(c)
    <2> DEFINE r == request[c]
    <2>1. IsRequest(r)
      BY RequestsAssumption DEF WebConnInit
    <2>2. r.pieces \in Seq(ToSet(r.pieces))
      BY <2>1, RequestShape DEF Shaped
    <2>3. /\ peer[c] = [left |-> r.pieces, is |-> "away"] /\ inbox[c] = <<>>
          /\ clt[c] = NewClient /\ mask[c] = {} /\ written[c] = <<>> /\ opened[c] = 0
          /\ commands[c] = 0 /\ ended[c] = "open" /\ events = 0
      BY DEF WebConnInit
    <2> HIDE DEF r
    <2>4. Held(r, NewClient, <<>>, r.pieces, <<>>, 0, 0, 0)
      BY <2>1, HeldStarts
    <2>5. /\ peer[c] \in [left : Seq(ToSet(r.pieces)),
                          is : {"away", "waiting", "here", "silent", "gone"}]
          /\ peer[c].left = r.pieces
      BY <2>2, <2>3
    <2>6. QED
      BY <2>3, <2>4, <2>5 DEF ConnInv, r
  <1>4. QED
    BY <1>1, <1>2, <1>3 DEF WebInv

-----------------------------------------------------------------------------
(* The server is at the client c.                                          *)
IsBusy(c) ==
    /\ at # <<>> /\ at[1] = c /\ ended[c] = "open"
    /\ Held(request[c], clt[c], inbox[c], peer[c].left, written[c], commands[c],
            opened[c], events)
    /\ peer[c] \in [left : Seq(ToSet(request[c].pieces)),
                    is : {"away", "waiting", "here", "silent", "gone"}]
    /\ at[2] \in {<<>>, <<"R">>} \cup ToWrite
    /\ at[2] \in ToWrite => clt[c].wbuf # <<>>

LEMMA BusyIs ==
    ASSUME WebInv, NEW c \in Conn, at # <<>>, at[1] = c
    PROVE  IsBusy(c)
  <1>1. PICK d \in Conn, todo \in {<<>>, <<"R">>} \cup ToWrite :
            /\ at = <<d, todo>> /\ ended[d] = "open"
            /\ todo \in ToWrite => clt[d].wbuf # <<>>
    BY DEF WebInv, AtInv
  <1>2. at[1] = d /\ at[2] = todo
    BY <1>1
  <1>3. c = d /\ ConnInv(c)
    BY <1>2 DEF WebInv
  <1>4. QED
    BY <1>1, <1>2, <1>3 DEF ConnInv, IsBusy

(* The server ends the client it is at.                                    *)
LEMMA EndKeeps ==
    ASSUME WebInv, NEW c \in Conn, IsBusy(c), NEW how, End(c, how),
           Ended(request[c], written[c], commands'[c], opened'[c], how),
           UNCHANGED <<peer, inbox, request, events>>,
           Only(commands, commands', c), Only(opened, opened', c)
    PROVE  WebInv'
  <1>1. /\ ended' = [ended EXCEPT ![c] = how] /\ clt' = [clt EXCEPT ![c] = NewClient]
        /\ mask' = [mask EXCEPT ![c] = {}] /\ at' = <<>> /\ written' = written
    BY DEF End
  <1>2. Over(ended) /\ Over(clt) /\ Over(mask) /\ Over(written) /\ Over(peer) /\ Over(inbox)
    BY DEF WebInv
  <1>3. Touches(c)
    BY <1>1, <1>2, ExceptOnly DEF Touches
  <1>4. ended'[c] = how /\ clt'[c] = NewClient /\ mask'[c] = {} /\ written'[c] = written[c]
    BY <1>1, <1>2, ExceptOnly
  <1>5. how # "open"
    BY DEF Ended
  <1>6. ConnInv(c)'
    BY <1>4, <1>5 DEF ConnInv, IsBusy
  <1>7. AtInv'
    BY <1>1 DEF AtInv
  <1>8. QED
    BY <1>3, <1>6, <1>7, OneSteps DEF IsBusy

(* It goes back to the loop, or ends a client that is done.                *)
LEMMA AgainKeeps ==
    ASSUME WebInv, NEW c \in Conn, IsBusy(c), NEW k, Again(c, k),
           Held(request[c], k, inbox[c], peer[c].left, written[c], commands'[c], opened'[c],
                events),
           UNCHANGED <<peer, inbox, request, events>>,
           Only(commands, commands', c), Only(opened, opened', c)
    PROVE  WebInv'
  <1>1. CASE k.wbuf = <<>> /\ k.done
    <2>1. Ended(request[c], written[c], commands'[c], opened'[c], "done")
      BY <1>1, HeldEnds
    <2>2. End(c, "done")
      BY <1>1 DEF Again
    <2>3. QED
      BY <2>1, <2>2, EndKeeps
  <1>2. CASE ~(k.wbuf = <<>> /\ k.done)
    <2> DEFINE m == {"R"} \cup IF k.wbuf # <<>> THEN {"W"} ELSE {}
    <2>1. /\ clt' = [clt EXCEPT ![c] = k] /\ mask' = [mask EXCEPT ![c] = m]
          /\ at' = <<>> /\ written' = written /\ ended' = ended
      BY <1>2 DEF Again
    <2>2. Over(ended) /\ Over(clt) /\ Over(mask) /\ Over(written) /\ Over(peer) /\ Over(inbox)
      BY DEF WebInv
    <2>3. "W" \in m => k.wbuf # <<>>
      OBVIOUS
    <2> HIDE DEF m
    <2>4. Touches(c)
      BY <2>1, <2>2, ExceptOnly DEF Touches
    <2>5. clt'[c] = k /\ mask'[c] = m
      BY <2>1, <2>2, ExceptOnly
    <2>6. ConnInv(c)'
      BY <2>1, <2>3, <2>5 DEF ConnInv, IsBusy
    <2>7. AtInv'
      BY <2>1 DEF AtInv
    <2>8. QED
      BY <2>4, <2>6, <2>7, OneSteps DEF IsBusy
  <1>3. QED
    BY <1>1, <1>2
-----------------------------------------------------------------------------
(* The steps.                                                              *)
PeerType(c) == [left : Seq(ToSet(request[c].pieces)),
                is : {"away", "waiting", "here", "silent", "gone"}]

(* The peer of c stands otherwise.                                         *)
LEMMA PeerStands ==
    ASSUME WebInv, NEW c \in Conn,
           NEW v \in {"away", "waiting", "here", "silent", "gone"},
           peer' = [peer EXCEPT ![c].is = v],
           UNCHANGED <<inbox, request, clt, mask, events, historyVars>>,
           at' = at \/ at = <<>>, AtInv'
    PROVE  WebInv'
  <1>1. /\ Over(peer) /\ Over(inbox) /\ Over(clt) /\ Over(mask)
        /\ Over(written) /\ Over(opened) /\ Over(commands) /\ Over(ended) /\ ConnInv(c)
    BY DEF WebInv
  <1>2. /\ Only(peer, peer', c) /\ peer'[c] = [peer[c] EXCEPT !.is = v]
    BY <1>1, ExceptOnly
  <1>3. Touches(c)
    BY <1>1, <1>2, ExceptOnly DEF Touches, historyVars
  <1>4. peer[c] \in PeerType(c)
    BY <1>1 DEF ConnInv, PeerType
  <1>5. peer'[c] \in PeerType(c) /\ peer'[c].left = peer[c].left
    BY <1>2, <1>4 DEF PeerType
  <1>6. "W" \in mask[c] => clt[c].wbuf # <<>> \/ (at' # <<>> /\ at'[1] = c)
    BY <1>1 DEF ConnInv
  <1>7. ConnInv(c)'
    BY <1>1, <1>5, <1>6 DEF ConnInv, PeerType, historyVars
  <1>8. QED
    BY <1>3, <1>7, OneSteps

LEMMA PeersKeep ==
    ASSUME WebInv, NEW c \in Conn, Peers(c)
    PROVE  WebInv'
  <1>1. CASE Connect(c) \/ Leave(c)
    <2>1. PICK v \in {"away", "waiting", "here", "silent", "gone"} :
                peer' = [peer EXCEPT ![c].is = v]
      BY <1>1 DEF Connect, Leave, PeerIs
    <2>2. UNCHANGED <<inbox, request, clt, mask, events, historyVars, at>>
      BY <1>1 DEF Connect, Leave, serverVars
    <2>3. AtInv'
      BY <2>2 DEF WebInv, AtInv, historyVars
    <2>4. QED
      BY <2>1, <2>2, <2>3, PeerStands
  <1>2. CASE Send(c)
    <2>1. /\ Over(peer) /\ Over(inbox) /\ Over(clt) /\ Over(mask)
          /\ Over(written) /\ Over(opened) /\ Over(commands) /\ Over(ended) /\ ConnInv(c)
      BY DEF WebInv
    <2>2. /\ ended[c] = "open" /\ UNCHANGED <<request, clt, mask, at, events, historyVars>>
      BY <1>2 DEF Send, Linked, serverVars
    <2>3. PICK n \in 1 .. Len(peer[c].left) :
            /\ inbox' = [inbox EXCEPT ![c] = inbox[c] \o SubSeq(peer[c].left, 1, n)]
            /\ peer' = [peer EXCEPT ![c] = [peer[c] EXCEPT
                        !.left = SubSeq(peer[c].left, n + 1, Len(peer[c].left))]]
      BY <1>2 DEF Send
    <2> DEFINE S == ToSet(request[c].pieces)
               d == peer[c].left
               b1 == inbox[c] \o SubSeq(d, 1, n)
               d1 == SubSeq(d, n + 1, Len(d))
    <2>4. peer[c] \in PeerType(c) /\ d \in Seq(S)
      BY <2>1 DEF ConnInv, PeerType
    <2>5. n \in 0 .. Len(d)
      BY <2>4, LenProperties
    <2>6. Held(request[c], clt[c], inbox[c], d, written[c], commands[c], opened[c], events)
      BY <2>1, <2>2 DEF ConnInv
    <2>7. Held(request[c], clt[c], b1, d1, written[c], commands[c], opened[c], events)
      <3> HIDE DEF d
      <3>1. QED
        BY <2>5, <2>6, HeldArrives
    <2>8. d1 \in Seq(S)
      BY <2>7 DEF Held
    <2>9. Only(inbox, inbox', c) /\ Only(peer, peer', c)
      BY <2>1, <2>3, ExceptOnly
    <2>10. inbox'[c] = b1 /\ peer'[c] = [peer[c] EXCEPT !.left = d1]
      BY <2>1, <2>3, ExceptOnly
    <2> HIDE DEF b1, d1
    <2>11. peer'[c] \in PeerType(c) /\ peer'[c].left = d1
      BY <2>4, <2>8, <2>10 DEF PeerType
    <2>12. Touches(c)
      BY <2>1, <2>2, <2>9, ExceptOnly DEF Touches, historyVars
    <2>13. ConnInv(c)'
      BY <2>1, <2>2, <2>7, <2>10, <2>11 DEF ConnInv, PeerType, historyVars
    <2>14. AtInv'
      BY <2>2 DEF WebInv, AtInv, historyVars
    <2>15. QED
      BY <2>2, <2>12, <2>13, <2>14, OneSteps
  <1>3. CASE PeerRead(c)
    <2>1. UNCHANGED <<peer, inbox, request, clt, mask, at, events, historyVars>>
      BY <1>3 DEF PeerRead, serverVars
    <2>2. QED
      BY <2>1 DEF WebInv, AtInv, ConnInv, Over, historyVars
  <1>4. QED
    BY <1>1, <1>2, <1>3 DEF Peers

LEMMA AcceptKeeps ==
    ASSUME WebInv, NEW c \in Conn, Accept(c)
    PROVE  WebInv'
  <1>1. PICK v \in {"away", "waiting", "here", "silent", "gone"} :
              peer' = [peer EXCEPT ![c].is = v]
    <2>1. peer' = [peer EXCEPT ![c].is = "gone"] \/ peer' = [peer EXCEPT ![c].is = "here"]
      BY DEF Accept
    <2>2. QED
      BY <2>1
  <1>2. /\ UNCHANGED <<inbox, request, clt, mask, events, historyVars>>
        /\ at = <<>> /\ ended[c] = "open" /\ at' = <<c, <<"R">>>>
    BY DEF Accept
  <1>3. AtInv'
    <2>1. <<"R">> \in {<<>>, <<"R">>} \cup ToWrite /\ <<"R">> \notin ToWrite
      BY DEF ToWrite
    <2>2. QED
      BY <1>2, <2>1 DEF AtInv, historyVars
  <1>4. QED
    BY <1>1, <1>2, <1>3, PeerStands

LEMMA CallbackKeeps ==
    ASSUME WebInv, NEW c \in Conn, Callback(c)
    PROVE  WebInv'
  <1>1. /\ at = <<>> /\ ended[c] = "open"
        /\ UNCHANGED <<clt, mask, events, peer, inbox, request, historyVars>>
    BY DEF Callback, peerVars
  <1>2. PICK todo \in {<<"R">>, <<"W">>, <<"R", "W">>} :
            ToSet(todo) \subseteq mask[c] /\ at' = <<c, todo>>
    BY DEF Callback
  <1>3. /\ Over(peer) /\ Over(inbox) /\ Over(clt) /\ Over(mask)
        /\ Over(written) /\ Over(opened) /\ Over(commands) /\ Over(ended) /\ ConnInv(c)
    BY DEF WebInv
  <1>4. ASSUME todo \in {<<"W">>, <<"R", "W">>} PROVE clt[c].wbuf # <<>>
    <2>1. "W" \in ToSet(todo)
      <3>1. CASE todo = <<"W">>
        <4>1. 1 \in 1 .. Len(todo) /\ todo[1] = "W"
          BY <3>1
        <4>2. QED
          BY <4>1 DEF ToSet
      <3>2. CASE todo = <<"R", "W">>
        <4>1. 2 \in 1 .. Len(todo) /\ todo[2] = "W"
          BY <3>2
        <4>2. QED
          BY <4>1 DEF ToSet
      <3>3. QED
        BY <1>4, <3>1, <3>2
    <2>2. QED
      BY <1>1, <1>2, <1>3, <2>1 DEF ConnInv
  <1>5. AtInv'
    <2>1. todo \in {<<>>, <<"R">>} \cup ToWrite /\ (todo \in ToWrite => clt[c].wbuf # <<>>)
      BY <1>2, <1>4 DEF ToWrite
    <2>2. QED
      BY <1>1, <1>2, <2>1 DEF AtInv, historyVars
  <1>6. Touches(c)
    BY <1>1, <1>3, ExceptOnly DEF Touches, historyVars
  <1>7. "W" \in mask[c] => clt[c].wbuf # <<>>
    BY <1>1, <1>3 DEF ConnInv
  <1>8. ConnInv(c)'
    BY <1>1, <1>3, <1>7 DEF ConnInv, historyVars
  <1>9. QED
    BY <1>1, <1>5, <1>6, <1>8, OneSteps
LEMMA ReadKeeps ==
    ASSUME WebInv, NEW c \in Conn, Read(c)
    PROVE  WebInv'
  <1>1. /\ at # <<>> /\ at[1] = c /\ Head(at[2]) = "R" /\ at[2] # <<>>
        /\ UNCHANGED <<peer, unread, request, events>>
    BY DEF Read, In
  <1>2. IsBusy(c)
    BY <1>1, BusyIs
  <1>3. /\ Over(peer) /\ Over(inbox) /\ Over(clt) /\ Over(mask)
        /\ Over(written) /\ Over(opened) /\ Over(commands) /\ Over(ended) /\ ConnInv(c)
    BY DEF WebInv
  <1>4. CASE /\ clt' = [clt EXCEPT ![c].rbuf = clt[c].rbuf \o inbox[c]]
             /\ inbox' = [inbox EXCEPT ![c] = <<>>]
             /\ at' = <<c, Tail(at[2])>> /\ UNCHANGED <<mask, historyVars>>
    <2> DEFINE k1 == [clt[c] EXCEPT !.rbuf = clt[c].rbuf \o inbox[c]]
    <2>1. clt' = [clt EXCEPT ![c] = k1]
      BY <1>4
    <2>8. k1 = [clt[c] EXCEPT !.rbuf = clt[c].rbuf \o inbox[c]]
      OBVIOUS
    <2>9. /\ inbox' = [inbox EXCEPT ![c] = <<>>]
          /\ UNCHANGED <<mask, written, opened, commands, ended>>
      BY <1>4 DEF historyVars
    <2> HIDE DEF k1
    <2>2. /\ Held(request[c], k1, <<>>, peer[c].left, written[c], commands[c], opened[c], events)
          /\ k1.wbuf = clt[c].wbuf
      <3>1. Held(request[c], clt[c], inbox[c], peer[c].left, written[c], commands[c],
                 opened[c], events)
        BY <1>2 DEF IsBusy
      <3>2. k1 = ReadInto(clt[c], inbox[c])
        BY <2>8 DEF ReadInto
      <3>3. QED
        BY ONLY <3>1, <3>2, HeldReads
    <2>3. clt'[c] = k1 /\ inbox'[c] = <<>>
      BY <1>3, <2>1, <2>9, ExceptOnly
    <2>4. Touches(c)
      BY <1>1, <1>3, <2>1, <2>9, ExceptOnly DEF Touches
    <2>5. AtInv'
      <3>1. at[2] \in {<<"R">>, <<"R", "W">>}
        <4>1. Head(<<"W">>) # "R"
          OBVIOUS
        <4>2. QED
          BY <1>1, <1>2, <4>1 DEF IsBusy, ToWrite
      <3>2. CASE at[2] = <<"R">>
        <4>1. Tail(at[2]) = <<>> /\ <<>> \notin ToWrite
          BY <3>2 DEF ToWrite
        <4>2. QED
          BY <1>2, <1>4, <4>1 DEF AtInv, IsBusy, historyVars
      <3>3. CASE at[2] = <<"R", "W">>
        <4>1. Tail(at[2]) = <<"W">> /\ at[2] \in ToWrite /\ <<"W">> \in ToWrite
          BY <3>3 DEF ToWrite
        <4>2. clt'[c].wbuf # <<>>
          BY <1>2, <2>2, <2>3, <4>1 DEF IsBusy
        <4>3. QED
          BY <1>2, <1>4, <4>1, <4>2 DEF AtInv, IsBusy, historyVars
      <3>4. QED
        BY <3>1, <3>2, <3>3
    <2>6. ConnInv(c)'
      <3>1. at' # <<>> /\ at'[1] = c
        BY <1>4
      <3>2. QED
        BY <1>1, <1>2, <1>4, <2>2, <2>3, <3>1 DEF ConnInv, IsBusy, historyVars
    <2>7. QED
      BY <1>1, <2>4, <2>5, <2>6, OneSteps
  <1>5. CASE End(c, "peer") /\ UNCHANGED <<inbox, opened, commands>>
    <2>1. Ended(request[c], written[c], commands'[c], opened'[c], "peer")
      BY <1>2, <1>5, HeldEnds DEF IsBusy
    <2>2. Only(commands, commands', c) /\ Only(opened, opened', c)
      BY <1>3, <1>5, ExceptOnly
    <2>3. QED
      BY <1>1, <1>2, <1>5, <2>1, <2>2, EndKeeps
  <1>6. QED
    BY <1>4, <1>5 DEF Read

LEMMA WriteOutKeeps ==
    ASSUME WebInv, NEW c \in Conn, WriteOut(c)
    PROVE  WebInv'
  <1>1. /\ at # <<>> /\ at[1] = c /\ Head(at[2]) = "W" /\ at[2] # <<>>
        /\ UNCHANGED <<peer, inbox, request, events, opened, commands>>
    BY DEF WriteOut, In
  <1>2. IsBusy(c)
    BY <1>1, BusyIs
  <1>3. /\ Over(peer) /\ Over(inbox) /\ Over(clt) /\ Over(mask)
        /\ Over(written) /\ Over(opened) /\ Over(commands) /\ Over(ended) /\ ConnInv(c)
    BY DEF WebInv
  <1>4. at[2] = <<"W">> /\ <<"W">> \in ToWrite /\ clt[c].wbuf # <<>>
    <2>1. Head(<<"R">>) # "W" /\ Head(<<"R", "W">>) # "W"
      OBVIOUS
    <2>2. at[2] = <<"W">> /\ <<"W">> \in ToWrite
      BY <1>1, <1>2, <2>1 DEF IsBusy, ToWrite
    <2>3. QED
      BY <1>2, <2>2 DEF IsBusy
  <1>5. CASE peer[c].is = "gone"
    <2>0. End(c, "peer")
      BY <1>5 DEF WriteOut
    <2>1. Ended(request[c], written[c], commands'[c], opened'[c], "peer")
      BY <1>1, <1>2, HeldEnds DEF IsBusy
    <2>2. Only(commands, commands', c) /\ Only(opened, opened', c)
      BY <1>1, <1>3, ExceptOnly
    <2>3. QED
      BY <1>1, <1>2, <2>0, <2>1, <2>2, EndKeeps
  <1>6. CASE peer[c].is # "gone"
    <2> DEFINE k1 == [clt[c] EXCEPT !.wbuf = Tail(clt[c].wbuf)]
               w1 == Append(written[c], Head(clt[c].wbuf))
    <2>1. /\ written' = [written EXCEPT ![c] = w1] /\ clt' = [clt EXCEPT ![c] = k1]
          /\ at' = <<c, IF clt'[c].wbuf = <<>> THEN Tail(at[2]) ELSE at[2]>>
          /\ UNCHANGED <<mask, ended>>
      BY <1>4, <1>6 DEF WriteOut
    <2>8. /\ k1 = [clt[c] EXCEPT !.wbuf = Tail(clt[c].wbuf)]
          /\ w1 = Append(written[c], Head(clt[c].wbuf))
      OBVIOUS
    <2> HIDE DEF k1, w1
    <2>2. Held(request[c], k1, inbox[c], peer[c].left, w1, commands[c], opened[c], events)
      <3>1. Held(request[c], clt[c], inbox[c], peer[c].left, written[c], commands[c],
                 opened[c], events)
        BY <1>2 DEF IsBusy
      <3>2. clt[c].wbuf # <<>>
        BY <1>4
      <3>3. Held(request[c], [clt[c] EXCEPT !.wbuf = Tail(clt[c].wbuf)], inbox[c],
                 peer[c].left, Append(written[c], Head(clt[c].wbuf)), commands[c],
                 opened[c], events)
        BY ONLY <3>1, <3>2, WritesAreHeld
      <3>4. QED
        BY ONLY <2>8, <3>3
    <2>3. clt'[c] = k1 /\ written'[c] = w1
      BY <1>3, <2>1, ExceptOnly
    <2>4. Touches(c)
      BY <1>1, <1>3, <2>1, ExceptOnly DEF Touches
    <2>5. AtInv'
      <3>1. CASE k1.wbuf = <<>>
        <4>1. Tail(at[2]) = <<>> /\ <<>> \notin ToWrite
          BY <1>4 DEF ToWrite
        <4>2. at' = <<c, <<>>>>
          BY <2>1, <2>3, <3>1, <4>1
        <4>3. QED
          BY <1>2, <2>1, <4>1, <4>2 DEF AtInv, IsBusy
      <3>2. CASE k1.wbuf # <<>>
        <4>1. at' = <<c, <<"W">>>>
          BY <1>4, <2>1, <2>3, <3>2
        <4>2. QED
          BY <1>2, <1>4, <2>1, <2>3, <3>2, <4>1 DEF AtInv, IsBusy
      <3>3. QED
        BY <3>1, <3>2
    <2>6. ConnInv(c)'
      <3>1. at' # <<>> /\ at'[1] = c
        BY <2>1
      <3>2. QED
        BY <1>1, <1>2, <2>1, <2>2, <2>3, <3>1 DEF ConnInv, IsBusy
    <2>7. QED
      BY <1>1, <2>4, <2>5, <2>6, OneSteps
  <1>7. QED
    BY <1>5, <1>6
LEMMA ClientEvKeeps ==
    ASSUME WebInv, NEW c \in Conn, ClientEv(c)
    PROVE  WebInv'
  <1> DEFINE k == clt[c]
  <1>1. at # <<>> /\ at[1] = c /\ UNCHANGED <<peer, inbox, request, events>>
    BY DEF ClientEv, peerVars
  <1>2. IsBusy(c)
    BY <1>1, BusyIs
  <1>3. Held(request[c], k, inbox[c], peer[c].left, written[c], commands[c], opened[c], events)
    BY <1>2 DEF IsBusy
  <1>4. Over(commands) /\ Over(opened)
    BY DEF WebInv
  <1>5. ASSUME NEW k1, Wait(c, k1),
               Held(request[c], k1, inbox[c], peer[c].left, written[c], commands[c],
                    opened[c], events)
        PROVE  WebInv'
    <2>1. Again(c, k1) /\ commands' = commands /\ opened' = opened
      BY <1>5 DEF Wait
    <2>2. Only(commands, commands', c) /\ Only(opened, opened', c)
      BY <1>4, <2>1, ExceptOnly
    <2>3. QED
      BY <1>1, <1>2, <1>5, <2>1, <2>2, AgainKeeps
  <1>6. CASE k.route = "none"
    <2>1. PICK k1 : /\ k1 = Parse(k)
                    /\ \/ k1.invalid /\ End(c, "invalid") /\ UNCHANGED <<opened, commands>>
                       \/ ~k1.invalid /\ Wait(c, k1)
                       \/ ~k1.invalid /\ k1.reqdone /\ ~BodyMissing(k1) /\ Dispatch(c, k1)
      BY <1>6 DEF ClientEv, Process, NewRequest
    <2>2. CASE End(c, "invalid") /\ UNCHANGED <<opened, commands>>
      <3>1. Ended(request[c], written[c], commands'[c], opened'[c], "invalid")
        BY <1>3, <2>2, HeldEnds
      <3>2. Only(commands, commands', c) /\ Only(opened, opened', c)
        BY <1>4, <2>2, ExceptOnly
      <3>3. QED
        BY <1>1, <1>2, <2>2, <3>1, <3>2, EndKeeps
    <2>3. ASSUME ~k1.invalid
          PROVE  /\ Held(request[c], k1, inbox[c], peer[c].left, written[c], commands[c],
                         opened[c], events)
                 /\ Reads(request[c], k1, inbox[c], peer[c].left, written[c], commands[c])
      <3> HIDE DEF k
      <3>1. QED
        BY ONLY <1>3, <1>6, <2>1, <2>3, HeldParses
    <2>4. CASE ~k1.invalid /\ Wait(c, k1)
      BY <1>5, <2>3, <2>4
    <2>5. CASE ~k1.invalid /\ k1.reqdone /\ ~BodyMissing(k1) /\ Dispatch(c, k1)
      <3> DEFINE n1 == commands[c] + IF IsCommand(k1) THEN 1 ELSE 0
                 o1 == IF InitWs(k1) THEN events ELSE opened[c]
      <3>1. PICK k2 : k2 = RouteDispatch(k1) /\ Again(c, k2)
        BY <2>5 DEF Dispatch
      <3>2. /\ commands' = [commands EXCEPT ![c] = n1]
            /\ opened' = [opened EXCEPT ![c] = o1]
        BY <2>5 DEF Dispatch
      <3>3. /\ n1 = commands[c] + (IF IsCommand(k1) THEN 1 ELSE 0)
            /\ o1 = IF InitWs(k1) THEN events ELSE opened[c]
        OBVIOUS
      <3> HIDE DEF n1, o1
      <3>4. commands'[c] = n1 /\ opened'[c] = o1
        BY <1>4, <3>2, ExceptOnly
      <3>5. Only(commands, commands', c) /\ Only(opened, opened', c)
        BY <1>4, <3>2, ExceptOnly
      <3>6. Held(request[c], k2, inbox[c], peer[c].left, written[c], n1, o1, events)
        <4>1. k1.reqdone /\ ~BodyMissing(k1)
          BY <2>5
        <4>2. QED
          BY ONLY <2>3, <2>5, <3>1, <3>3, <4>1, HeldDispatches
      <3>7. QED
        BY <1>1, <1>2, <3>1, <3>4, <3>5, <3>6, AgainKeeps
    <2>6. QED
      BY <2>1, <2>2, <2>4, <2>5
  <1>7. CASE k.route = "ws" /\ ~k.done
    <2>1. PICK k1 : k1 = HandleWs(k) /\ Wait(c, k1)
      BY <1>7 DEF ClientEv, Process
    <2>2. Held(request[c], k1, inbox[c], peer[c].left, written[c], commands[c], opened[c], events)
      <3> HIDE DEF k
      <3>1. QED
        BY ONLY <1>3, <1>7, <2>1, HeldFrames
    <2>3. QED
      BY <1>5, <2>1, <2>2
  <1>8. CASE k.route # "none" /\ ~(k.route = "ws" /\ ~k.done)
    <2>1. Wait(c, k)
      BY <1>8 DEF ClientEv, Process
    <2>2. QED
      BY <1>3, <1>5, <2>1
  <1>9. QED
    BY <1>6, <1>7, <1>8

LEMMA EventKeeps ==
    ASSUME WebInv, DispatchEvent
    PROVE  WebInv'
  <1>1. /\ at = <<>> /\ at' = <<>> /\ events' = events + 1
        /\ UNCHANGED <<peer, inbox, request, written, opened, commands, ended>>
    BY DEF DispatchEvent, peerVars, historyVars
  <1>2. /\ clt' = [c \in Conn |-> IF Listening(c) THEN Frame(clt[c], <<"event", events'>>)
                                  ELSE clt[c]]
        /\ mask' = [c \in Conn |-> IF Listening(c) THEN {"R", "W"} ELSE mask[c]]
    BY DEF DispatchEvent
  <1>3. ASSUME NEW c \in Conn PROVE ConnInv(c)'
    <2> DEFINE k == clt[c]
               k1 == clt'[c]
    <2>1. /\ k1 = IF k.ws /\ ~k.done THEN Frame(k, <<"event", events'>>) ELSE k
          /\ mask'[c] = IF k.ws /\ ~k.done THEN {"R", "W"} ELSE mask[c]
      BY <1>2 DEF Listening
    <2>2. ConnInv(c)
      BY DEF WebInv
    <2> HIDE DEF k, k1
    <2>3. CASE ended[c] = "open"
      <3>1. Held(request[c], k, inbox[c], peer[c].left, written[c], commands[c], opened[c],
                 events)
        BY <2>2, <2>3 DEF ConnInv, k
      <3>2. /\ Held(request[c], k1, inbox[c], peer[c].left, written[c], commands[c],
                    opened[c], events')
            /\ k.ws /\ ~k.done => k1.wbuf # <<>>
        <4>1. PICK e1 : e1 = events' /\ e1 = events + 1
          BY <1>1
        <4>2. k1 = IF k.ws /\ ~k.done THEN Frame(k, <<"event", e1>>) ELSE k
          BY <2>1, <4>1
        <4>3. /\ Held(request[c], k1, inbox[c], peer[c].left, written[c], commands[c],
                      opened[c], e1)
              /\ k.ws /\ ~k.done => k1.wbuf # <<>>
          BY ONLY <3>1, <4>1, <4>2, HeldTells
        <4>4. QED
          BY <4>1, <4>3
      <3>3. "W" \in mask'[c] => k1.wbuf # <<>>
        BY <1>1, <2>1, <2>2, <3>2 DEF ConnInv, k
      <3>4. QED
        BY <1>1, <2>2, <2>3, <3>2, <3>3 DEF ConnInv, k1
    <2>4. CASE ended[c] # "open"
      <3>1. k = NewClient /\ mask[c] = {}
        BY <2>2, <2>4 DEF ConnInv, k
      <3>2. ~k.ws
        BY <3>1 DEF NewClient
      <3>3. k1 = k /\ mask'[c] = mask[c]
        BY <2>1, <3>2
      <3>4. QED
        BY <1>1, <2>2, <2>4, <3>1, <3>3 DEF ConnInv, k, k1
    <2>5. QED
      BY <2>3, <2>4
  <1>4. Over(clt)' /\ Over(mask)'
    BY <1>2 DEF Over
  <1>5. AtInv'
    BY <1>1 DEF AtInv
  <1>6. QED
    BY <1>1, <1>3, <1>4, <1>5 DEF WebInv, Over

LEMMA WebSteps == WebInv /\ [WebConnNext]_connVars => WebInv'
  <1> SUFFICES ASSUME WebInv, [WebConnNext]_connVars PROVE WebInv'
    OBVIOUS
  <1>1. CASE DispatchEvent
    BY <1>1, EventKeeps
  <1>2. ASSUME NEW c \in Conn, Peers(c) PROVE WebInv'
    BY <1>2, PeersKeep
  <1>3. ASSUME NEW c \in Conn, Server(c) PROVE WebInv'
    <2>1. CASE Accept(c)
      BY <2>1, AcceptKeeps
    <2>2. CASE Callback(c)
      BY <2>2, CallbackKeeps
    <2>3. CASE Read(c)
      BY <2>3, ReadKeeps
    <2>4. CASE WriteOut(c)
      BY <2>4, WriteOutKeeps
    <2>5. CASE ClientEv(c)
      BY <2>5, ClientEvKeeps
    <2>6. QED
      BY <1>3, <2>1, <2>2, <2>3, <2>4, <2>5 DEF Server
  <1>4. CASE UNCHANGED connVars
    BY <1>4 DEF WebInv, AtInv, ConnInv, Over, connVars, serverVars, peerVars, historyVars
  <1>5. QED
    BY <1>1, <1>2, <1>3, <1>4 DEF WebConnNext

-----------------------------------------------------------------------------
LEMMA NewIsEmpty == NewClient.wbuf = <<>> /\ ~NewClient.ws
  BY DEF NewClient

(* A client has been sent nothing or the answer to its request, or its     *)
(* beginning, and the commands it asks for are sent when the answer is     *)
(* composed.                                                               *)
LEMMA WebHolds == WebConnSpec => []WebInv
  <1>1. QED
    BY WebStarts, WebSteps, PTL DEF WebConnSpec

(* A form sends its command once: client_ev() is called again for a client *)
(* that is done and still has output, and it does not call the route again *)
(* (web/web.c), whatever the requests, the number of connections and the   *)
(* pieces the requests arrive in.                                          *)
THEOREM CommandsAreSentOnce == WebConnSpec => []CommandOnce
  <1>1. ASSUME WebInv PROVE CommandOnce
    <2>1. ASSUME NEW c \in Conn
          PROVE  commands[c] = IF Stream(c) # <<>> THEN request[c].commands
                               ELSE IF ended[c] = "open" THEN 0 ELSE commands[c]
      <3>1. ConnInv(c)
        BY <1>1 DEF WebInv
      <3>2. CASE ended[c] = "open"
        <4>1. Held(request[c], clt[c], inbox[c], peer[c].left, written[c], commands[c],
                   opened[c], events)
          BY <3>1, <3>2 DEF ConnInv
        <4>2. PICK s : s = written[c] \o clt[c].wbuf
          OBVIOUS
        <4>3. IsDue(request[c], clt[c], s, commands[c], opened[c], events)
          BY ONLY <4>1, <4>2, HeldIsFramed
        <4>4. QED
          BY <3>2, <4>2, <4>3 DEF Stream, IsDue
      <3>3. CASE ended[c] # "open"
        <4>1. /\ clt[c] = NewClient
              /\ Ended(request[c], written[c], commands[c], opened[c], ended[c])
          BY <3>1, <3>3 DEF ConnInv
        <4>2. Stream(c) = written[c]
          <5>1. clt[c].wbuf = <<>> /\ written[c] \in Seq(Item)
            BY <4>1, NewIsEmpty DEF Ended
          <5>2. QED
            BY <5>1, ConcatEmptySeq DEF Stream
        <4>3. QED
          BY <3>3, <4>1, <4>2 DEF Ended
      <3>4. QED
        BY <3>2, <3>3
    <2>2. QED
      BY <2>1 DEF CommandOnce
  <1>2. QED
    BY <1>1, WebHolds, PTL

(* Whatever a peer can read of an answer is well formed at any time, and   *)
(* complete when the server closes the connection of its own accord; a     *)
(* websocket is told every event once and in order; no client is dropped   *)
(* because there was nothing to write (http_reply(), http_write(),         *)
(* http_close(), bufio_compose() and client_ev()).                         *)
THEOREM AnswersAreFramed == WebConnSpec => []WellFramed
  <1>1. ASSUME WebInv PROVE WellFramed
    <2>1. ASSUME NEW c \in Conn
          PROVE  LET s == Stream(c) IN
                 s # <<>> => /\ IsFramed(request[c], s, opened[c])
                             /\ request[c].code = 101 /\ Listening(c) =>
                                    Cardinality(ToldAt(s)) = events - opened[c]
                             /\ request[c].code # 101 /\ ended[c] = "open" =>
                                    Payload(s) = request[c].text
      <3> DEFINE s == Stream(c)
      <3>1. ConnInv(c)
        BY <1>1 DEF WebInv
      <3>2. CASE ended[c] = "open"
        <4>1. Held(request[c], clt[c], inbox[c], peer[c].left, written[c], commands[c],
                   opened[c], events)
          BY <3>1, <3>2 DEF ConnInv
        <4>2. s = written[c] \o clt[c].wbuf
          BY DEF Stream
        <4> HIDE DEF s
        <4>3. IsDue(request[c], clt[c], s, commands[c], opened[c], events)
          BY ONLY <4>1, <4>2, HeldIsFramed
        <4>4. QED
          BY <4>3 DEF s, Listening, IsDue
      <3>3. CASE ended[c] # "open"
        <4>1. /\ clt[c] = NewClient
              /\ Ended(request[c], written[c], commands[c], opened[c], ended[c])
          BY <3>1, <3>3 DEF ConnInv
        <4>2. clt[c].wbuf = <<>> /\ ~clt[c].ws /\ written[c] \in Seq(Item)
          BY <4>1, NewIsEmpty DEF Ended
        <4>3. s = written[c]
          BY <4>2, ConcatEmptySeq DEF Stream
        <4> HIDE DEF s
        <4>4. s # <<>> => IsFramed(request[c], s, opened[c])
          BY <4>1, <4>3, PartIsFramed, TalkIsFramed DEF Ended
        <4>5. QED
          BY <3>3, <4>2, <4>4 DEF s, Listening
      <3>4. QED
        BY <3>2, <3>3
    <2>2. InFrames
      BY <2>1 DEF InFrames, IsFramed
    <2>3. ASSUME NEW c \in Conn
          PROVE  /\ ended[c] # "nothing written"
                 /\ ended[c] = "done" /\ request[c].code # 101 =>
                        /\ written[c] # <<>> /\ Payload(written[c]) = request[c].text
                        /\ written[c][1][3] => Last(written[c]) = LastChunk
      <3>1. \/ ended[c] = "open"
            \/ Ended(request[c], written[c], commands[c], opened[c], ended[c])
        BY <1>1 DEF WebInv, ConnInv
      <3>2. CASE ended[c] = "open"
        BY <3>2
      <3>3. CASE Ended(request[c], written[c], commands[c], opened[c], ended[c])
        BY <3>3, AnswerSays DEF Ended
      <3>4. QED
        BY <3>1, <3>2, <3>3
    <2>4. QED
      BY <2>2, <2>3 DEF WellFramed, NothingTruncated
  <1>2. QED
    BY <1>1, WebHolds, PTL
=============================================================================
