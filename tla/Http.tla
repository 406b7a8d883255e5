-------------------------------- MODULE Http --------------------------------
(***************************************************************************)
(* What the web interface does with the bytes of one client: the request   *)
(* it reads (http_parse(), http_read()), the routes of web/web.c, and how  *)
(* http.c, bufio.c and ws.c frame what is sent.                            *)
(*                                                                         *)
(* A piece of a request is a tuple whose first element is its kind: a      *)
(* first line <<"first", method, version, path>>, a header <<"length", n>> *)
(* or <<"handshake">> (the headers of a websocket), a line that is refused *)
(* <<"bad">>, the empty line <<"end">>, a part of the body <<"form">> or   *)
(* <<"other">>, a frame <<"ping">>, <<"text">>, <<"close">> or             *)
(* <<"unmasked">>, or <<"part">>, the beginning of the piece that follows. *)
(***************************************************************************)
EXTENDS Integers, Sequences, SequencesExt, FiniteSets

CONSTANTS
    BufCap,         (* what clt->buf holds: 1024 bytes in the code          *)
    Page            (* the text of the home page, in pieces                 *)

ASSUME BufCapIsPositive == BufCap \in Nat \ {0}
ASSUME PageIsText == Page \in Seq(ToSet(Page))

(* struct client.                                                          *)
NewClient ==
    [rbuf |-> <<>>, wbuf |-> <<>>, buf |-> <<>>,
     method |-> "unknown", version |-> "1.0", path |-> "",
     handshake |-> FALSE, clen |-> 0, reqdone |-> FALSE, invalid |-> FALSE,
     chunked |-> FALSE, bioChunked |-> FALSE,
     ws |-> FALSE, done |-> FALSE, route |-> "none"]

-----------------------------------------------------------------------------
(* How many pieces at the head of buf are whole lines, up to the empty one. *)
HeadLines(buf) ==
    LET blank == {i \in 1 .. Len(buf) : buf[i] = <<"end">>}
    IN  IF blank # {} THEN CHOOSE i \in blank : \A j \in blank : i <= j
        ELSE IF buf # <<>> /\ Last(buf) = <<"part">> THEN Len(buf) - 1 ELSE Len(buf)

(* The lines that come with the first n pieces, the one that is the first  *)
(* line of all, and one of a kind.                                         *)
Lines(buf, n) == { buf[i] : i \in 1 .. n } \ {<<"part">>}
Opens(buf, i) == buf[i] # <<"part">> /\ \A j \in 1 .. i - 1 : buf[j] = <<"part">>
Has(lines, kind) == \E line \in lines : line[1] = kind
Named(lines, kind) == CHOOSE line \in lines : line[1] = kind

(* The first line that is not a first line, or one that is refused, ends   *)
(* the client.                                                             *)
Invalid(k, n) == \E i \in 1 .. n :
    \/ k.method = "unknown" /\ Opens(k.rbuf, i) /\ k.rbuf[i][1] # "first"
    \/ k.rbuf[i][1] = "bad"

(* What k has of a request when lines were read as well: a header comes    *)
(* once.                                                                   *)
Heed(k, lines) ==
    LET first == Named(lines, "first")
        told == Has(lines, "first")
    IN  [k EXCEPT !.method  = IF told THEN first[2] ELSE k.method,
                  !.version = IF told THEN first[3] ELSE k.version,
                  !.path    = IF told THEN first[4] ELSE k.path,
                  !.chunked = IF told THEN first[3] = "1.1" ELSE k.chunked,
                  !.handshake = k.handshake \/ <<"handshake">> \in lines,
                  !.clen    = IF Has(lines, "length") THEN Named(lines, "length")[2] ELSE k.clen,
                  !.reqdone = k.reqdone \/ <<"end">> \in lines]

(* http_parse(): a head that was read before is not looked at again.       *)
Parse(k) == LET n == IF k.reqdone THEN 0 ELSE HeadLines(k.rbuf)
            IN  [Heed(k, Lines(k.rbuf, n)) EXCEPT
                    !.rbuf = SubSeq(k.rbuf, n + 1, Len(k.rbuf)),
                    !.invalid = Invalid(k, n)]

(* http_read(): a body that was announced has not arrived.                 *)
BodyMissing(k) == k.method = "POST" /\ Len(k.rbuf) < k.clen

-----------------------------------------------------------------------------
(* bufio_compose(): data of no length ends a chunked body, and is nothing  *)
(* in another.                                                             *)
Compose(k, data) ==
    IF k.bioChunked THEN [k EXCEPT !.wbuf = Append(@, <<"chunk", data>>)]
    ELSE IF data = <<>> THEN k ELSE [k EXCEPT !.wbuf = Append(@, <<"data", data>>)]

(* http_write(): a chunk is sent whenever buf is full.                     *)
Write(k, data) ==
    IF ~k.bioChunked THEN Compose(k, data)
    ELSE LET all == k.buf \o data
             full == Len(all) \div BufCap
         IN  [k EXCEPT
                 !.wbuf = @ \o [i \in 1 .. full |->
                     <<"chunk", SubSeq(all, (i - 1) * BufCap + 1, i * BufCap)>>],
                 !.buf = SubSeq(all, full * BufCap + 1, Len(all))]

(* A definition that follows one named Faulty... is what the code does;    *)
(* the faulty one is the bug that a run is shown to notice.                *)
FaultyReply(k, code) == (* the frames of a websocket are sent in chunks *)
    LET begun == [k EXCEPT !.wbuf = Append(@, <<"head", code, k.chunked>>),
                           !.bioChunked = k.chunked]
    IN  IF code = 302 THEN Write(begun, <<<<"link">>>>) ELSE begun

(* http_reply(): the head itself is never in chunks.                       *)
Reply(k, code) ==
    LET chunked == k.chunked /\ code # 101
        begun == [k EXCEPT !.wbuf = Append(@, <<"head", code, chunked>>),
                           !.chunked = chunked, !.bioChunked = chunked]
    IN  IF code = 302 THEN Write(begun, <<<<"link">>>>) ELSE begun

(* http_close(), with http_flush().                                        *)
HttpClose(k) ==
    Compose(IF k.buf = <<>> THEN k ELSE [Compose(k, k.buf) EXCEPT !.buf = <<>>], <<>>)

(* ws_compose() of a text, or of the answer to a ping.                     *)
Frame(k, f) == Compose(k, <<f>>)

-----------------------------------------------------------------------------
NotFound(k) == Write(Reply(k, 404), <<<<"notfound">>>>)
BadRequest(k) == Write(Reply(k, 400), <<<<"refused">>>>)

(* http_postdata() gives the routes all that there is; the first field of  *)
(* the right name decides.                                                 *)
IsCommand(k) == /\ k.method = "POST" /\ k.path \in {"/ctrls", "/a/ctrls"}
                /\ <<"form">> \in ToSet(k.rbuf)

(* route_dispatch(), for a request that has arrived: one round does for    *)
(* all but a websocket.                                                    *)
InitWs(k) == k.method = "GET" /\ k.path = "/ws" /\ k.handshake

Answer(k) ==
    CASE k.method = "GET" /\ k.path = "/"   -> Write(Reply(k, 200), Page)
      [] k.method = "GET" /\ k.path = "/ws" -> BadRequest(k)
      [] IsCommand(k) /\ k.path = "/ctrls"   -> Reply(k, 302)
      [] IsCommand(k) /\ k.path = "/a/ctrls" -> Reply(k, 200)
      [] ~IsCommand(k) /\ k.method = "POST" /\ k.path \in {"/ctrls", "/a/ctrls"}
           -> BadRequest(k)
      [] OTHER -> NotFound(k)

RouteDispatch(k) ==
    IF InitWs(k) THEN [Reply(k, 101) EXCEPT !.ws = TRUE, !.route = "ws"]
    ELSE [HttpClose(Answer(k)) EXCEPT !.done = TRUE, !.route = "page"]

(* route_handle_ws() with ws_read(): one frame, if it is there.            *)
HandleWs(k) ==
    IF k.rbuf = <<>> \/ k.rbuf = <<<<"part">>>> THEN k
    ELSE LET n == IF Head(k.rbuf) = <<"part">> THEN 2 ELSE 1
             read == [k EXCEPT !.rbuf = SubSeq(@, n + 1, Len(@))]
         IN  CASE k.rbuf[n] = <<"ping">>  -> Frame(read, <<"pong">>)
               [] k.rbuf[n] = <<"close">> -> [read EXCEPT !.done = TRUE]
               [] k.rbuf[n] = <<"unmasked">> -> [k EXCEPT !.done = TRUE]
               [] OTHER -> read
=============================================================================
