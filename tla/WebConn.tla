------------------------------ MODULE WebConn -------------------------------
(***************************************************************************)
(* The connections of the web interface (client_ev(), web_accept() and     *)
(* dispatch_event() in web/web.c): one server for all, with sockets that   *)
(* block.  Module EvLoop has the loop that calls the handlers, module      *)
(* WebView what the websockets are told.                                   *)
(***************************************************************************)
EXTENDS Http

CONSTANTS
    Conn,           (* connections                                          *)
    Requests,       (* what the peers may send, each its pieces, and the    *)
                    (* code, text and number of commands that are due       *)
    SendBuffer,     (* how many pieces the kernel holds for a slow reader   *)
    MaxEvents       (* bound on the events for the websockets               *)

(* What is due to a request as a whole, by its first line, whether it has  *)
(* the headers of a websocket and whether it has a form.                   *)
Owed(r, code, text, n) == r.code = code /\ r.text = text /\ r.commands = n

Due(r, method, path, handshake, form) ==
    LET asks == <<method, path>>
        forms == {<<"POST", "/ctrls">>, <<"POST", "/a/ctrls">>}
    IN  \/ asks = <<"GET", "/">> /\ Owed(r, 200, Page, 0)
        \/ asks = <<"GET", "/ws">> /\ handshake /\ Owed(r, 101, <<>>, 0)
        \/ asks = <<"GET", "/ws">> /\ ~handshake /\ Owed(r, 400, <<<<"refused">>>>, 0)
        \/ asks = <<"POST", "/ctrls">> /\ form /\ Owed(r, 302, <<<<"link">>>>, 1)
        \/ asks = <<"POST", "/a/ctrls">> /\ form /\ Owed(r, 200, <<>>, 1)
        \/ asks \in forms /\ ~form /\ Owed(r, 400, <<<<"refused">>>>, 0)
        \/ asks \notin forms \cup {<<"GET", "/">>, <<"GET", "/ws">>}
             /\ Owed(r, 404, <<<<"notfound">>>>, 0)

(* The head of p ends with its n-th piece, and no line of it is refused.   *)
HeadEnds(p, n) == p[n] = <<"end">> /\ \A i \in 1 .. n - 1 : p[i] # <<"end">>
Proper(p, n) == \A i \in 1 .. n : /\ p[i][1] # "bad"
                                  /\ Opens(p, i) => p[i][1] = "first"

(* It has one first line and one length at most, a form is not beyond the  *)
(* length (other data may be), and if it is accepted, its answer is what   *)
(* is due.                                                                 *)
IsRequest(r) ==
    LET p == r.pieces
        all == 1 .. Len(p)
        is(kind, i) == p[i][1] = kind
        body(n) == n + 1 .. Len(p)
    IN  /\ p \in Seq(ToSet(p))
        /\ \A i \in all : is("first", i) =>
                /\ p[i] = <<"first", p[i][2], p[i][3], p[i][4]>>
                /\ p[i][2] \in {"GET", "POST"} /\ p[i][3] \in {"1.0", "1.1"}
        /\ \A i \in all : is("length", i) => p[i][2] \in Nat
        /\ \A i, j \in all : p[i][1] = p[j][1] /\ p[i][1] \in {"first", "length"} => i = j
        /\ \A n, i \in all : HeadEnds(p, n) /\ Proper(p, n) /\ i < n /\ is("first", i) =>
                /\ p[i][2] = "POST" /\ (\E j \in body(n) : p[j] = <<"form">>) =>
                        \E l \in 1 .. n, j \in body(n) :
                            is("length", l) /\ p[j] = <<"form">> /\ j <= n + p[l][2]
                /\ Due(r, p[i][2], p[i][4], \E j \in 1 .. n : p[j] = <<"handshake">>,
                       \E j \in body(n) : p[j] = <<"form">>)

ASSUME RequestsAssumption == \A r \in Requests, c \in Conn : IsRequest(r[c])

VARIABLES
    peer,       (* what the peer has left to send, and how it stands        *)
    inbox,      (* sent and not read by the server                          *)
    unread,     (* how many of the pieces written the peer has not read     *)
    clt,        (* struct client                                            *)
    mask,       (* the events the loop waits for                            *)
    at,         (* <<>> in the loop, or <<connection, what it must do first>> *)
    events,     (* how many events there were                               *)
    request,    (* history: what the peer sends in all                      *)
    written,    (* history: what was written to it                          *)
    opened,     (* history: events before the websocket was open            *)
    commands,   (* history: commands sent to the daemon for it              *)
    ended       (* history: how the server ended it, or "open"              *)

serverVars == <<clt, mask, at, events>>
peerVars == <<peer, inbox, unread, request>>
historyVars == <<written, opened, commands, ended>>
connVars == <<serverVars, peerVars, historyVars>>

WebConnInit ==
    /\ request \in Requests
    /\ peer = [c \in Conn |-> [left |-> request[c].pieces, is |-> "away"]]
    /\ inbox = [c \in Conn |-> <<>>] /\ unread = [c \in Conn |-> 0]
    /\ clt = [c \in Conn |-> NewClient] /\ mask = [c \in Conn |-> {}]
    /\ at = <<>> /\ events = 0
    /\ written = [c \in Conn |-> <<>>] /\ opened = [c \in Conn |-> 0]
    /\ commands = [c \in Conn |-> 0] /\ ended = [c \in Conn |-> "open"]

-----------------------------------------------------------------------------
(* The peers.                                                              *)
PeerIs(c, is) == peer' = [peer EXCEPT ![c].is = is]

Connect(c) == /\ peer[c].is = "away" /\ PeerIs(c, "waiting")
              /\ UNCHANGED <<inbox, unread, request, serverVars, historyVars>>

Linked(c) == peer[c].is \in {"waiting", "here"} /\ ended[c] = "open"

(* Some of what is left arrives.                                           *)
Send(c) == /\ Linked(c) /\ peer[c].left # <<>>
           /\ \E n \in 1 .. Len(peer[c].left) :
                /\ inbox' = [inbox EXCEPT ![c] = @ \o SubSeq(peer[c].left, 1, n)]
                /\ peer' = [peer EXCEPT ![c].left = SubSeq(@, n + 1, Len(@))]
           /\ UNCHANGED <<unread, request, serverVars, historyVars>>

PeerRead(c) == /\ unread[c] > 0 /\ peer[c].is # "gone"
               /\ unread' = [unread EXCEPT ![c] = @ - 1]
               /\ UNCHANGED <<peer, inbox, request, serverVars, historyVars>>

(* It goes away, or shuts down its side once it has sent all.              *)
Leave(c) == /\ Linked(c)
            /\ \/ PeerIs(c, "gone")
               \/ peer[c].left = <<>> /\ peer[c].is = "here" /\ PeerIs(c, "silent")
            /\ UNCHANGED <<inbox, unread, request, serverVars, historyVars>>

Peers(c) == Connect(c) \/ Send(c) \/ PeerRead(c) \/ Leave(c)

-----------------------------------------------------------------------------
(* web_accept() reads at once, without asking whether there is anything.   *)
Accept(c) == /\ at = <<>> /\ peer[c].is \in {"waiting", "gone"}
             /\ ended[c] = "open" /\ mask[c] = {}
             /\ peer' = [peer EXCEPT ![c].is = IF @ = "gone" THEN "gone" ELSE "here"]
             /\ at' = <<c, <<"R">>>>
             /\ UNCHANGED <<inbox, unread, request, clt, mask, events, historyVars>>

Readable(c) == inbox[c] # <<>> \/ peer[c].is \in {"silent", "gone"}
Writable(c) == unread[c] < SendBuffer \/ peer[c].is = "gone"

(* client_ev() is called with what poll() found.                           *)
Callback(c) ==
    /\ at = <<>> /\ ended[c] = "open"
    /\ \E todo \in {<<"R">>, <<"W">>, <<"R", "W">>} :
        /\ ToSet(todo) \subseteq mask[c]
        /\ "R" \in ToSet(todo) => Readable(c)
        /\ "W" \in ToSet(todo) => Writable(c)
        /\ at' = <<c, todo>>
    /\ UNCHANGED <<clt, mask, events, peerVars, historyVars>>

In(c, step) == at # <<>> /\ at[1] = c /\ at[2] # <<>> /\ Head(at[2]) = step

(* The client is removed and freed, with what is still in its buffers.     *)
End(c, how) ==
    /\ ended' = [ended EXCEPT ![c] = how]
    /\ clt' = [clt EXCEPT ![c] = NewClient] /\ mask' = [mask EXCEPT ![c] = {}]
    /\ at' = <<>> /\ UNCHANGED written

(* bufio_read(): until there is something the whole server waits.          *)
Read(c) == /\ In(c, "R") /\ Readable(c)
           /\ \/ /\ inbox[c] # <<>>
                 /\ clt' = [clt EXCEPT ![c].rbuf = @ \o inbox[c]]
                 /\ inbox' = [inbox EXCEPT ![c] = <<>>]
                 /\ at' = <<c, Tail(at[2])>>
                 /\ UNCHANGED <<mask, historyVars>>
              \/ /\ inbox[c] = <<>> \/ peer[c].is = "gone"
                 /\ End(c, "peer") /\ UNCHANGED <<inbox, opened, commands>>
           /\ UNCHANGED <<peer, unread, request, events>>

(* bufio_write(): a blocking write returns when all of it was taken.       *)
WriteOut(c) ==
    /\ In(c, "W") /\ Writable(c)
    /\ IF peer[c].is = "gone" THEN End(c, "peer") /\ UNCHANGED unread
       ELSE IF clt[c].wbuf = <<>> THEN End(c, "nothing written") /\ UNCHANGED unread
       ELSE /\ written' = [written EXCEPT ![c] = Append(@, Head(clt[c].wbuf))]
            /\ unread' = [unread EXCEPT ![c] = @ + 1]
            /\ clt' = [clt EXCEPT ![c].wbuf = Tail(@)]
            /\ at' = <<c, IF clt'[c].wbuf = <<>> THEN Tail(at[2]) ELSE at[2]>>
            /\ UNCHANGED <<mask, ended>>
    /\ UNCHANGED <<peer, inbox, request, events, opened, commands>>

(* A definition that follows one named Faulty... is what the code does;    *)
(* the faulty one is the bug that a run is shown to notice.                *)
FaultyMask(c, k) ==     (* waits for the peer to say more *)
    IF k.wbuf = <<>> /\ k.done THEN End(c, "done")
    ELSE /\ clt' = [clt EXCEPT ![c] = k]
         /\ mask' = [mask EXCEPT ![c] = {"R"}]
         /\ at' = <<>> /\ UNCHANGED <<written, ended>>

(* The label again: a client that is done ends when all is written.        *)
Again(c, k) ==
    IF k.wbuf = <<>> /\ k.done THEN End(c, "done")
    ELSE /\ clt' = [clt EXCEPT ![c] = k]
         /\ mask' = [mask EXCEPT ![c] = {"R"} \cup IF k.wbuf # <<>> THEN {"W"} ELSE {}]
         /\ at' = <<>> /\ UNCHANGED <<written, ended>>

(* route_dispatch() for a request that is complete.                        *)
Dispatch(c, k) ==
    /\ commands' = [commands EXCEPT ![c] = @ + IF IsCommand(k) THEN 1 ELSE 0]
    /\ opened' = [opened EXCEPT ![c] = IF InitWs(k) THEN events ELSE @]
    /\ \E r \in {RouteDispatch(k)} : Again(c, r)

Wait(c, k) == (\E r \in {k} : Again(c, r)) /\ UNCHANGED <<opened, commands>>

(* The rest of client_ev(): the head, the body, the route.                 *)
NewRequest(c) == \E k \in {Parse(clt[c])} :
    \/ k.invalid /\ End(c, "invalid") /\ UNCHANGED <<opened, commands>>
    \/ ~k.invalid /\ (~k.reqdone \/ BodyMissing(k)) /\ Wait(c, k)
    \/ ~k.invalid /\ k.reqdone /\ ~BodyMissing(k) /\ Dispatch(c, k)

FaultyProcess(c) ==     (* calls the route of a client that is done *)
    CASE clt[c].route = "none" -> NewRequest(c)
      [] clt[c].route = "page" -> Dispatch(c, clt[c])
      [] clt[c].route = "ws"   -> Wait(c, HandleWs(clt[c]))

Process(c) == IF clt[c].route = "none" THEN NewRequest(c)
              ELSE IF clt[c].route = "ws" /\ ~clt[c].done THEN Wait(c, HandleWs(clt[c]))
              ELSE Wait(c, clt[c])

ClientEv(c) == /\ at = <<c, <<>>>> /\ Process(c)
               /\ UNCHANGED <<events, peerVars>>

(* dispatch_event(): every open websocket gets the event.                  *)
Listening(c) == clt[c].ws /\ ~clt[c].done

DispatchEvent ==
    /\ at = <<>> /\ events < MaxEvents /\ events' = events + 1
    /\ clt' = [c \in Conn |-> IF Listening(c) THEN Frame(clt[c], <<"event", events'>>) ELSE clt[c]]
    /\ mask' = [c \in Conn |-> IF Listening(c) THEN {"R", "W"} ELSE mask[c]]
    /\ UNCHANGED <<at, peerVars, historyVars>>

Server(c) == Accept(c) \/ Callback(c) \/ Read(c) \/ WriteOut(c) \/ ClientEv(c)

WebConnNext == DispatchEvent \/ \E c \in Conn : Peers(c) \/ Server(c)

WebConnSpec == WebConnInit /\ [][WebConnNext]_connVars

(* The loop serves every descriptor that stays ready, or becomes ready     *)
(* again and again (AllServed of module EvLoop); a handler that is not     *)
(* blocked goes on; peers finish what they begin to send, and read.        *)
WebConnFair ==
    /\ WebConnSpec
    /\ \A c \in Conn : /\ SF_connVars(Server(c))
                       /\ WF_connVars(Send(c)) /\ WF_connVars(PeerRead(c))

-----------------------------------------------------------------------------
(* All that was composed for a peer: what was written, and what is to be.  *)
Stream(c) == written[c] \o clt[c].wbuf

Payload(s) == LET upTo[i \in 1 .. Len(s)] == IF i = 1 THEN <<>> ELSE upTo[i - 1] \o s[i][2]
              IN  upTo[Len(s)]

LastChunk == <<"chunk", <<>>>>

(* Where in what a websocket is sent an event is.                          *)
ToldAt(s) == {i \in 2 .. Len(s) : s[i][2][1][1] = "event"}

(* Whatever the way the request arrives in, what a peer is sent is one     *)
(* head, then the text that is due cut into chunks of which only the last  *)
(* is empty, or as it is; to a websocket, after the head, every event      *)
(* since, once and in order.                                               *)
InFrames == \A c \in Conn :
    LET s == Stream(c) IN
    s # <<>> =>
        /\ s[1] = <<"head", request[c].code, s[1][3]>>
        /\ \A i \in 2 .. Len(s) : /\ s[i][1] = IF s[1][3] THEN "chunk" ELSE "data"
                                  /\ s[i][2] = <<>> => i = Len(s)
        /\ IF request[c].code = 101
           THEN /\ ~s[1][3]
                /\ \A i \in 2 .. Len(s) : Len(s[i][2]) = 1
                /\ \A i \in ToldAt(s) :
                     s[i][2][1][2] = opened[c] + Cardinality({j \in ToldAt(s) : j <= i})
                /\ Listening(c) => Cardinality(ToldAt(s)) = events - opened[c]
           ELSE /\ IsPrefix(Payload(s), request[c].text)
                /\ ended[c] = "open" => Payload(s) = request[c].text

(* A client that the server is done with has been sent all of its answer,  *)
(* and no client is dropped because there was nothing to write to it.      *)
NothingTruncated == \A c \in Conn :
    /\ ended[c] # "nothing written"
    /\ ended[c] = "done" /\ request[c].code # 101 =>
        /\ written[c] # <<>> /\ Payload(written[c]) = request[c].text
        /\ written[c][1][3] => Last(written[c]) = LastChunk

(* Both: what a peer can read of an answer is well formed at any time, and *)
(* when the server closes the connection of its own accord it is complete. *)
WellFramed == InFrames /\ NothingTruncated

(* A form sends its command once, however often client_ev() is called, and *)
(* has sent it when it is answered.                                        *)
CommandOnce == \A c \in Conn :
    commands[c] = IF Stream(c) # <<>> THEN request[c].commands
                  ELSE IF ended[c] = "open" THEN 0 ELSE commands[c]

(* Who has sent a whole request and stays is answered to the end.          *)
Asked(c) == peer[c].is \in {"waiting", "here"} /\ peer[c].left = <<>>
Served(c) == /\ unread[c] = 0
             /\ CASE request[c].code = 0   -> ended[c] = "invalid"
                  [] request[c].code = 101 -> written[c] # <<>>
                  [] OTHER                 -> ended[c] = "done"
Answered == \A c \in Conn : Asked(c) ~> Served(c) \/ peer[c].is \in {"silent", "gone"}
=============================================================================
