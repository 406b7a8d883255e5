-------------------------------- MODULE Imsg --------------------------------
(***************************************************************************)
(* One direction of an imsg socket (compat/imsg.c, compat/imsg-buffer.c,   *)
(* imsg_event_add() of amused.c): the sender's buffers, a socket that      *)
(* takes and gives any number of bytes, and the reader that makes messages *)
(* of them.  Data are counted in units; a message is a header of Header    *)
(* units and a body, and may carry a descriptor.                           *)
(***************************************************************************)
EXTENDS Naturals, SequencesExt, FiniteSetsExt

CONSTANTS
    Kind,       (* kinds of messages                                        *)
    Body,       (* [Kind -> Nat], the units of their bodies                 *)
    Passes,     (* the kinds that carry a descriptor                        *)
    Header,     (* units of a header                                        *)
    MaxSize,    (* units of the largest message imsg_create() allows        *)
    Capacity,   (* units the socket holds                                   *)
    IovMax,     (* buffers given to one sendmsg()                           *)
    MaxSent     (* bound on the messages composed                           *)

ASSUME SizesAssumption == /\ Body \in [Kind -> Nat] /\ Passes \subseteq Kind
                          /\ {Header, MaxSize, IovMax} \subseteq Nat \ {0}
                          /\ Capacity \in Nat /\ Capacity >= Header /\ MaxSent \in Nat

NoMessage == [kind |-> "none", got |-> 0, fd |-> FALSE]

VARIABLES
    bufs,       (* composed and not written: [kind, rpos]                   *)
    wants,      (* EV_WRITE is registered for the socket                    *)
    wire,       (* units in the socket: <<kind, number of the unit, fd>>    *)
    rbuf,       (* units read that do not make a header yet                 *)
    rpmsg,      (* the message being assembled, or NoMessage                *)
    rbufs,      (* messages assembled and not taken                         *)
    up,         (* the sender is there                                      *)
    sent        (* how many messages were composed                          *)

imsgVars == <<bufs, wants, wire, rbuf, rpmsg, rbufs, up, sent>>

Size(k) == Header + Body[k]

ImsgInit == /\ bufs = <<>> /\ wants = FALSE
            /\ wire = <<>> /\ rbuf = <<>> /\ rpmsg = NoMessage /\ rbufs = <<>>
            /\ up = TRUE /\ sent = 0

-----------------------------------------------------------------------------
(* imsg_compose_event(): a message that is too large is refused, and       *)
(* nothing is sent for it.                                                 *)
Compose(k) == /\ up /\ sent < MaxSent
              /\ Size(k) <= MaxSize
              /\ bufs' = Append(bufs, [kind |-> k, rpos |-> 0])
              /\ wants' = TRUE
              /\ sent' = sent + 1
              /\ UNCHANGED <<wire, rbuf, rpmsg, rbufs, up>>

(* msgbuf_write() gathers buffers up to the next one with a descriptor: it *)
(* passes one at a time, with the first unit of its message.  A descriptor *)
(* already sent does not count.                                            *)
HasFd(b) == b.kind \in Passes /\ b.rpos = 0

(* A definition that follows one named Faulty... is what the code does;    *)
(* the faulty one is the bug that a run is shown to notice.                *)
FaultyGathered ==       (* does not stop at a descriptor *)
    SubSeq(bufs, 1, IF Len(bufs) < IovMax THEN Len(bufs) ELSE IovMax)

Gathered ==
    LET stops == {i \in 2 .. Len(bufs) : HasFd(bufs[i])}
        n == Min({Len(bufs), IovMax} \cup {i - 1 : i \in stops})
    IN  SubSeq(bufs, 1, n)

(* The next unit to write.  Only the descriptor of the first buffer of all *)
(* goes into the control message.                                          *)
Left(b) == Size(b.kind) - b.rpos
Unit(b, first) == <<b.kind, b.rpos + 1, first /\ HasFd(b)>>

(* msgbuf_drain(): the buffers when 0, 1, ... n units have been written of *)
(* them; they are freed or shortened.                                      *)
Shorten(bs) == IF Left(Head(bs)) = 1 THEN Tail(bs)
               ELSE <<[Head(bs) EXCEPT !.rpos = @ + 1]>> \o Tail(bs)
Drain(bs, n) == LET after[i \in 0 .. n] ==
                        IF i = 0 THEN bs
                        ELSE IF after[i - 1] = <<>> THEN <<>> ELSE Shorten(after[i - 1])
                IN  after

(* The event loop finds the socket writable.  The kernel takes what it has *)
(* room for, but not less than a header of what it is offered (its low-    *)
(* water mark).  imsg_event_add() then asks to write again if there is     *)
(* something left.                                                         *)
FaultyWantsMore(bs) == FALSE    (* waits for the next message instead *)

WantsMore(bs) == bs # <<>>

Write == /\ up /\ wants
         /\ \E n \in 1 .. Capacity - Len(wire) :
              LET after == Drain(bufs, n)
                  kept == Len(bufs) - Len(Gathered)
              IN  /\ Len(after[n - 1]) > kept
                  /\ n >= Header \/ Len(after[n]) = kept
                  /\ wire' = wire \o [i \in 1 .. n |-> Unit(Head(after[i - 1]), i = 1)]
                  /\ bufs' = after[n]
         /\ wants' = WantsMore(bufs')
         /\ UNCHANGED <<rbuf, rpmsg, rbufs, up, sent>>

(* The sender exits, or closes the socket with messages still queued.      *)
Close == /\ up /\ up' = FALSE
         /\ bufs' = <<>> /\ wants' = FALSE
         /\ UNCHANGED <<wire, rbuf, rpmsg, rbufs, sent>>

-----------------------------------------------------------------------------
(* ibuf_read_process(), unit by unit: s holds the header so far, the       *)
(* message being assembled, the finished ones and the descriptor that came *)
(* with this read, which goes to the first header that is marked.          *)
FaultyFinish(s) == IF s.msg.got > Size(s.msg.kind)
                   THEN [s EXCEPT !.msg = NoMessage,
                            !.done = Append(@, [kind |-> s.msg.kind, fd |-> s.msg.fd])]
                   ELSE s

Finish(s) == IF s.msg.got = Size(s.msg.kind)
             THEN [s EXCEPT !.msg = NoMessage,
                            !.done = Append(@, [kind |-> s.msg.kind, fd |-> s.msg.fd])]
             ELSE s

FaultyParseHeader(s, k) ==      (* counts the body only, not the header *)
    [s EXCEPT !.head = <<>>,
              !.msg = [kind |-> k, got |-> 0, fd |-> k \in Passes /\ s.fd],
              !.fd = s.fd /\ k \notin Passes]

ParseHeader(s, k) ==
    [s EXCEPT !.head = <<>>,
              !.msg = [kind |-> k, got |-> Header, fd |-> k \in Passes /\ s.fd],
              !.fd = s.fd /\ k \notin Passes]

TakeUnit(s, u) ==
    IF s.msg # NoMessage THEN Finish([s EXCEPT !.msg.got = @ + 1])
    ELSE IF Len(s.head) + 1 < Header THEN [s EXCEPT !.head = Append(@, u)]
    ELSE Finish(ParseHeader(s, Append(s.head, u)[1][1]))

Taken(s, units) == LET upTo[i \in 0 .. Len(units)] ==
                            IF i = 0 THEN s ELSE TakeUnit(upTo[i - 1], units[i])
                   IN  upTo[Len(units)]

(* How much one read returns: any part of what is there, but a descriptor  *)
(* comes with the whole header it was sent with, and alone.                *)
Fds(units) == {i \in DOMAIN units : units[i][3]}
Readable == {n \in 1 .. Len(wire) :
                LET fds == Fds(SubSeq(wire, 1, n)) IN
                /\ \A i, j \in fds : i = j
                /\ \A i \in fds : n >= i + Header - 1}

Read == \E n \in Readable :
            LET units == SubSeq(wire, 1, n)
                s == Taken([head |-> rbuf, msg |-> rpmsg, done |-> rbufs,
                            fd |-> Fds(units) # {}], units)
            IN  /\ rbuf' = s.head /\ rpmsg' = s.msg /\ rbufs' = s.done
                /\ wire' = SubSeq(wire, n + 1, Len(wire))
                /\ UNCHANGED <<bufs, wants, up, sent>>

(* imsg_get().                                                             *)
Take == /\ rbufs # <<>> /\ rbufs' = Tail(rbufs)
        /\ UNCHANGED <<bufs, wants, wire, rbuf, rpmsg, up, sent>>

ImsgNext == (\E k \in Kind : Compose(k)) \/ Write \/ Close \/ Read \/ Take

ImsgSpec == ImsgInit /\ [][ImsgNext]_imsgVars
ImsgFair == ImsgSpec /\ WF_imsgVars(Write) /\ WF_imsgVars(Read) /\ WF_imsgVars(Take)

-----------------------------------------------------------------------------
ImsgTypeOK ==
    /\ bufs \in Seq([kind : Kind, rpos : Nat])
    /\ wire \in Seq(Kind \X Nat \X BOOLEAN) /\ rbuf \in Seq(Kind \X Nat \X BOOLEAN)
    /\ rpmsg \in [kind : Kind \cup {"none"}, got : Nat, fd : BOOLEAN]
    /\ rpmsg # NoMessage => rpmsg.got < Size(rpmsg.kind)
    /\ rbufs \in Seq([kind : Kind, fd : BOOLEAN])
    /\ {wants, up} \subseteq BOOLEAN /\ sent \in 0 .. MaxSent

(* Seen from outside, a message is under way until its last unit has been  *)
(* read, and those that are read have the descriptor they were sent with.  *)
(* What a sender that dies has written half of never shows up.             *)
AsSent(k) == [kind |-> k, fd |-> k \in Passes]
Ends(u) == u[2] = Size(u[1])
Arriving(units) ==
    LET upTo[i \in 0 .. Len(units)] ==
            IF i = 0 THEN <<>>
            ELSE IF Ends(units[i]) THEN Append(upTo[i - 1], AsSent(units[i][1]))
            ELSE upTo[i - 1]
    IN  upTo[Len(units)]

Underway == rbufs \o Arriving(wire) \o [i \in DOMAIN bufs |-> AsSent(bufs[i].kind)]

Whole == INSTANCE MessageQueue WITH
    Message <- {AsSent(k) : k \in Kind},
    queue   <- Underway

(* The two buffers and the socket together are a queue of whole messages:  *)
(* none is torn, lost, doubled or overtaken, and none comes without the    *)
(* descriptor the player must have ("got invalid file descriptor").        *)
IsMessageQueue == Whole!QueueSpec

(* Whatever was composed leaves, and whatever left is received.            *)
AllArrive == [](sent > 0 => <>(bufs = <<>> /\ wire = <<>> /\ rbufs = <<>>))
=============================================================================
