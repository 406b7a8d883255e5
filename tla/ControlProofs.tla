---------------------------- MODULE ControlProofs ---------------------------
(***************************************************************************)
(* The control socket for any number of clients, files and descriptors: a  *)
(* load is atomic, the lock has an owner, and the clients tell their users *)
(* the truth.                                                              *)
(*                                                                         *)
(* The invariant follows each client through its dialogue with the daemon: *)
(* what it has been told, what is still in its socket and what the daemon  *)
(* has done for it are known from one another.                             *)
(***************************************************************************)
EXTENDS Control, PlaylistProofs

(* The daemon holds the lock for c.                                        *)
Holds(c) == tx # None /\ conn[tx] = c

(* What a load sends once it has the lock.                                 *)
Script(c) == Append(Adds(c), Request("COMMIT", None, 1))

(* The messages in q are those that come in s after the first k, or the    *)
(* first of them if the sender died.                                       *)
Follows(q, s, k) == /\ k + Len(q) <= Len(s)
                    /\ \A i \in 1 .. Len(q) : q[i] = s[k + i]

Unborn(c) == /\ status[c] = "new" /\ ~Holds(c)
             /\ inbox[c] = <<>> /\ outbox[c] = <<>>
             /\ done[c] = {} /\ heard[c] = 0

-----------------------------------------------------------------------------
(* The stations of a load.                                                 *)
Asking(c) == /\ status[c] \in {"asked", "killed"} /\ ~Holds(c)
             /\ inbox[c] = <<Request("BEGIN", None, 1)>> /\ outbox[c] = <<>>
             /\ done[c] = {}

Holding(c) ==
    /\ Holds(c) /\ done[c] = {}
    /\ Len(staged) <= Len(Paths(c))
    /\ \A k \in 1 .. Len(staged) : staged[k] = Paths(c)[k]
    /\ \/ /\ status[c] = "asked" /\ inbox[c] = <<>> /\ outbox[c] = <<"BEGIN">>
          /\ staged = <<>>
       \/ /\ status[c] = "reading" /\ inbox[c] = <<>> /\ outbox[c] = <<>>
          /\ staged = <<>>
       \/ /\ status[c] = "sent" /\ Follows(inbox[c], Script(c), Len(staged))
          /\ Len(staged) + Len(inbox[c]) = Len(Script(c))
          /\ \A k \in 1 .. Len(outbox[c]) : outbox[c][k] = "ADD"
       \/ status[c] = "killed" /\ Follows(inbox[c], Script(c), Len(staged))

Through(c) ==
    /\ ~Holds(c) /\ inbox[c] = <<>> /\ done[c] = {1}
    /\ \/ /\ status[c] = "sent" /\ outbox[c] # <<>>
          /\ \A k \in 1 .. Len(outbox[c]) :
                outbox[c][k] = IF k = Len(outbox[c]) THEN "COMMIT" ELSE "ADD"
       \/ status[c] \in {"ok", "killed"}

Refused(c) ==
    /\ ~Holds(c) /\ inbox[c] = <<>> /\ done[c] = {}
    /\ \/ status[c] = "asked" /\ outbox[c] = <<"ERR">>
       \/ status[c] \in {"failed", "killed"}

LoadDialogue(c) == Unborn(c) \/ Asking(c) \/ Holding(c) \/ Through(c) \/ Refused(c)

(* An add: the first k of its requests have been answered.                 *)
Answers(c, k) ==
    /\ ~Holds(c)
    /\ Follows(inbox[c], Adds(c), k)
    /\ done[c] \subseteq 1 .. k
    /\ \/ /\ status[c] = "asked" /\ k + Len(inbox[c]) = Len(Adds(c))
          /\ heard[c] + Len(outbox[c]) = k
          /\ heard[c] < Len(Files[c])
          /\ \A n \in 1 .. k :
                n \in done[c] <=> n <= heard[c] \/ outbox[c][n - heard[c]] = "ADD"
          /\ \A n \in 1 .. Len(outbox[c]) : outbox[c][n] \in {"ADD", "ERR"}
       \/ status[c] = "ok" /\ done[c] = 1 .. Len(Paths(c)) /\ inbox[c] = <<>>
       \/ status[c] \in {"failed", "killed"}

AddDialogue(c) == Unborn(c) \/ \E k \in Nat : Answers(c, k)

(* A flush or a shuffle: nobody waits for its answer.                      *)
LoneDialogue(c) ==
    \/ Unborn(c)
    \/ /\ status[c] = "ok" /\ ~Holds(c)
       /\ inbox[c] = <<>> \/ (inbox[c] = FirstRequests(c) /\ done[c] = {})

Dialogue(c) == IF Verb[c] = "load" THEN LoadDialogue(c)
               ELSE IF Verb[c] = "add" THEN AddDialogue(c) ELSE LoneDialogue(c)

(* A client has one connection at most, once it has started, and the lock  *)
(* is that of a connection.                                                *)
Wired ==
    /\ \A f, g \in Fd : conn[f] = conn[g] /\ conn[f] # None => f = g
    /\ \A i, j \in 1 .. Len(backlog) : backlog[i] = backlog[j] => i = j
    /\ \A f \in Fd, i \in 1 .. Len(backlog) : conn[f] # backlog[i]
    /\ \A f \in Fd : conn[f] # None => status[conn[f]] # "new"
    /\ \A i \in 1 .. Len(backlog) : status[backlog[i]] # "new"
    /\ tx # None => conn[tx] # None
    /\ tx = None => staged = <<>>

ControlInv == /\ ControlTypeOK /\ WellFormed(pl) /\ Wired
              /\ \A c \in Client : Dialogue(c)

-----------------------------------------------------------------------------
LEMMA Nil ==
    ASSUME NEW S, NEW s \in Seq(S), Len(s) = 0
    PROVE  s = <<>>
  <1>1. 0 \notin Nat \ {0}
    OBVIOUS
  <1>2. QED
    BY <1>1, EmptySeq, Zenon

(* What is to be read after some messages are gone.                        *)
LEMMA FollowsTail ==
    ASSUME NEW S, NEW q \in Seq(S), q # <<>>, NEW T, NEW s \in Seq(T), NEW k \in Nat,
           Follows(q, s, k)
    PROVE  /\ Head(q) = s[k + 1] /\ k + 1 <= Len(s)
           /\ Follows(Tail(q), s, k + 1)
           /\ (k + 1) + Len(Tail(q)) = k + Len(q)
  <1>1. PICK n \in Nat : n = Len(Tail(q)) /\ Len(q) = n + 1
    OBVIOUS
  <1>2. Head(q) = q[1] /\ \A i \in 1 .. n : Tail(q)[i] = q[i + 1]
    BY <1>1
  <1>3. \A i \in 1 .. n : i + 1 \in 1 .. Len(q) /\ k + (i + 1) = (k + 1) + i
    BY <1>1
  <1>4. \A i \in 1 .. n : Tail(q)[i] = s[(k + 1) + i]
    BY <1>2, <1>3 DEF Follows
  <1>5. Len(s) \in Nat
    OBVIOUS
  <1>6. k + Len(q) <= Len(s) /\ q[1] = s[k + 1]
    BY <1>1 DEF Follows
  <1>7. (k + 1) + n <= Len(s) /\ k + 1 <= Len(s)
    BY <1>1, <1>5, <1>6
  <1>8. QED
    BY <1>1, <1>2, <1>4, <1>6, <1>7 DEF Follows

LEMMA FollowsCut ==
    ASSUME NEW S, NEW q \in Seq(S), NEW T, NEW s \in Seq(T), NEW k \in Nat,
           Follows(q, s, k), NEW n \in 0 .. Len(q)
    PROVE  Follows(SubSeq(q, 1, n), s, k)
  <1>1. SubSeq(q, 1, n) \in Seq(S) /\ Len(SubSeq(q, 1, n)) = n
        /\ \A i \in 1 .. n : SubSeq(q, 1, n)[i] = q[i]
    BY SubSeqProperties
  <1>2. Len(q) \in Nat /\ Len(s) \in Nat
    OBVIOUS
  <1>3. QED
    BY <1>1, <1>2 DEF Follows

LEMMA Tailed ==
    ASSUME NEW S, NEW s \in Seq(S), NEW n \in Nat, Len(s) = n + 1
    PROVE  /\ Len(Tail(s)) = n /\ Tail(s) \in Seq(S)
           /\ n = 0 => Tail(s) = <<>>
           /\ n # 0 => Tail(s) # <<>>
           /\ \A i \in 1 .. n : Tail(s)[i] = s[i + 1]
  <1>1. s # <<>>
    OBVIOUS
  <1>2. Tail(s) \in Seq(S) /\ Len(Tail(s)) = n
    BY <1>1
  <1>3. \A i \in 1 .. n : Tail(s)[i] = s[i + 1]
    BY <1>1, <1>2
  <1>4. n = 0 => Tail(s) = <<>>
    BY <1>2, Nil
  <1>5. QED
    BY <1>2, <1>3, <1>4

LEMMA FollowsStart ==
    ASSUME NEW T, NEW s \in Seq(T)
    PROVE  Follows(s, s, 0) /\ Follows(<<>>, s, 0)
  BY DEF Follows

RequestType == [type : {"BEGIN", "ADD", "COMMIT", "FLUSH", "SHUFFLE"},
                song : Song \cup {None}, nth : Nat \ {0}]

(* The loop over the files: each is sent if it can be resolved.            *)
SentFrom(f, files, m) ==
    f = [k \in 0 .. m |->
            IF k = 0 THEN <<>>
            ELSE IF files[k] \in Resolvable THEN Append(f[k - 1], files[k])
            ELSE f[k - 1]]

LEMMA LoopSends ==
    ASSUME NEW files, NEW N \in Nat
    PROVE  \E f : SentFrom(f, files, N)
  <1> DEFINE Q == {m \in Nat : \E f : SentFrom(f, files, m)}
  <1>1. 0 \in Q
    <2>1. SentFrom([k \in 0 .. 0 |-> <<>>], files, 0)
      BY DEF SentFrom
    <2>2. QED
      BY <2>1
  <1>2. ASSUME NEW m \in Nat, m \in Q PROVE m + 1 \in Q
    <2>1. PICK f : SentFrom(f, files, m)
      BY <1>2
    <2> DEFINE T == IF files[m + 1] \in Resolvable THEN Append(f[m], files[m + 1]) ELSE f[m]
               g == [k \in 0 .. m + 1 |-> IF k = m + 1 THEN T ELSE f[k]]
    <2>2. ASSUME NEW k \in 0 .. m + 1
          PROVE  g[k] = IF k = 0 THEN <<>>
                        ELSE IF files[k] \in Resolvable THEN Append(g[k - 1], files[k])
                        ELSE g[k - 1]
      <3>1. CASE k = m + 1
        <4>1. k # 0 /\ k - 1 = m /\ m \in 0 .. m + 1 /\ m # m + 1
          BY <3>1
        <4>2. g[k] = T /\ g[k - 1] = f[m]
          BY <3>1, <4>1
        <4> HIDE DEF g
        <4>3. QED
          BY <3>1, <4>1, <4>2
      <3>2. CASE k # m + 1
        <4>1. k \in 0 .. m /\ (k # 0 => k - 1 \in 0 .. m /\ k - 1 # m + 1)
          BY <3>2
        <4>2. g[k] = f[k] /\ (k # 0 => g[k - 1] = f[k - 1])
          BY <3>2, <4>1
        <4>3. f[k] = IF k = 0 THEN <<>>
                     ELSE IF files[k] \in Resolvable THEN Append(f[k - 1], files[k])
                     ELSE f[k - 1]
          <5> HIDE DEF g, T
          <5>1. QED
            BY <2>1, <4>1 DEF SentFrom
        <4> HIDE DEF g
        <4>4. QED
          BY <4>2, <4>3
      <3>3. QED
        BY <3>1, <3>2
    <2>3. g = [k \in 0 .. m + 1 |-> g[k]]
      OBVIOUS
    <2> HIDE DEF g, T
    <2>4. SentFrom(g, files, m + 1)
      BY <2>2, <2>3 DEF SentFrom
    <2>5. QED
      BY <2>4
  <1> HIDE DEF Q
  <1>3. Nat \subseteq Q
    BY <1>1, <1>2, Induct
  <1>4. QED
    BY <1>3 DEF Q

LEMMA ResolvedIsList ==
    ASSUME NEW files \in Seq(Song)
    PROVE  Resolved(files) \in Seq(Song) /\ Len(Resolved(files)) <= Len(files)
  <1>1. PICK N \in Nat : N = Len(files)
    BY LenProperties
  <1> DEFINE sent == CHOOSE f : SentFrom(f, files, N)
  <1>2. SentFrom(sent, files, N)
    BY LoopSends
  <1>3. Resolved(files) = sent[N]
    BY <1>1 DEF Resolved, SentFrom
  <1> HIDE DEF sent
  <1>4. ASSUME NEW k \in 0 .. N
        PROVE  sent[k] = IF k = 0 THEN <<>>
                         ELSE IF files[k] \in Resolvable THEN Append(sent[k - 1], files[k])
                         ELSE sent[k - 1]
    BY <1>2 DEF SentFrom
  <1> DEFINE Q == {m \in Nat : m <= N => sent[m] \in Seq(Song) /\ Len(sent[m]) <= m}
  <1>5. 0 \in Q
    <2>1. sent[0] = <<>>
      BY <1>4
    <2>2. <<>> \in Seq(Song) /\ Len(<<>>) <= 0
      BY EmptySeq
    <2>3. QED
      BY <2>1, <2>2
  <1>6. ASSUME NEW m \in Nat, m \in Q PROVE m + 1 \in Q
    <2> SUFFICES ASSUME m + 1 <= N
                 PROVE  sent[m + 1] \in Seq(Song) /\ Len(sent[m + 1]) <= m + 1
      OBVIOUS
    <2>1. sent[m] \in Seq(Song) /\ Len(sent[m]) \in Nat /\ Len(sent[m]) <= m
      BY <1>6, LenProperties
    <2>2. m + 1 \in 0 .. N /\ m + 1 # 0 /\ m + 1 - 1 = m /\ m + 1 \in 1 .. Len(files)
      BY <1>1
    <2>3. sent[m + 1] = Append(sent[m], files[m + 1]) \/ sent[m + 1] = sent[m]
      <3>1. PICK k \in 0 .. N : k = m + 1
        BY <2>2
      <3>2. k # 0 /\ k - 1 = m
        BY <3>1
      <3>3. sent[k] = Append(sent[k - 1], files[k]) \/ sent[k] = sent[k - 1]
        BY <1>4, <3>2
      <3>4. QED
        BY <3>1, <3>2, <3>3
    <2>4. files[m + 1] \in Song
      BY <2>2, ElementOfSeq
    <2>5. CASE sent[m + 1] = Append(sent[m], files[m + 1])
      <3>1. /\ Append(sent[m], files[m + 1]) \in Seq(Song)
            /\ Len(Append(sent[m], files[m + 1])) = Len(sent[m]) + 1
        BY <2>1, <2>4, AppendProperties
      <3>2. QED
        BY <2>1, <2>5, <3>1
    <2>6. CASE sent[m + 1] = sent[m]
      BY <2>1, <2>6
    <2>7. QED
      BY <2>3, <2>5, <2>6
  <1> HIDE DEF Q
  <1>7. Nat \subseteq Q
    BY <1>5, <1>6, Induct
  <1>8. QED
    BY <1>1, <1>3, <1>7 DEF Q

(* What the clients send.                                                  *)
LEMMA Lists ==
    ASSUME NEW c \in Client
    PROVE  /\ Paths(c) \in Seq(Song) /\ Len(Paths(c)) \in Nat
           /\ Len(Files[c]) \in Nat /\ Len(Paths(c)) <= Len(Files[c])
           /\ Adds(c) \in Seq(RequestType) /\ Len(Adds(c)) = Len(Paths(c))
           /\ \A n \in 1 .. Len(Paths(c)) : Adds(c)[n] = Request("ADD", Paths(c)[n], n)
           /\ Script(c) \in Seq(RequestType) /\ Len(Script(c)) = Len(Paths(c)) + 1
           /\ \A n \in 1 .. Len(Paths(c)) : Script(c)[n] = Request("ADD", Paths(c)[n], n)
           /\ Script(c)[Len(Paths(c)) + 1] = Request("COMMIT", None, 1)
  <1>1. Paths(c) \in Seq(Song) /\ Len(Paths(c)) <= Len(Files[c])
    BY ResolvedIsList, ClientAssumption DEF Paths
  <1>2. Files[c] \in Seq(Song) /\ Len(Files[c]) \in Nat /\ Len(Paths(c)) \in Nat
    BY <1>1, ClientAssumption
  <1>3. \A n \in 1 .. Len(Paths(c)) : Request("ADD", Paths(c)[n], n) \in RequestType
    BY <1>1, <1>2 DEF Request, RequestType
  <1>4. /\ Adds(c) \in Seq(RequestType) /\ Len(Adds(c)) = Len(Paths(c))
        /\ \A n \in 1 .. Len(Paths(c)) : Adds(c)[n] = Request("ADD", Paths(c)[n], n)
    BY <1>2, <1>3 DEF Adds
  <1>5. Request("COMMIT", None, 1) \in RequestType
    BY DEF Request, RequestType
  <1>6. /\ Script(c) \in Seq(RequestType) /\ Len(Script(c)) = Len(Paths(c)) + 1
        /\ \A n \in 1 .. Len(Paths(c)) : Script(c)[n] = Adds(c)[n]
        /\ Script(c)[Len(Paths(c)) + 1] = Request("COMMIT", None, 1)
    BY <1>2, <1>4, <1>5 DEF Script
  <1>7. QED
    BY <1>1, <1>2, <1>4, <1>6

LEMMA FirstType ==
    ASSUME NEW c \in Client
    PROVE  FirstRequests(c) \in Seq(RequestType)
  <1>1. \A t \in {"BEGIN", "FLUSH", "SHUFFLE"} : <<Request(t, None, 1)>> \in Seq(RequestType)
    <2>1. \A t \in {"BEGIN", "FLUSH", "SHUFFLE"} : Request(t, None, 1) \in RequestType
      BY DEF Request, RequestType
    <2>2. QED
      BY <2>1
  <1>2. QED
    BY <1>1, Lists DEF FirstRequests

(* A client that nothing happens to.                                       *)
LEMMA DialogueKept ==
    ASSUME NEW d \in Client, Dialogue(d),
           status'[d] = status[d], inbox'[d] = inbox[d], outbox'[d] = outbox[d],
           heard'[d] = heard[d], done'[d] = done[d],
           Holds(d)' <=> Holds(d), Holds(d) => staged' = staged
    PROVE  Dialogue(d)'
  <1>1. Unborn(d) => Unborn(d)'
    BY DEF Unborn
  <1>2. Asking(d) => Asking(d)'
    BY DEF Asking
  <1>3. Holding(d) => Holding(d)'
    BY DEF Holding
  <1>4. Through(d) => Through(d)'
    BY DEF Through
  <1>5. Refused(d) => Refused(d)'
    BY DEF Refused
  <1>6. \A k \in Nat : Answers(d, k) => Answers(d, k)'
    BY DEF Answers
  <1>7. LoneDialogue(d) => LoneDialogue(d)'
    BY <1>1 DEF LoneDialogue
  <1>8. QED
    BY <1>1, <1>2, <1>3, <1>4, <1>5, <1>6, <1>7 DEF Dialogue, LoadDialogue, AddDialogue

(* The steps of a client leave the daemon alone.                           *)
LEMMA ClientFrame ==
    ASSUME ControlInv, NEW c \in Client, UNCHANGED daemonVars,
           \A d \in Client \ {c} :
              /\ status'[d] = status[d] /\ inbox'[d] = inbox[d]
              /\ outbox'[d] = outbox[d] /\ heard'[d] = heard[d],
           Dialogue(c)'
    PROVE  \A d \in Client : Dialogue(d)'
  <1> SUFFICES ASSUME NEW d \in Client, d # c PROVE Dialogue(d)'
    OBVIOUS
  <1>1. (Holds(d)' <=> Holds(d)) /\ done' = done /\ staged' = staged
    BY DEF Holds, daemonVars
  <1>2. QED
    BY <1>1, DialogueKept DEF ControlInv

LEMMA StartTypes ==
    ASSUME ControlInv, NEW c \in Client, Start(c)
    PROVE  ControlTypeOK' /\ WellFormed(pl)'
  <1>1. FirstRequests(c) \in Seq(RequestType)
    BY FirstType
  <1>2. inbox' \in [Client -> Seq(RequestType)]
    BY <1>1 DEF Start, ControlInv, ControlTypeOK, RequestType
  <1>3. status' \in [Client -> Status] /\ backlog' \in Seq(Client)
    BY DEF Start, ControlInv, ControlTypeOK, Status
  <1>4. UNCHANGED <<daemonVars, outbox, heard>>
    BY DEF Start
  <1>5. QED
    BY <1>2, <1>3, <1>4 DEF daemonVars, ControlInv, ControlTypeOK, RequestType,
                            WellFormed, Offsets

LEMMA HearTypes ==
    ASSUME ControlInv, NEW c \in Client, Hear(c)
    PROVE  ControlTypeOK' /\ WellFormed(pl)'
  <1>1. outbox' \in [Client -> Seq({"ERR", "BEGIN", "ADD", "COMMIT"})]
    BY DEF Hear, ControlInv, ControlTypeOK
  <1>2. heard' \in [Client -> Nat]
    BY DEF Hear, ControlInv, ControlTypeOK
  <1>3. status' \in [Client -> Status]
    <2>1. PICK s \in Status : status' = [status EXCEPT ![c] = s]
      BY DEF Hear, ControlInv, ControlTypeOK, Status
    <2>2. QED
      BY <2>1 DEF ControlInv, ControlTypeOK
  <1>4. UNCHANGED <<daemonVars, backlog, inbox>>
    BY DEF Hear
  <1>5. QED
    BY <1>1, <1>2, <1>3, <1>4 DEF daemonVars, ControlInv, ControlTypeOK, WellFormed, Offsets

LEMMA SendListTypes ==
    ASSUME ControlInv, NEW c \in Client, SendList(c)
    PROVE  ControlTypeOK' /\ WellFormed(pl)'
  <1>1. Script(c) \in Seq(RequestType)
    BY Lists
  <1>2. inbox[c] \o Script(c) \in Seq(RequestType)
    <2>1. inbox[c] \in Seq(RequestType)
      BY DEF ControlInv, ControlTypeOK, RequestType
    <2>2. QED
      BY <1>1, <2>1, ConcatProperties
  <1>3. inbox' \in [Client -> Seq(RequestType)]
    BY <1>2 DEF SendList, Script, ControlInv, ControlTypeOK, RequestType
  <1>4. status' \in [Client -> Status]
    BY DEF SendList, ControlInv, ControlTypeOK, Status
  <1>5. UNCHANGED <<daemonVars, backlog, outbox, heard>>
    BY DEF SendList
  <1>6. QED
    BY <1>3, <1>4, <1>5 DEF daemonVars, ControlInv, ControlTypeOK, RequestType,
                            WellFormed, Offsets

LEMMA DieTypes ==
    ASSUME ControlInv, NEW c \in Client, Die(c)
    PROVE  ControlTypeOK' /\ WellFormed(pl)'
  <1>1. PICK n \in 0 .. Len(inbox[c]) :
           inbox' = [inbox EXCEPT ![c] = SubSeq(inbox[c], 1, n)]
    BY DEF Die
  <1>2. inbox[c] \in Seq(RequestType)
    BY DEF ControlInv, ControlTypeOK, RequestType
  <1>3. SubSeq(inbox[c], 1, n) \in Seq(RequestType)
    BY <1>2, SubSeqProperties
  <1>4. inbox' \in [Client -> Seq(RequestType)]
    BY <1>1, <1>3 DEF ControlInv, ControlTypeOK, RequestType
  <1>5. status' \in [Client -> Status]
    BY DEF Die, ControlInv, ControlTypeOK, Status
  <1>6. UNCHANGED <<daemonVars, backlog, outbox, heard>>
    BY DEF Die
  <1>7. QED
    BY <1>4, <1>5, <1>6 DEF daemonVars, ControlInv, ControlTypeOK, RequestType,
                            WellFormed, Offsets

-----------------------------------------------------------------------------
(* A client starts: its requests are in its socket, which is in the        *)
(* backlog.                                                                *)
LEMMA NewIsUnborn ==
    ASSUME ControlInv, NEW c \in Client, status[c] = "new"
    PROVE  Unborn(c)
  BY DEF ControlInv, Dialogue, LoadDialogue, AddDialogue, LoneDialogue, Asking, Holding,
         Through, Refused, Answers

LEMMA StartWired ==
    ASSUME ControlInv, NEW c \in Client, Start(c)
    PROVE  Wired'
  <1>1. /\ status[c] = "new" /\ backlog' = Append(backlog, c) /\ UNCHANGED daemonVars
        /\ \A d \in Client : d # c => status'[d] = status[d]
        /\ status'[c] \in {"failed", "asked", "ok"}
    BY DEF Start, ControlInv, ControlTypeOK
  <1>2. backlog \in Seq(Client) /\ conn \in [Fd -> Client \cup {None}]
    BY DEF ControlInv, ControlTypeOK
  <1>3. /\ \A f \in Fd : conn[f] # c
        /\ \A i \in 1 .. Len(backlog) : backlog[i] # c
    BY <1>1, NoneIsNobody DEF ControlInv, Wired
  <1>n. PICK n \in Nat : n = Len(backlog)
    BY <1>2
  <1>4. Len(backlog') = n + 1 /\ backlog'[n + 1] = c
        /\ \A i \in 1 .. n : backlog'[i] = backlog[i] /\ backlog[i] \in Client
    BY <1>1, <1>2, <1>n
  <1>5. \A f \in Fd : conn[f] # None => status'[conn[f]] # "new"
    BY <1>1, <1>2 DEF ControlInv, Wired
  <1>6. \A i \in 1 .. n + 1 : status'[backlog'[i]] # "new"
    <2> SUFFICES ASSUME NEW i \in 1 .. n + 1 PROVE status'[backlog'[i]] # "new"
      OBVIOUS
    <2>1. CASE i = n + 1
      BY <1>1, <1>4, <2>1
    <2>2. CASE i # n + 1
      BY <1>1, <1>3, <1>4, <1>n, <2>2 DEF ControlInv, Wired
    <2>3. QED
      BY <2>1, <2>2
  <1>7. \A i, j \in 1 .. n + 1 : backlog'[i] = backlog'[j] => i = j
    <2>1. \A i, j \in 1 .. n : backlog[i] = backlog[j] => i = j
      BY <1>n DEF ControlInv, Wired
    <2>2. QED
      BY <1>3, <1>4, <1>n, <2>1
  <1>8. \A f \in Fd, i \in 1 .. n + 1 : conn[f] # backlog'[i]
    BY <1>3, <1>4, <1>n DEF ControlInv, Wired
  <1>9. QED
    BY <1>1, <1>4, <1>5, <1>6, <1>7, <1>8 DEF ControlInv, Wired, daemonVars

LEMMA StartGood ==
    ASSUME ControlInv, NEW c \in Client, Start(c)
    PROVE  ControlInv'
  <1>1. Unborn(c)
    BY NewIsUnborn DEF Start
  <1>2. /\ inbox'[c] = FirstRequests(c) /\ outbox'[c] = <<>> /\ heard'[c] = 0
        /\ status'[c] = IF Verb[c] = "add" /\ Files[c] = <<>> THEN "failed"
                        ELSE IF Verb[c] \in {"load", "add"} THEN "asked" ELSE "ok"
        /\ UNCHANGED daemonVars
    BY <1>1 DEF Start, Unborn, ControlInv, ControlTypeOK
  <1>3. \A d \in Client \ {c} :
           /\ status'[d] = status[d] /\ inbox'[d] = inbox[d]
           /\ outbox'[d] = outbox[d] /\ heard'[d] = heard[d]
    BY DEF Start, ControlInv, ControlTypeOK
  <1>4. ~Holds(c)' /\ done'[c] = {}
    BY <1>1, <1>2 DEF Unborn, Holds, daemonVars
  <1>5. Dialogue(c)'
    <2>1. CASE Verb[c] = "load"
      BY <1>2, <1>4, <2>1 DEF FirstRequests, Asking, LoadDialogue, Dialogue
    <2>2. CASE Verb[c] = "add"
      <3>1. FirstRequests(c) = Adds(c)
        BY <2>2 DEF FirstRequests
      <3>2. Follows(inbox'[c], Adds(c), 0) /\ 0 + Len(inbox'[c]) = Len(Adds(c))
        BY <1>2, <3>1, Lists, FollowsStart
      <3>3. Files[c] # <<>> => 0 < Len(Files[c])
        BY ClientAssumption
      <3>4. (status'[c] = "asked" /\ Files[c] # <<>>) \/ status'[c] = "failed"
        BY <1>2, <2>2
      <3>5. Answers(c, 0)'
        BY <1>2, <1>4, <3>2, <3>3, <3>4 DEF Answers
      <3>6. QED
        BY <2>2, <3>5 DEF AddDialogue, Dialogue
    <2>3. CASE Verb[c] \notin {"load", "add"}
      BY <1>2, <1>4, <2>3 DEF LoneDialogue, Dialogue
    <2>4. QED
      BY <2>1, <2>2, <2>3
  <1>6. QED
    BY <1>2, <1>3, <1>5, ClientFrame, StartTypes, StartWired DEF ControlInv

(* Only the status of a client changes: what is wired stays so.            *)
LEMMA WiredKept ==
    ASSUME ControlInv, UNCHANGED <<daemonVars, backlog>>,
           \A d \in Client : status[d] # "new" => status'[d] # "new"
    PROVE  Wired'
  <1>1. conn \in [Fd -> Client \cup {None}] /\ backlog \in Seq(Client)
    BY DEF ControlInv, ControlTypeOK
  <1>2. \A i \in 1 .. Len(backlog) : backlog[i] \in Client
    BY <1>1
  <1>3. QED
    BY <1>1, <1>2 DEF ControlInv, Wired, daemonVars

(* A client reads an answer.                                               *)
LEMMA HearGood ==
    ASSUME ControlInv, NEW c \in Client, Hear(c)
    PROVE  ControlInv'
  <1>1. /\ status[c] \in {"asked", "sent"} /\ outbox[c] # <<>>
        /\ outbox[c] \in Seq({"ERR", "BEGIN", "ADD", "COMMIT"})
        /\ heard[c] \in Nat /\ inbox[c] \in Seq(RequestType)
    BY DEF Hear, ControlInv, ControlTypeOK, RequestType
  <1>2. PICK n \in Nat : Len(outbox[c]) = n + 1
    <2>1. PICK m \in Nat : m = Len(outbox[c])
      BY <1>1
    <2>2. m # 0
      BY <1>1, <2>1, EmptySeq, Zenon
    <2>3. m - 1 \in Nat /\ Len(outbox[c]) = (m - 1) + 1
      BY <2>1, <2>2
    <2>4. QED
      BY <2>3
  <1>i. 1 \in 1 .. n + 1 /\ \A i \in 1 .. n : i + 1 \in 1 .. n + 1
    OBVIOUS
  <1>3. /\ Len(outbox'[c]) = n /\ outbox'[c] \in Seq({"ERR", "BEGIN", "ADD", "COMMIT"})
        /\ n = 0 => outbox'[c] = <<>>
        /\ n # 0 => outbox'[c] # <<>>
        /\ \A i \in 1 .. n : outbox'[c][i] = outbox[c][i + 1]
    <2>1. outbox'[c] = Tail(outbox[c])
      BY DEF Hear, ControlInv, ControlTypeOK
    <2>2. QED
      BY <1>1, <1>2, <2>1, Tailed
  <1>4. Head(outbox[c]) = outbox[c][1]
    BY <1>1
  <1>5. UNCHANGED <<daemonVars, backlog, inbox>>
    BY DEF Hear
  <1>6. \A d \in Client \ {c} :
           /\ status'[d] = status[d] /\ inbox'[d] = inbox[d]
           /\ outbox'[d] = outbox[d] /\ heard'[d] = heard[d]
    BY DEF Hear, ControlInv, ControlTypeOK
  <1>7. /\ (Holds(c)' <=> Holds(c)) /\ done'[c] = done[c] /\ staged' = staged
        /\ inbox'[c] = inbox[c]
    BY <1>5 DEF Holds, daemonVars
  <1>8. outbox[c][1] = "ERR" => status'[c] = "failed" /\ heard'[c] = heard[c]
    BY <1>4 DEF Hear, ControlInv, ControlTypeOK
  <1>9. outbox[c][1] # "ERR" /\ Verb[c] = "add"
           => /\ heard'[c] = heard[c] + 1
              /\ status'[c] = IF heard[c] + 1 = Len(Files[c]) THEN "ok" ELSE status[c]
    BY <1>4 DEF Hear, ControlInv, ControlTypeOK
  <1>10. outbox[c][1] # "ERR" /\ Verb[c] # "add"
           => /\ heard'[c] = heard[c]
              /\ outbox[c][1] = "BEGIN" => status'[c] = "reading"
              /\ outbox[c][1] = "COMMIT" => status'[c] = "ok"
              /\ outbox[c][1] = "ADD" => status'[c] = status[c]
    BY <1>4 DEF Hear, ControlInv, ControlTypeOK
  <1>11. Dialogue(c)'
    <2>1. CASE Verb[c] = "load"
      <3>1. LoadDialogue(c)
        BY <2>1 DEF ControlInv, Dialogue
      <3>2. ~Unborn(c) /\ ~Asking(c)
        BY <1>1 DEF Unborn, Asking
      <3>3. CASE Holding(c)
        <4>1. CASE status[c] = "asked"
          <5>1. outbox[c] = <<"BEGIN">> /\ inbox[c] = <<>> /\ staged = <<>>
            BY <3>3, <4>1 DEF Holding
          <5>2. n = 0 /\ outbox[c][1] = "BEGIN"
            BY <1>2, <5>1
          <5>3. outbox'[c] = <<>> /\ status'[c] = "reading"
            BY <1>3, <1>10, <2>1, <5>2
          <5>4. Holding(c)'
            BY <1>7, <3>3, <5>1, <5>3 DEF Holding
          <5>5. QED
            BY <2>1, <5>4 DEF LoadDialogue, Dialogue
        <4>2. CASE status[c] = "sent"
          <5>1. \A k \in 1 .. n + 1 : outbox[c][k] = "ADD"
            BY <1>2, <3>3, <4>2 DEF Holding
          <5>2. outbox[c][1] = "ADD" /\ \A k \in 1 .. n : outbox'[c][k] = "ADD"
            BY <1>i, <1>3, <5>1
          <5>3. status'[c] = "sent"
            BY <1>10, <2>1, <4>2, <5>2
          <5>4. Holding(c)'
            BY <1>3, <1>7, <3>3, <4>2, <5>2, <5>3 DEF Holding
          <5>5. QED
            BY <2>1, <5>4 DEF LoadDialogue, Dialogue
        <4>3. QED
          BY <1>1, <4>1, <4>2
      <3>4. CASE Through(c)
        <4>1. CASE n = 0
          BY <1>1, <1>2, <1>3, <1>7, <1>10, <2>1, <3>4, <4>1
             DEF Through, LoadDialogue, Dialogue
        <4>2. CASE n # 0
          BY <1>1, <1>2, <1>3, <1>7, <1>10, <2>1, <3>4, <4>2
             DEF Through, LoadDialogue, Dialogue
        <4>3. QED
          BY <4>1, <4>2
      <3>5. CASE Refused(c)
        BY <1>1, <1>2, <1>3, <1>7, <1>8, <2>1, <3>5
           DEF Refused, LoadDialogue, Dialogue
      <3>6. QED
        BY <3>1, <3>2, <3>3, <3>4, <3>5 DEF LoadDialogue
    <2>2. CASE Verb[c] = "add"
      <3>1. PICK k \in Nat : Answers(c, k)
        BY <1>1, <2>2 DEF ControlInv, Dialogue, AddDialogue, Unborn
      <3>2. /\ status[c] = "asked" /\ k + Len(inbox[c]) = Len(Adds(c))
            /\ heard[c] + (n + 1) = k /\ heard[c] < Len(Files[c])
            /\ \A i \in 1 .. k :
                 i \in done[c] <=> i <= heard[c] \/ outbox[c][i - heard[c]] = "ADD"
            /\ done[c] \subseteq 1 .. k
            /\ \A i \in 1 .. n + 1 : outbox[c][i] \in {"ADD", "ERR"}
        BY <1>1, <1>2, <3>1 DEF Answers
      <3>3. CASE outbox[c][1] = "ERR"
        <4>1. Answers(c, k)'
          BY <1>7, <1>8, <3>1, <3>3 DEF Answers
        <4>2. QED
          BY <2>2, <4>1 DEF AddDialogue, Dialogue
      <3>4. CASE outbox[c][1] # "ERR"
        <4>1. heard'[c] = heard[c] + 1 /\ heard'[c] + Len(outbox'[c]) = k
          <5>1. heard'[c] = heard[c] + 1
            BY <1>9, <2>2, <3>4
          <5>2. heard[c] + (n + 1) = (heard[c] + 1) + n
            BY <1>1, <1>2
          <5>3. QED
            BY <1>3, <3>2, <5>1, <5>2
        <4>2. /\ outbox[c][1] = "ADD"
              /\ \A i \in 1 .. n : outbox'[c][i] \in {"ADD", "ERR"}
          BY <1>i, <1>3, <3>2, <3>4
        <4>3. \A i \in 1 .. k :
                 i \in done'[c] <=> i <= heard'[c] \/ outbox'[c][i - heard'[c]] = "ADD"
          <5> SUFFICES ASSUME NEW i \in 1 .. k
                       PROVE  i \in done[c] <=>
                                 i <= heard[c] + 1 \/ outbox'[c][i - (heard[c] + 1)] = "ADD"
            BY <1>7, <4>1
          <5>1. PICK h \in Nat : h = heard[c] /\ k = h + (n + 1)
            BY <1>1, <3>2
          <5>2. CASE i <= h
            BY <3>2, <5>1, <5>2
          <5>3. CASE i = h + 1
            <6>1. i - h = 1 /\ i <= h + 1
              BY <5>1, <5>3
            <6>2. i \in done[c] <=> i <= h \/ outbox[c][i - h] = "ADD"
              BY <3>2, <5>1
            <6>3. QED
              BY <4>2, <5>1, <6>1, <6>2
          <5>4. CASE i > h + 1
            <6>1. i - (h + 1) \in 1 .. n /\ (i - (h + 1)) + 1 = i - h
                  /\ ~(i <= h) /\ ~(i <= h + 1)
              BY <5>1, <5>4
            <6>2. outbox'[c][i - (h + 1)] = outbox[c][i - h]
              BY <1>3, <6>1
            <6>3. QED
              BY <3>2, <5>1, <6>1, <6>2
          <5>5. QED
            BY <5>1, <5>2, <5>3, <5>4
        <4>4. CASE heard[c] + 1 = Len(Files[c])
          <5>1. Len(Adds(c)) = Len(Paths(c)) /\ Len(Paths(c)) <= Len(Files[c])
                /\ Len(Paths(c)) \in Nat /\ Len(Files[c]) \in Nat /\ Len(inbox[c]) \in Nat
            BY <1>1, Lists
          <5>2. k = Len(Paths(c)) /\ n = 0 /\ Len(inbox[c]) = 0
            BY <1>1, <3>2, <4>4, <5>1
          <5>3. inbox'[c] = <<>>
            BY <1>1, <1>7, <5>2, Nil
          <5>4. done'[c] = 1 .. Len(Paths(c))
            <6>1. heard'[c] = k
              BY <1>1, <1>3, <3>2, <4>1, <5>2
            <6>2. \A i \in 1 .. k : i \in done'[c]
              BY <4>3, <6>1
            <6>3. QED
              BY <1>7, <3>2, <5>2, <6>2
          <5>5. status'[c] = "ok"
            BY <1>9, <2>2, <3>4, <4>4
          <5>6. Answers(c, k)'
            BY <1>7, <3>1, <5>2, <5>3, <5>4, <5>5 DEF Answers
          <5>7. QED
            BY <2>2, <5>6 DEF AddDialogue, Dialogue
        <4>5. CASE heard[c] + 1 # Len(Files[c])
          <5>1. status'[c] = "asked" /\ heard'[c] < Len(Files[c])
            <6>1. Len(Files[c]) \in Nat
              BY Lists
            <6>2. QED
              BY <1>1, <1>9, <2>2, <3>2, <3>4, <4>5, <6>1
          <5>2. Answers(c, k)'
            BY <1>7, <1>3, <3>1, <3>2, <4>1, <4>2, <4>3, <5>1 DEF Answers
          <5>3. QED
            BY <2>2, <5>2 DEF AddDialogue, Dialogue
        <4>6. QED
          BY <4>4, <4>5
      <3>5. QED
        BY <3>3, <3>4
    <2>3. CASE Verb[c] \notin {"load", "add"}
      BY <1>1, <2>3 DEF ControlInv, Dialogue, LoneDialogue, Unborn
    <2>4. QED
      BY <2>1, <2>2, <2>3
  <1>12. Wired'
    <2>1. status'[c] # "new"
      BY <1>1, <1>8, <1>9, <1>10
    <2>2. QED
      BY <1>5, <1>6, <2>1, WiredKept
  <1>13. QED
    BY <1>5, <1>6, <1>11, <1>12, ClientFrame, HearTypes DEF ControlInv

(* A load that has the lock sends its list.                                *)
LEMMA SendListGood ==
    ASSUME ControlInv, NEW c \in Client, SendList(c)
    PROVE  ControlInv'
  <1>1. status[c] = "reading" /\ status'[c] = "sent"
    BY DEF SendList, ControlInv, ControlTypeOK
  <1>2. /\ inbox'[c] = inbox[c] \o Script(c) /\ outbox' = outbox
        /\ UNCHANGED <<daemonVars, backlog>>
    BY DEF SendList, Script, ControlInv, ControlTypeOK
  <1>3. \A d \in Client \ {c} :
           /\ status'[d] = status[d] /\ inbox'[d] = inbox[d]
           /\ outbox'[d] = outbox[d] /\ heard'[d] = heard[d]
    BY DEF SendList, ControlInv, ControlTypeOK
  <1>4. Verb[c] = "load" /\ Holding(c)
    BY <1>1 DEF ControlInv, Dialogue, LoadDialogue, AddDialogue, LoneDialogue, Unborn,
                Asking, Through, Refused, Answers
  <1>5. inbox[c] = <<>> /\ outbox[c] = <<>> /\ staged = <<>>
    BY <1>1, <1>4 DEF Holding
  <1>6. Script(c) \in Seq(RequestType)
    BY Lists
  <1>7. inbox'[c] = Script(c)
    BY <1>2, <1>5, <1>6, ConcatEmptySeq
  <1>8. Holds(c)' /\ done'[c] = {} /\ staged' = <<>> /\ outbox'[c] = <<>>
    BY <1>2, <1>4, <1>5 DEF Holding, Holds, daemonVars
  <1>9. Follows(inbox'[c], Script(c), 0) /\ 0 + Len(inbox'[c]) = Len(Script(c))
    BY <1>6, <1>7, FollowsStart
  <1>10. Holding(c)'
    BY <1>1, <1>8, <1>9, Lists DEF Holding
  <1>11. Wired'
    BY <1>1, <1>2, <1>3, WiredKept
  <1>12. QED
    BY <1>2, <1>3, <1>4, <1>10, <1>11, ClientFrame, SendListTypes
       DEF ControlInv, Dialogue, LoadDialogue

(* A client dies.                                                          *)
LEMMA DieGood ==
    ASSUME ControlInv, NEW c \in Client, Die(c)
    PROVE  ControlInv'
  <1>1. /\ status[c] \in {"asked", "reading", "sent"} /\ status'[c] = "killed"
        /\ UNCHANGED <<daemonVars, backlog, outbox, heard>>
    BY DEF Die, Gone, Status, ControlInv, ControlTypeOK
  <1>2. inbox[c] \in Seq(RequestType)
    BY DEF ControlInv, ControlTypeOK, RequestType
  <1>3. PICK n \in 0 .. Len(inbox[c]) : inbox'[c] = SubSeq(inbox[c], 1, n)
    BY DEF Die, ControlInv, ControlTypeOK
  <1>4. \A d \in Client \ {c} :
           /\ status'[d] = status[d] /\ inbox'[d] = inbox[d]
           /\ outbox'[d] = outbox[d] /\ heard'[d] = heard[d]
    BY DEF Die, ControlInv, ControlTypeOK
  <1>5. /\ (Holds(c)' <=> Holds(c)) /\ done'[c] = done[c] /\ staged' = staged
        /\ outbox'[c] = outbox[c]
    BY <1>1 DEF Holds, daemonVars
  <1>6. inbox'[c] \in Seq(RequestType) /\ Len(inbox'[c]) = n
        /\ \A i \in 1 .. n : inbox'[c][i] = inbox[c][i]
    BY <1>2, <1>3, SubSeqProperties
  <1>7. inbox[c] = <<>> => inbox'[c] = <<>>
    <2> SUFFICES ASSUME inbox[c] = <<>> PROVE inbox'[c] = <<>>
      OBVIOUS
    <2>1. n = 0
      BY <1>2
    <2>2. QED
      BY <1>6, <2>1, EmptySeq
  <1>8. Dialogue(c)'
    <2>1. CASE Verb[c] = "load"
      <3>1. LoadDialogue(c) /\ ~Unborn(c)
        BY <1>1, <2>1 DEF ControlInv, Dialogue, Unborn
      <3>2. CASE Asking(c)
        <4>1. CASE n = 0
          BY <1>1, <1>5, <1>6, <2>1, <3>2, <4>1, EmptySeq
             DEF Asking, Refused, LoadDialogue, Dialogue
        <4>2. CASE n = 1
          <5>1. inbox'[c] = inbox[c]
            <6>1. Len(inbox[c]) = n
              BY <3>2, <4>2 DEF Asking
            <6>2. QED
              BY <1>2, <1>3, <6>1, SubSeqFull
          <5>2. QED
            BY <1>1, <1>5, <2>1, <3>2, <5>1 DEF Asking, LoadDialogue, Dialogue
        <4>3. QED
          BY <3>2, <4>1, <4>2 DEF Asking
      <3>3. CASE Holding(c)
        <4>1. Script(c) \in Seq(RequestType) /\ Len(staged) \in Nat
          BY Lists DEF ControlInv, ControlTypeOK
        <4>2. Follows(inbox[c], Script(c), Len(staged))
          BY <1>1, <3>3, <4>1, FollowsStart DEF Holding
        <4>3. Follows(inbox'[c], Script(c), Len(staged))
          BY <1>2, <1>3, <4>1, <4>2, FollowsCut
        <4>4. Holding(c)'
          BY <1>1, <1>5, <3>3, <4>3 DEF Holding
        <4>5. QED
          BY <2>1, <4>4 DEF LoadDialogue, Dialogue
      <3>4. CASE Through(c)
        BY <1>1, <1>5, <1>7, <2>1, <3>4 DEF Through, LoadDialogue, Dialogue
      <3>5. CASE Refused(c)
        BY <1>1, <1>5, <1>7, <2>1, <3>5 DEF Refused, LoadDialogue, Dialogue
      <3>6. QED
        BY <3>1, <3>2, <3>3, <3>4, <3>5 DEF LoadDialogue
    <2>2. CASE Verb[c] = "add"
      <3>1. PICK k \in Nat : Answers(c, k)
        BY <1>1, <2>2 DEF ControlInv, Dialogue, AddDialogue, Unborn
      <3>2. Adds(c) \in Seq(RequestType)
        BY Lists
      <3>3. Follows(inbox'[c], Adds(c), k)
        BY <1>2, <1>3, <3>1, <3>2, FollowsCut DEF Answers
      <3>4. Answers(c, k)'
        BY <1>1, <1>5, <3>1, <3>3 DEF Answers
      <3>5. QED
        BY <2>2, <3>4 DEF AddDialogue, Dialogue
    <2>3. CASE Verb[c] \notin {"load", "add"}
      BY <1>1, <2>3 DEF ControlInv, Dialogue, LoneDialogue, Unborn
    <2>4. QED
      BY <2>1, <2>2, <2>3
  <1>9. Wired'
    BY <1>1, <1>4, WiredKept
  <1>10. QED
    BY <1>1, <1>4, <1>8, <1>9, ClientFrame, DieTypes DEF ControlInv

-----------------------------------------------------------------------------
(* The daemon: connections.                                                *)
LEMMA AcceptTypes ==
    ASSUME ControlInv, Accept
    PROVE  ControlTypeOK' /\ WellFormed(pl)'
  <1>1. backlog \in Seq(Client) /\ backlog # <<>>
    BY DEF Accept, ControlInv, ControlTypeOK
  <1>2. Head(backlog) \in Client /\ Tail(backlog) \in Seq(Client)
    BY <1>1, HeadTailProperties
  <1>3. conn' \in [Fd -> Client \cup {None}] /\ backlog' \in Seq(Client)
    BY <1>2 DEF Accept, ControlInv, ControlTypeOK
  <1>4. UNCHANGED <<pl, done, tx, staged, listening, timer, inbox, outbox, heard, status>>
    BY DEF Accept, socketVars, clientVars
  <1>5. QED
    BY <1>3, <1>4 DEF ControlInv, ControlTypeOK, WellFormed, Offsets

LEMMA AcceptGood ==
    ASSUME ControlInv, Accept
    PROVE  ControlInv'
  <1>1. PICK fd \in Fd : /\ conn[fd] = None
                         /\ conn' = [conn EXCEPT ![fd] = Head(backlog)]
    BY DEF Accept
  <1>2. backlog \in Seq(Client) /\ backlog # <<>> /\ backlog' = Tail(backlog)
        /\ UNCHANGED <<pl, done, tx, staged, listening, timer, inbox, outbox, heard, status>>
    BY DEF Accept, socketVars, clientVars, ControlInv, ControlTypeOK
  <1>3. PICK n \in Nat : Len(backlog') = n /\ Len(backlog) = n + 1
    <2>1. PICK m \in Nat : m = Len(backlog) /\ m # 0
      BY <1>2, Nil
    <2>2. Len(backlog') = m - 1 /\ m - 1 \in Nat
      BY <1>2, <2>1, HeadTailProperties
    <2>3. QED
      BY <2>1, <2>2
  <1>4. /\ Head(backlog) = backlog[1] /\ Head(backlog) \in Client
        /\ \A i \in 1 .. n : backlog'[i] = backlog[i + 1]
    BY <1>2, <1>3, HeadTailProperties
  <1>5. 1 \in 1 .. n + 1 /\ \A i \in 1 .. n : i + 1 \in 1 .. n + 1 /\ i + 1 # 1
    OBVIOUS
  <1>6. /\ conn'[fd] = backlog[1]
        /\ \A f \in Fd : f # fd => conn'[f] = conn[f]
    BY <1>1, <1>4 DEF ControlInv, ControlTypeOK
  <1>7. tx # None => tx \in Fd /\ tx # fd
    BY <1>1 DEF ControlInv, ControlTypeOK, Wired
  <1>8. \A d \in Client : Dialogue(d)'
    <2> SUFFICES ASSUME NEW d \in Client PROVE Dialogue(d)'
      OBVIOUS
    <2>1. Holds(d)' <=> Holds(d)
      BY <1>2, <1>6, <1>7 DEF Holds
    <2>2. QED
      BY <1>2, <2>1, DialogueKept DEF ControlInv
  <1>9. Wired'
    <2>1. \A i, j \in 1 .. n + 1 : backlog[i] = backlog[j] => i = j
      BY <1>3 DEF ControlInv, Wired
    <2>2. \A f \in Fd, i \in 1 .. n + 1 : conn[f] # backlog[i]
      BY <1>3 DEF ControlInv, Wired
    <2>3. \A f, g \in Fd : conn'[f] = conn'[g] /\ conn'[f] # None => f = g
      <3> SUFFICES ASSUME NEW f \in Fd, NEW g \in Fd, conn'[f] = conn'[g], conn'[f] # None
                   PROVE  f = g
        OBVIOUS
      <3>1. CASE f = fd \/ g = fd
        BY <1>5, <1>6, <2>2, <3>1
      <3>2. CASE f # fd /\ g # fd
        BY <1>6, <3>2 DEF ControlInv, Wired
      <3>3. QED
        BY <3>1, <3>2
    <2>4. \A i, j \in 1 .. n : backlog'[i] = backlog'[j] => i = j
      <3> SUFFICES ASSUME NEW i \in 1 .. n, NEW j \in 1 .. n, backlog'[i] = backlog'[j]
                   PROVE  i = j
        OBVIOUS
      <3>1. i + 1 = j + 1
        BY <1>4, <1>5, <2>1
      <3>2. QED
        BY <3>1
    <2>5. \A f \in Fd, i \in 1 .. n : conn'[f] # backlog'[i]
      <3> SUFFICES ASSUME NEW f \in Fd, NEW i \in 1 .. n PROVE conn'[f] # backlog'[i]
        OBVIOUS
      <3>1. backlog'[i] = backlog[i + 1] /\ i + 1 \in 1 .. n + 1 /\ i + 1 # 1
        BY <1>4, <1>5
      <3>2. CASE f = fd
        BY <1>5, <1>6, <2>1, <3>1, <3>2
      <3>3. CASE f # fd
        BY <1>6, <2>2, <3>1, <3>3
      <3>4. QED
        BY <3>2, <3>3
    <2>6. \A i \in 1 .. n + 1 : status[backlog[i]] # "new"
      BY <1>3 DEF ControlInv, Wired
    <2>7. \A f \in Fd : conn'[f] # None => status'[conn'[f]] # "new"
      BY <1>2, <1>5, <1>6, <2>6 DEF ControlInv, Wired
    <2>8. \A i \in 1 .. n : status'[backlog'[i]] # "new"
      BY <1>2, <1>4, <1>5, <2>6
    <2>9. (tx' # None => conn'[tx'] # None) /\ (tx' = None => staged' = <<>>)
      BY <1>2, <1>6, <1>7 DEF ControlInv, Wired
    <2>10. QED
      BY <1>3, <2>3, <2>4, <2>5, <2>7, <2>8, <2>9 DEF Wired
  <1>10. QED
    BY <1>8, <1>9, AcceptTypes DEF ControlInv

(* The listening socket and its timer.                                     *)
LEMMA ListenGood ==
    ASSUME ControlInv, AcceptFails \/ EnableAccept
    PROVE  ControlInv'
  <1>1. UNCHANGED <<pl, done, tx, staged, conn, backlog, inbox, outbox, heard, status>>
        /\ listening' \in BOOLEAN /\ timer' \in BOOLEAN
    BY DEF AcceptFails, EnableAccept, socketVars, clientVars, ControlInv, ControlTypeOK
  <1>2. ControlTypeOK' /\ WellFormed(pl)'
    BY <1>1 DEF ControlInv, ControlTypeOK, WellFormed, Offsets
  <1>3. Wired'
    BY <1>1 DEF ControlInv, Wired
  <1>4. \A d \in Client : Dialogue(d)'
    <2> SUFFICES ASSUME NEW d \in Client PROVE Dialogue(d)'
      OBVIOUS
    <2>1. Holds(d)' <=> Holds(d)
      BY <1>1 DEF Holds
    <2>2. QED
      BY <1>1, <2>1, DialogueKept DEF ControlInv
  <1>5. QED
    BY <1>2, <1>3, <1>4 DEF ControlInv

(* A client that is gone: a load it has not committed never happens, and   *)
(* what it had staged goes with its lock.                                  *)
LEMMA CloseGood ==
    ASSUME ControlInv, NEW fd \in Fd, Close(fd)
    PROVE  ControlInv'
  <1>1. PICK c \in Client : c = conn[fd]
    BY DEF Close, ControlInv, ControlTypeOK
  <1>2. /\ c # None /\ status[c] \in {"ok", "failed", "killed"}
        /\ inbox' = [inbox EXCEPT ![c] = <<>>] /\ outbox' = [outbox EXCEPT ![c] = <<>>]
        /\ conn' = [conn EXCEPT ![fd] = None]
        /\ UNCHANGED <<pl, done, backlog, heard, status>>
        /\ IF tx = fd THEN staged' = <<>> /\ tx' = None ELSE UNCHANGED <<staged, tx>>
        /\ timer' = FALSE /\ listening' = (listening \/ timer)
    BY <1>1, NoneIsNobody DEF Close, AbortTx, Gone, clientVars
  <1>3. ControlTypeOK' /\ WellFormed(pl)'
    <2>1. inbox' \in [Client -> Seq(RequestType)]
      <3>1. inbox \in [Client -> Seq(RequestType)] /\ <<>> \in Seq(RequestType)
        BY EmptySeq DEF ControlInv, ControlTypeOK, RequestType
      <3>2. QED
        BY <1>2, <3>1
    <2>2. outbox' \in [Client -> Seq({"ERR", "BEGIN", "ADD", "COMMIT"})]
      BY <1>2 DEF ControlInv, ControlTypeOK
    <2>3. conn' \in [Fd -> Client \cup {None}] /\ tx' \in Fd \cup {None} /\ staged' \in Seq(Song)
      <3>1. conn \in [Fd -> Client \cup {None}] /\ tx \in Fd \cup {None} /\ staged \in Seq(Song)
        BY DEF ControlInv, ControlTypeOK
      <3>2. conn' \in [Fd -> Client \cup {None}]
        BY <1>2, <3>1
      <3>3. <<>> \in Seq(Song)
        BY EmptySeq
      <3>4. QED
        BY <1>2, <3>1, <3>2, <3>3
    <2>4. timer' \in BOOLEAN /\ listening' \in BOOLEAN
      BY <1>2 DEF ControlInv, ControlTypeOK
    <2>5. QED
      BY <1>2, <2>1, <2>2, <2>3, <2>4
         DEF ControlInv, ControlTypeOK, WellFormed, Offsets, RequestType
  <1>4. \A f \in Fd : conn'[f] = IF f = fd THEN None ELSE conn[f]
    BY <1>2 DEF ControlInv, ControlTypeOK
  <1>5. tx \in Fd \cup {None} /\ None \notin Fd
    BY NoneIsNobody DEF ControlInv, ControlTypeOK
  <1>6. ~Holds(c)' /\ inbox'[c] = <<>> /\ outbox'[c] = <<>> /\ done'[c] = done[c]
        /\ status'[c] = status[c]
    <2>1. ~Holds(c)'
      BY <1>1, <1>2, <1>4, <1>5 DEF Holds, ControlInv, Wired
    <2>2. QED
      BY <1>2, <2>1 DEF ControlInv, ControlTypeOK
  <1>7. Dialogue(c)'
    <2>1. CASE Verb[c] = "load"
      <3>1. LoadDialogue(c)
        BY <2>1 DEF ControlInv, Dialogue
      <3>2. Through(c)' \/ Refused(c)'
        BY <1>2, <1>6, <3>1 DEF LoadDialogue, Unborn, Asking, Holding, Through, Refused
      <3>3. QED
        BY <2>1, <3>2 DEF LoadDialogue, Dialogue
    <2>2. CASE Verb[c] = "add"
      <3>1. PICK k \in Nat : Answers(c, k)
        BY <1>2, <2>2 DEF ControlInv, Dialogue, AddDialogue, Unborn
      <3>2. Follows(inbox'[c], Adds(c), k)
        <4>1. k + Len(inbox[c]) <= Len(Adds(c)) /\ Len(inbox[c]) \in Nat
              /\ Len(Adds(c)) \in Nat
          BY <3>1, Lists DEF Answers, Follows, ControlInv, ControlTypeOK
        <4>2. QED
          BY <1>6, <4>1 DEF Follows
      <3>3. Answers(c, k)'
        BY <1>2, <1>6, <3>1, <3>2 DEF Answers
      <3>4. QED
        BY <2>2, <3>3 DEF AddDialogue, Dialogue
    <2>3. CASE Verb[c] \notin {"load", "add"}
      BY <1>2, <1>6, <2>3 DEF ControlInv, Dialogue, LoneDialogue, Unborn
    <2>4. QED
      BY <2>1, <2>2, <2>3
  <1>8. \A d \in Client : Dialogue(d)'
    <2> SUFFICES ASSUME NEW d \in Client, d # c PROVE Dialogue(d)'
      BY <1>7
    <2>1. (Holds(d)' <=> Holds(d)) /\ (Holds(d) => staged' = staged)
      BY <1>1, <1>2, <1>4, <1>5 DEF Holds
    <2>2. /\ status'[d] = status[d] /\ inbox'[d] = inbox[d] /\ outbox'[d] = outbox[d]
          /\ heard'[d] = heard[d] /\ done'[d] = done[d]
      BY <1>2 DEF ControlInv, ControlTypeOK
    <2>3. QED
      BY <2>1, <2>2, DialogueKept DEF ControlInv
  <1>9. Wired'
    <2>1. \A f \in Fd : conn'[f] # None => conn'[f] = conn[f] /\ f # fd
      BY <1>4
    <2>2. \A f, g \in Fd : conn'[f] = conn'[g] /\ conn'[f] # None => f = g
      BY <2>1 DEF ControlInv, Wired
    <2>3. \A f \in Fd, i \in 1 .. Len(backlog) : conn'[f] # backlog[i]
      <3>1. \A i \in 1 .. Len(backlog) : backlog[i] \in Client /\ backlog[i] # None
        BY NoneIsNobody DEF ControlInv, ControlTypeOK
      <3>2. QED
        BY <1>4, <3>1 DEF ControlInv, Wired
    <2>4. \A f \in Fd : conn'[f] # None => status'[conn'[f]] # "new"
      BY <1>2, <2>1 DEF ControlInv, Wired
    <2>5. (tx' # None => conn'[tx'] # None) /\ (tx' = None => staged' = <<>>)
      BY <1>2, <1>4, <1>5 DEF ControlInv, Wired
    <2>6. QED
      BY <1>2, <2>2, <2>3, <2>4, <2>5 DEF ControlInv, Wired
  <1>10. QED
    BY <1>3, <1>8, <1>9 DEF ControlInv

-----------------------------------------------------------------------------
(* The daemon: messages.  What a step does for the client c that it        *)
(* answers at fd: the lock is kept, taken or given back, what is staged is *)
(* touched by its owner only, and the queue changes as QueueService says.  *)
Handled(fd, c) ==
    /\ Dialogue(c)'
    /\ \/ tx' = tx /\ (tx = fd \/ staged' = staged)
       \/ tx = None /\ tx' = fd
       \/ tx = fd /\ tx' = None /\ staged' = <<>>
    /\ staged' \in Seq(Song)
    /\ WellFormed(pl)'
    /\ \/ UNCHANGED <<pl, done>>
       \/ /\ QueueNext
          /\ \E n \in Nat \ {0} : done' = [done EXCEPT ![c] = @ \cup {n}]

LEMMA TypeOfMessage ==
    ASSUME NEW fd, NEW c, NEW r
    PROVE  /\ Begin(fd, c, r) => r.type = "BEGIN"
           /\ Add(fd, c, r) => r.type = "ADD"
           /\ Commit(fd, c, r) => r.type = "COMMIT"
           /\ Flush(c, r) => r.type = "FLUSH"
           /\ Shuffle(fd, c, r) => r.type = "SHUFFLE"
  BY DEF Begin, Add, Commit, Flush, Shuffle

(* The message that is handled, and what no message changes.               *)
LEMMA Message ==
    ASSUME ControlInv, NEW fd \in Fd, DispatchImsg(fd), NEW c \in Client, conn[fd] = c
    PROVE  /\ inbox[c] \in Seq(RequestType) /\ inbox[c] # <<>>
           /\ inbox' = [inbox EXCEPT ![c] = Tail(inbox[c])]
           /\ inbox'[c] = Tail(inbox[c]) /\ inbox'[c] \in Seq(RequestType)
           /\ UNCHANGED <<conn, listening, timer, backlog, heard, status>>
           /\ LET r == Head(inbox[c]) IN
              /\ r \in RequestType
              /\ Begin(fd, c, r) \/ Add(fd, c, r) \/ Commit(fd, c, r)
                    \/ Flush(c, r) \/ Shuffle(fd, c, r)
           /\ outbox[c] \in Seq({"ERR", "BEGIN", "ADD", "COMMIT"})
           /\ tx \in Fd \cup {None} /\ fd # None
           /\ Holds(c) <=> tx = fd
           /\ Holds(c)' <=> tx' = fd \/ (tx' # None /\ conn[tx'] = c)
  <1>1. inbox[c] \in Seq(RequestType) /\ inbox[c] # <<>>
    BY DEF DispatchImsg, ControlInv, ControlTypeOK, RequestType
  <1>2. Head(inbox[c]) \in RequestType /\ Tail(inbox[c]) \in Seq(RequestType)
    BY <1>1, HeadTailProperties
  <1>3. inbox' = [inbox EXCEPT ![c] = Tail(inbox[c])] /\ inbox'[c] = Tail(inbox[c])
    BY DEF DispatchImsg, ControlInv, ControlTypeOK
  <1>4. UNCHANGED <<conn, listening, timer, backlog, heard, status>>
    BY DEF DispatchImsg, clientVars
  <1>5. LET r == Head(inbox[c]) IN
        Begin(fd, c, r) \/ Add(fd, c, r) \/ Commit(fd, c, r)
           \/ Flush(c, r) \/ Shuffle(fd, c, r)
    BY DEF DispatchImsg
  <1>6. tx \in Fd \cup {None} /\ fd # None /\ c # None
        /\ outbox[c] \in Seq({"ERR", "BEGIN", "ADD", "COMMIT"})
    BY NoneIsNobody DEF ControlInv, ControlTypeOK
  <1>7. Holds(c) <=> tx = fd
    BY <1>6 DEF Holds, ControlInv, Wired
  <1>8. Holds(c)' <=> tx' = fd \/ (tx' # None /\ conn[tx'] = c)
    BY <1>4, <1>6 DEF Holds
  <1>9. QED
    BY <1>1, <1>2, <1>3, <1>4, <1>5, <1>6, <1>7, <1>8

(* An answer is added at the end.                                          *)
LEMMA Replied ==
    ASSUME ControlInv, NEW c \in Client, NEW what \in {"ERR", "BEGIN", "ADD", "COMMIT"},
           Reply(c, what), NEW n \in Nat, n = Len(outbox[c])
    PROVE  /\ outbox'[c] = Append(outbox[c], what) /\ Len(outbox'[c]) = n + 1
           /\ outbox'[c][n + 1] = what /\ outbox'[c] # <<>>
           /\ \A i \in 1 .. n : outbox'[c][i] = outbox[c][i]
  <1>1. outbox[c] \in Seq({"ERR", "BEGIN", "ADD", "COMMIT"})
    BY DEF ControlInv, ControlTypeOK
  <1>2. outbox'[c] = Append(outbox[c], what)
    BY DEF Reply, ControlInv, ControlTypeOK
  <1>3. Len(outbox'[c]) = n + 1 /\ outbox'[c][n + 1] = what
        /\ \A i \in 1 .. n : outbox'[c][i] = outbox[c][i]
    BY <1>1, <1>2
  <1>4. outbox'[c] # <<>>
    <2>1. n + 1 # 0
      OBVIOUS
    <2>2. QED
      BY <1>3, <2>1, EmptySeq, Zenon
  <1>5. QED
    BY <1>2, <1>3, <1>4

LEMMA BeginHandled ==
    ASSUME ControlInv, NEW fd \in Fd, DispatchImsg(fd), NEW c \in Client, conn[fd] = c,
           Verb[c] = "load", Asking(c)
    PROVE  Handled(fd, c)
  <1>1. inbox[c] = <<Request("BEGIN", None, 1)>> /\ outbox[c] = <<>> /\ done[c] = {}
        /\ status[c] \in {"asked", "killed"} /\ ~Holds(c)
    BY DEF Asking
  <1>2. Head(inbox[c]).type = "BEGIN" /\ inbox'[c] = <<>>
    <2>1. Head(inbox[c]).type = "BEGIN"
      BY <1>1 DEF Request
    <2>2. Tail(inbox[c]) = <<>>
      BY <1>1
    <2>3. QED
      BY <2>1, <2>2, Message
  <1>3. Begin(fd, c, Head(inbox[c]))
    BY <1>2, Message DEF Add, Commit, Flush, Shuffle
  <1>4. UNCHANGED <<pl, done, staged, status>> /\ done'[c] = {}
    BY <1>1, <1>3, Message DEF Begin
  <1>5. WellFormed(pl)' /\ staged' \in Seq(Song)
    BY <1>4 DEF ControlInv, ControlTypeOK, WellFormed, Offsets
  <1>6. CASE tx # None
    <2>1. tx' = tx /\ Reply(c, "ERR")
      BY <1>3, <1>6 DEF Begin
    <2>2. outbox'[c] = <<"ERR">>
      BY <1>1, <2>1 DEF Reply, ControlInv, ControlTypeOK
    <2>3. ~Holds(c)'
      BY <1>1, <2>1, Message DEF Holds
    <2>4. Refused(c)'
      BY <1>1, <1>2, <1>4, <2>2, <2>3 DEF Refused
    <2>5. QED
      BY <1>4, <1>5, <2>1, <2>4 DEF Handled, Dialogue, LoadDialogue
  <1>7. CASE tx = None
    <2>1. tx' = fd /\ Reply(c, "BEGIN")
      BY <1>3, <1>7 DEF Begin
    <2>2. outbox'[c] = <<"BEGIN">>
      BY <1>1, <2>1 DEF Reply, ControlInv, ControlTypeOK
    <2>3. Holds(c)' /\ staged' = <<>>
      BY <1>4, <1>7, <2>1, Message DEF ControlInv, Wired
    <2>4. Follows(<<>>, Script(c), 0) /\ Len(Paths(c)) \in Nat
      BY Lists, FollowsStart
    <2>5. Holding(c)'
      BY <1>1, <1>2, <1>4, <2>2, <2>3, <2>4 DEF Holding
    <2>6. QED
      BY <1>4, <1>5, <1>7, <2>1, <2>5 DEF Handled, Dialogue, LoadDialogue
  <1>8. QED
    BY <1>6, <1>7

LEMMA StageHandled ==
    ASSUME ControlInv, NEW fd \in Fd, DispatchImsg(fd), NEW c \in Client, conn[fd] = c,
           Verb[c] = "load", Holding(c), NEW k \in Nat, k = Len(staged), k < Len(Paths(c))
    PROVE  Handled(fd, c)
  <1>1. PICK N \in Nat : N = Len(Paths(c))
    BY Lists
  <1>2. k + 1 \in 1 .. N /\ k + 1 \in 1 .. N + 1
    BY <1>1
  <1>3. tx = fd /\ inbox[c] # <<>>
    BY Message DEF Holding
  <1>4. Follows(inbox[c], Script(c), k)
        /\ (status[c] = "sent" => k + Len(inbox[c]) = Len(Script(c)))
    BY <1>3 DEF Holding
  <1>5. /\ Head(inbox[c]) = Script(c)[k + 1]
        /\ Follows(inbox'[c], Script(c), k + 1)
        /\ status[c] = "sent" => (k + 1) + Len(inbox'[c]) = Len(Script(c))
    <2>1. /\ inbox[c] \in Seq(RequestType) /\ inbox[c] # <<>> /\ inbox'[c] = Tail(inbox[c])
          /\ Script(c) \in Seq(RequestType)
      BY Message, Lists
    <2>2. QED
      BY <1>4, <2>1, FollowsTail
  <1>6. Head(inbox[c]) = Request("ADD", Paths(c)[k + 1], k + 1)
    BY <1>1, <1>2, <1>5, Lists
  <1>7. Head(inbox[c]).type = "ADD" /\ Head(inbox[c]).song = Paths(c)[k + 1]
    BY <1>6 DEF Request
  <1>8. Add(fd, c, Head(inbox[c]))
    BY <1>7, Message DEF Begin, Commit, Flush, Shuffle
  <1>9. /\ staged' = Append(staged, Paths(c)[k + 1]) /\ Reply(c, "ADD")
        /\ UNCHANGED <<pl, done, tx, status>>
    BY <1>3, <1>7, <1>8, Message DEF Add, LockedOut
  <1>10. Paths(c)[k + 1] \in Song /\ staged \in Seq(Song)
    BY <1>1, <1>2, Lists, ElementOfSeq DEF ControlInv, ControlTypeOK
  <1>11. /\ staged' \in Seq(Song) /\ Len(staged') = k + 1
         /\ staged'[k + 1] = Paths(c)[k + 1]
         /\ \A i \in 1 .. k : staged'[i] = staged[i]
    BY <1>9, <1>10
  <1>12. \A i \in 1 .. k + 1 : staged'[i] = Paths(c)[i]
    <2>1. \A i \in 1 .. k : staged[i] = Paths(c)[i]
      BY DEF Holding
    <2>2. QED
      BY <1>11, <2>1
  <1>13. Holds(c)' /\ done'[c] = {}
    BY <1>3, <1>9, Message DEF Holding
  <1>14. status[c] = "sent" => \A i \in 1 .. Len(outbox'[c]) : outbox'[c][i] = "ADD"
    <2> SUFFICES ASSUME status[c] = "sent"
                 PROVE  \A i \in 1 .. Len(outbox'[c]) : outbox'[c][i] = "ADD"
      OBVIOUS
    <2>1. PICK n \in Nat : n = Len(outbox[c])
      BY Message
    <2>2. \A i \in 1 .. n : outbox[c][i] = "ADD"
      BY <2>1 DEF Holding
    <2>3. /\ Len(outbox'[c]) = n + 1 /\ outbox'[c][n + 1] = "ADD"
          /\ \A i \in 1 .. n : outbox'[c][i] = outbox[c][i]
      BY <1>9, <2>1, Replied
    <2>4. QED
      BY <2>2, <2>3
  <1>15. status[c] \in {"sent", "killed"}
    BY <1>3 DEF Holding
  <1>16. Holding(c)'
    <2>1. Len(staged') <= Len(Paths(c))'
      BY <1>1, <1>2, <1>11
    <2>2. \A i \in 1 .. Len(staged') : staged'[i] = Paths(c)[i]
      BY <1>11, <1>12
    <2>3. CASE status[c] = "sent"
      BY <1>5, <1>9, <1>11, <1>13, <1>14, <2>1, <2>2, <2>3 DEF Holding
    <2>4. CASE status[c] = "killed"
      BY <1>5, <1>9, <1>11, <1>13, <2>1, <2>2, <2>4 DEF Holding
    <2>5. QED
      BY <1>15, <2>3, <2>4
  <1>17. WellFormed(pl)'
    BY <1>9 DEF ControlInv, WellFormed, Offsets
  <1>18. QED
    BY <1>3, <1>9, <1>11, <1>16, <1>17 DEF Handled, Dialogue, LoadDialogue

LEMMA CommitHandled ==
    ASSUME ControlInv, NEW fd \in Fd, DispatchImsg(fd), NEW c \in Client, conn[fd] = c,
           Verb[c] = "load", Holding(c), Len(staged) = Len(Paths(c))
    PROVE  Handled(fd, c)
  <1>1. PICK N \in Nat : N = Len(Paths(c)) /\ N = Len(staged)
    BY Lists
  <1>2. tx = fd /\ inbox[c] # <<>> /\ status[c] \in {"sent", "killed"} /\ done[c] = {}
    BY Message DEF Holding
  <1>3. Follows(inbox[c], Script(c), N)
    BY <1>1, <1>2 DEF Holding
  <1>4. Head(inbox[c]) = Request("COMMIT", None, 1)
    BY <1>1, <1>3, Message, Lists, FollowsTail
  <1>5. inbox'[c] = <<>>
    <2>1. /\ inbox[c] \in Seq(RequestType) /\ inbox[c] # <<>> /\ inbox'[c] = Tail(inbox[c])
          /\ inbox'[c] \in Seq(RequestType)
          /\ Script(c) \in Seq(RequestType) /\ Len(Script(c)) = N + 1
      BY <1>1, Message, Lists
    <2>2. Follows(inbox'[c], Script(c), N + 1)
      BY <1>3, <2>1, FollowsTail
    <2>3. PICK L \in Nat : L = Len(inbox'[c])
      BY <2>1, LenProperties
    <2>4. (N + 1) + L <= N + 1
      BY <2>1, <2>2, <2>3 DEF Follows
    <2>5. L = 0
      BY <2>4
    <2>6. QED
      BY <2>1, <2>3, <2>5, Nil
  <1>6. staged = Paths(c)
    <2>1. staged \in Seq(Song) /\ Paths(c) \in Seq(Song)
      BY Lists DEF ControlInv, ControlTypeOK
    <2>2. \A i \in 1 .. N : staged[i] = Paths(c)[i]
      BY <1>1 DEF Holding
    <2>3. QED
      BY <1>1, <2>1, <2>2, SeqEqual
  <1>7. Head(inbox[c]).type = "COMMIT" /\ Head(inbox[c]).nth = 1
    BY <1>4 DEF Request
  <1>8. Commit(fd, c, Head(inbox[c]))
    BY <1>7, Message DEF Begin, Add, Flush, Shuffle
  <1>9. PICK i \in SwapOffset(pl, Paths(c), Position(c)) : pl' = Swap(pl, Paths(c), i)
    BY <1>2, <1>6, <1>8 DEF Commit
  <1>10. /\ done' = [done EXCEPT ![c] = @ \cup {1}]
         /\ staged' = <<>> /\ tx' = None /\ Reply(c, "COMMIT")
    BY <1>2, <1>7, <1>8 DEF Commit
  <1>11. done'[c] = {1}
    BY <1>2, <1>10 DEF ControlInv, ControlTypeOK
  <1>12. WellFormed(pl)'
    BY <1>9, SwapEdited, Lists DEF Edited, ControlInv
  <1>13. Load(c)
    BY <1>2, <1>9, <1>10 DEF Load, Takes
  <1>14. ~Holds(c)'
    BY <1>10 DEF Holds
  <1>15. status[c] = "sent"
            => /\ outbox'[c] # <<>>
               /\ \A j \in 1 .. Len(outbox'[c]) :
                     outbox'[c][j] = IF j = Len(outbox'[c]) THEN "COMMIT" ELSE "ADD"
    <2> SUFFICES ASSUME status[c] = "sent"
                 PROVE  /\ outbox'[c] # <<>>
                        /\ \A j \in 1 .. Len(outbox'[c]) :
                             outbox'[c][j] = IF j = Len(outbox'[c]) THEN "COMMIT" ELSE "ADD"
      OBVIOUS
    <2>1. PICK n \in Nat : n = Len(outbox[c])
      BY Message
    <2>2. \A j \in 1 .. n : outbox[c][j] = "ADD"
      BY <2>1 DEF Holding
    <2>3. /\ Len(outbox'[c]) = n + 1 /\ outbox'[c][n + 1] = "COMMIT" /\ outbox'[c] # <<>>
          /\ \A j \in 1 .. n : outbox'[c][j] = outbox[c][j]
      BY <1>10, <2>1, Replied
    <2>4. QED
      BY <2>2, <2>3
  <1>16. status'[c] = status[c]
    BY Message
  <1>17. Through(c)'
    BY <1>2, <1>5, <1>11, <1>14, <1>15, <1>16 DEF Through
  <1>18. QueueNext /\ staged' \in Seq(Song)
    <2>1. QueueNext
      BY <1>13 DEF QueueNext
    <2>2. staged' \in Seq(Song)
      BY <1>10, EmptySeq
    <2>3. QED
      BY <2>1, <2>2
  <1>19. Dialogue(c)'
    BY <1>17 DEF Dialogue, LoadDialogue
  <1>20. \E n \in Nat \ {0} : done' = [done EXCEPT ![c] = @ \cup {n}]
    <2>1. 1 \in Nat \ {0}
      OBVIOUS
    <2>2. QED
      BY <1>10, <2>1
  <1>21. QED
    BY <1>2, <1>10, <1>12, <1>18, <1>19, <1>20 DEF Handled

LEMMA LoadHandled ==
    ASSUME ControlInv, NEW fd \in Fd, DispatchImsg(fd), NEW c \in Client, conn[fd] = c,
           Verb[c] = "load"
    PROVE  Handled(fd, c)
  <1>1. LoadDialogue(c) /\ inbox[c] # <<>>
    BY Message DEF ControlInv, Dialogue
  <1>2. Asking(c) \/ Holding(c)
    BY <1>1 DEF LoadDialogue, Unborn, Through, Refused
  <1>3. CASE Asking(c)
    BY <1>3, BeginHandled
  <1>4. CASE Holding(c)
    <2>1. Len(staged) \in Nat /\ Len(Paths(c)) \in Nat /\ Len(staged) <= Len(Paths(c))
      BY <1>4, Lists DEF Holding, ControlInv, ControlTypeOK
    <2>2. CASE Len(staged) < Len(Paths(c))
      BY <1>4, <2>1, <2>2, StageHandled
    <2>3. CASE Len(staged) = Len(Paths(c))
      BY <1>4, <2>3, CommitHandled
    <2>4. QED
      BY <2>1, <2>2, <2>3
  <1>5. QED
    BY <1>2, <1>3, <1>4

LEMMA AddHandled ==
    ASSUME ControlInv, NEW fd \in Fd, DispatchImsg(fd), NEW c \in Client, conn[fd] = c,
           Verb[c] = "add"
    PROVE  Handled(fd, c)
  <1>1. PICK k \in Nat : Answers(c, k)
    BY Message DEF ControlInv, Dialogue, AddDialogue, Unborn
  <1>2. ~Holds(c) /\ tx # fd /\ done[c] \subseteq 1 .. k /\ Follows(inbox[c], Adds(c), k)
    BY <1>1, Message DEF Answers
  <1>3. PICK N \in Nat : N = Len(Paths(c)) /\ N = Len(Adds(c))
    BY Lists
  <1>4. /\ Head(inbox[c]) = Adds(c)[k + 1] /\ k + 1 <= N
        /\ Follows(inbox'[c], Adds(c), k + 1)
        /\ (k + 1) + Len(inbox'[c]) = k + Len(inbox[c])
    <2>1. /\ inbox[c] \in Seq(RequestType) /\ inbox[c] # <<>> /\ inbox'[c] = Tail(inbox[c])
          /\ Adds(c) \in Seq(RequestType)
      BY Message, Lists
    <2>2. /\ Head(inbox[c]) = Adds(c)[k + 1] /\ k + 1 <= Len(Adds(c))
          /\ Follows(inbox'[c], Adds(c), k + 1)
          /\ (k + 1) + Len(inbox'[c]) = k + Len(inbox[c])
      BY <1>2, <2>1, FollowsTail
    <2>3. QED
      BY <1>3, <2>2
  <1>5. k + 1 \in 1 .. N /\ k + 1 \in Nat \ {0} /\ k + 1 \notin 1 .. k
    BY <1>3, <1>4
  <1>6. Head(inbox[c]) = Request("ADD", Paths(c)[k + 1], k + 1) /\ Paths(c)[k + 1] \in Song
    BY <1>3, <1>4, <1>5, Lists, ElementOfSeq
  <1>7. /\ Head(inbox[c]).type = "ADD" /\ Head(inbox[c]).song = Paths(c)[k + 1]
        /\ Head(inbox[c]).nth = k + 1
    BY <1>6 DEF Request
  <1>8. Add(fd, c, Head(inbox[c]))
    BY <1>7, Message DEF Begin, Commit, Flush, Shuffle
  <1>9. PICK what \in {"ERR", "ADD"} :
           /\ tx' = tx /\ staged' = staged /\ Reply(c, what)
           /\ \/ what = "ERR" /\ UNCHANGED <<pl, done>>
              \/ /\ what = "ADD" /\ tx = None
                 /\ pl' = Enqueue(pl, Paths(c)[k + 1])
                 /\ done' = [done EXCEPT ![c] = @ \cup {k + 1}]
    BY <1>2, <1>7, <1>8 DEF Add
  <1>10. ~Holds(c)' /\ heard'[c] = heard[c] /\ status'[c] = status[c]
    BY <1>2, <1>9, Message DEF Holds
  <1>11. done[c] \subseteq Nat \ {0} /\ done[c] \in SUBSET (Nat \ {0})
    BY DEF ControlInv, ControlTypeOK
  <1>12. done'[c] = IF what = "ADD" THEN done[c] \cup {k + 1} ELSE done[c]
    BY <1>9 DEF ControlInv, ControlTypeOK
  <1>13. done'[c] \subseteq 1 .. k + 1
    BY <1>2, <1>5, <1>12
  <1>14. status[c] \in {"asked", "failed", "killed"}
    BY <1>1, Message DEF Answers
  <1>15. ASSUME status[c] = "asked"
         PROVE  Answers(c, k + 1)'
    <2>1. PICK n \in Nat : n = Len(outbox[c])
      BY Message
    <2>2. /\ Len(outbox'[c]) = n + 1 /\ outbox'[c][n + 1] = what
          /\ \A i \in 1 .. n : outbox'[c][i] = outbox[c][i]
      BY <1>9, <2>1, Replied
    <2>3. PICK h \in Nat : h = heard[c] /\ h + n = k
      BY <1>1, <1>15, <2>1 DEF Answers, ControlInv, ControlTypeOK
    <2>4. /\ k + Len(inbox[c]) = N /\ h < Len(Files[c])
          /\ \A i \in 1 .. k : i \in done[c] <=> i <= h \/ outbox[c][i - h] = "ADD"
          /\ \A i \in 1 .. n : outbox[c][i] \in {"ADD", "ERR"}
      BY <1>1, <1>3, <1>15, <2>1, <2>3 DEF Answers
    <2>5. \A i \in 1 .. k + 1 : i \in done'[c] <=> i <= h \/ outbox'[c][i - h] = "ADD"
      <3> SUFFICES ASSUME NEW i \in 1 .. k + 1
                   PROVE  i \in done'[c] <=> i <= h \/ outbox'[c][i - h] = "ADD"
        OBVIOUS
      <3>1. CASE i = k + 1
        <4>1. i - h = n + 1 /\ ~(i <= h)
          BY <2>3, <3>1
        <4>2. i \in done'[c] <=> what = "ADD"
          BY <1>2, <1>5, <1>12, <3>1
        <4>3. QED
          BY <2>2, <4>1, <4>2
      <3>2. CASE i # k + 1
        <4>1. i \in 1 .. k /\ (i \in done'[c] <=> i \in done[c])
          BY <1>12, <3>2
        <4>2. CASE i <= h
          BY <2>4, <4>1, <4>2
        <4>3. CASE ~(i <= h)
          <5>1. i - h \in 1 .. n
            BY <2>3, <4>1, <4>3
          <5>2. QED
            BY <2>2, <2>4, <4>1, <4>3, <5>1
        <4>4. QED
          BY <4>2, <4>3
      <3>3. QED
        BY <3>1, <3>2
    <2>6. \A i \in 1 .. n + 1 : outbox'[c][i] \in {"ADD", "ERR"}
      <3>1. \A i \in 1 .. n + 1 : i \in 1 .. n \/ i = n + 1
        OBVIOUS
      <3>2. \A i \in 1 .. n : outbox'[c][i] \in {"ADD", "ERR"}
        BY <2>2, <2>4
      <3>3. outbox'[c][n + 1] \in {"ADD", "ERR"}
        BY <2>2
      <3>4. QED
        BY <3>1, <3>2, <3>3, Zenon
    <2>7. h + (n + 1) = k + 1 /\ (k + 1) + Len(inbox'[c]) = N
      <3>1. PICK i \in Nat, j \in Nat : i = Len(inbox[c]) /\ j = Len(inbox'[c])
        BY Message, LenProperties
      <3>2. (k + 1) + j = k + i /\ k + i = N
        BY <1>4, <2>4, <3>1
      <3>3. h + (n + 1) = k + 1 /\ (k + 1) + j = N
        BY <2>3, <3>2
      <3>4. QED
        BY <3>1, <3>3
    <2>8. Answers(c, k + 1)'
      <3>1. heard'[c] = h /\ status'[c] = "asked"
        BY <1>10, <1>15, <2>3
      <3>2. /\ (k + 1) + Len(inbox'[c]) = Len(Adds(c))
            /\ heard'[c] + Len(outbox'[c]) = k + 1
            /\ heard'[c] < Len(Files[c])
        BY <1>3, <2>2, <2>4, <2>7, <3>1
      <3>3. /\ \A i \in 1 .. k + 1 :
                  i \in done'[c] <=> i <= heard'[c] \/ outbox'[c][i - heard'[c]] = "ADD"
            /\ \A i \in 1 .. Len(outbox'[c]) : outbox'[c][i] \in {"ADD", "ERR"}
        BY <2>2, <2>5, <2>6, <3>1
      <3>4. QED
        BY <1>4, <1>10, <1>13, <3>1, <3>2, <3>3 DEF Answers
    <2>9. QED
      BY <2>8
  <1>16. ASSUME status[c] # "asked"
         PROVE  Answers(c, k + 1)'
    BY <1>4, <1>10, <1>13, <1>14, <1>16 DEF Answers
  <1>17. Answers(c, k + 1)'
    BY <1>15, <1>16
  <1>18. Dialogue(c)'
    BY <1>5, <1>17 DEF Dialogue, AddDialogue
  <1>19. WellFormed(pl)'
    <2>1. CASE pl' = pl
      BY <2>1 DEF ControlInv, WellFormed, Offsets
    <2>2. CASE pl' = Enqueue(pl, Paths(c)[k + 1])
      BY <1>6, <2>2, EnqueueEdited DEF Edited, ControlInv
    <2>3. QED
      BY <1>9, <2>1, <2>2
  <1>20. \/ UNCHANGED <<pl, done>>
         \/ /\ QueueNext
            /\ \E n \in Nat \ {0} : done' = [done EXCEPT ![c] = @ \cup {n}]
    <2>1. CASE what = "ADD"
      <3>1. k + 1 \in All(c) /\ \A m \in done[c] : m < k + 1
        BY <1>2, <1>3, <1>5 DEF All
      <3>2. Append1(c, k + 1)
        BY <1>9, <2>1, <3>1 DEF Append1, Takes
      <3>3. QueueNext
        BY <3>1, <3>2 DEF QueueNext
      <3>4. QED
        BY <1>5, <1>9, <2>1, <3>3
    <2>2. QED
      BY <1>9, <2>1
  <1>21. staged' \in Seq(Song)
    BY <1>9 DEF ControlInv, ControlTypeOK
  <1>22. QED
    BY <1>9, <1>18, <1>19, <1>20, <1>21 DEF Handled

LEMMA LoneHandled ==
    ASSUME ControlInv, NEW fd \in Fd, DispatchImsg(fd), NEW c \in Client, conn[fd] = c,
           Verb[c] \notin {"load", "add"}
    PROVE  Handled(fd, c)
  <1>1. /\ status[c] = "ok" /\ ~Holds(c) /\ tx # fd
        /\ inbox[c] = FirstRequests(c) /\ done[c] = {}
    BY Message DEF ControlInv, Dialogue, LoneDialogue, Unborn
  <1>2. Verb[c] \in {"flush", "shuffle", "shuffle all"}
    BY ClientAssumption DEF EditVerb
  <1>3. PICK t \in {"FLUSH", "SHUFFLE"} :
           /\ inbox[c] = <<Request(t, None, 1)>>
           /\ t = "FLUSH" <=> Verb[c] = "flush"
    BY <1>1, <1>2 DEF FirstRequests
  <1>4. inbox'[c] = <<>>
    <2>1. Tail(inbox[c]) = <<>>
      BY <1>3
    <2>2. QED
      BY <2>1, Message
  <1>5. Head(inbox[c]).type = t /\ Head(inbox[c]).nth = 1
    BY <1>3 DEF Request
  <1>6. \/ Flush(c, Head(inbox[c])) /\ t = "FLUSH"
        \/ Shuffle(fd, c, Head(inbox[c])) /\ t = "SHUFFLE"
    <2>1. CASE t = "FLUSH"
      <3>1. Head(inbox[c]).type = "FLUSH"
        BY <1>5, <2>1
      <3>2. Flush(c, Head(inbox[c]))
        BY <3>1, Message, TypeOfMessage
      <3>3. QED
        BY <2>1, <3>2
    <2>2. CASE t = "SHUFFLE"
      BY <1>5, <2>2, Message, TypeOfMessage
    <2>3. QED
      BY <2>1, <2>2
  <1>7. /\ tx' = tx /\ staged' = staged
        /\ \/ UNCHANGED <<pl, done>>
           \/ /\ done' = [done EXCEPT ![c] = @ \cup {1}]
              /\ \/ Verb[c] = "flush" /\ pl' = Truncate(pl)
                 \/ /\ Verb[c] \in {"shuffle", "shuffle all"}
                    /\ pl' \in Shuffles(pl, Verb[c] = "shuffle all")
    BY <1>2, <1>3, <1>5, <1>6 DEF Flush, Shuffle
  <1>8. ~Holds(c)' /\ status'[c] = "ok"
    BY <1>1, <1>7, Message DEF Holds
  <1>9. Dialogue(c)'
    BY <1>4, <1>8 DEF Dialogue, LoneDialogue
  <1>10. WellFormed(pl)'
    <2>1. CASE pl' = pl
      BY <2>1 DEF ControlInv, WellFormed, Offsets
    <2>2. CASE pl' = Truncate(pl)
      BY <2>2, TruncateEdited DEF Edited, ControlInv
    <2>3. CASE pl' \in Shuffles(pl, Verb[c] = "shuffle all")
      <3>1. (Verb[c] = "shuffle all") \in BOOLEAN
        OBVIOUS
      <3>2. QED
        BY <2>3, <3>1, ShuffleEdited DEF Edited, ControlInv
    <2>4. QED
      BY <1>7, <2>1, <2>2, <2>3
  <1>11. \/ UNCHANGED <<pl, done>>
         \/ /\ QueueNext
            /\ \E n \in Nat \ {0} : done' = [done EXCEPT ![c] = @ \cup {n}]
    <2> SUFFICES ASSUME ~UNCHANGED <<pl, done>>
                 PROVE  /\ QueueNext
                        /\ \E n \in Nat \ {0} : done' = [done EXCEPT ![c] = @ \cup {n}]
      OBVIOUS
    <2>1. 1 \in Nat \ {0} /\ \A m \in done[c] : m < 1
      BY <1>1
    <2>2. Clear(c) \/ Mix(c)
      BY <1>7, <2>1 DEF Clear, Mix, Takes
    <2>3. QED
      BY <1>7, <2>1, <2>2 DEF QueueNext
  <1>12. staged' \in Seq(Song)
    BY <1>7 DEF ControlInv, ControlTypeOK
  <1>13. QED
    BY <1>7, <1>9, <1>10, <1>11, <1>12 DEF Handled

LEMMA AnyHandled ==
    ASSUME ControlInv, NEW fd \in Fd, DispatchImsg(fd), NEW c \in Client, conn[fd] = c
    PROVE  Handled(fd, c)
  BY LoadHandled, AddHandled, LoneHandled

LEMMA DispatchTypes ==
    ASSUME ControlInv, NEW fd \in Fd, DispatchImsg(fd), NEW c \in Client, conn[fd] = c,
           Handled(fd, c)
    PROVE  ControlTypeOK'
  <1>1. outbox' \in [Client -> Seq({"ERR", "BEGIN", "ADD", "COMMIT"})]
    <2>1. outbox \in [Client -> Seq({"ERR", "BEGIN", "ADD", "COMMIT"})]
      BY DEF ControlInv, ControlTypeOK
    <2>2. \/ outbox' = outbox
          \/ \E what \in {"ERR", "BEGIN", "ADD", "COMMIT"} : Reply(c, what)
      <3> DEFINE r == Head(inbox[c])
      <3>1. Begin(fd, c, r) \/ Add(fd, c, r) \/ Commit(fd, c, r) \/ Flush(c, r)
               \/ Shuffle(fd, c, r)
        BY Message
      <3>2. Begin(fd, c, r) => Reply(c, "ERR") \/ Reply(c, "BEGIN")
        BY DEF Begin
      <3>3. Add(fd, c, r) => Reply(c, "ERR") \/ Reply(c, "ADD")
        BY DEF Add
      <3>4. Commit(fd, c, r) => Reply(c, "ERR") \/ Reply(c, "COMMIT")
        BY DEF Commit
      <3>5. Flush(c, r) => outbox' = outbox
        BY DEF Flush
      <3>6. Shuffle(fd, c, r) => Reply(c, "ERR") \/ outbox' = outbox
        BY DEF Shuffle
      <3> HIDE DEF r
      <3>7. QED
        BY <3>1, <3>2, <3>3, <3>4, <3>5, <3>6
    <2>3. CASE outbox' = outbox
      BY <2>1, <2>3
    <2>4. CASE \E what \in {"ERR", "BEGIN", "ADD", "COMMIT"} : Reply(c, what)
      <3>1. PICK what \in {"ERR", "BEGIN", "ADD", "COMMIT"} : Reply(c, what)
        BY <2>4
      <3>2. Append(outbox[c], what) \in Seq({"ERR", "BEGIN", "ADD", "COMMIT"})
        BY <2>1
      <3>3. outbox' = [outbox EXCEPT ![c] = Append(outbox[c], what)]
        BY <3>1 DEF Reply
      <3>4. QED
        BY <2>1, <3>2, <3>3
    <2>5. QED
      BY <2>2, <2>3, <2>4
  <1>2. inbox' \in [Client -> Seq(RequestType)]
    <2>1. inbox \in [Client -> Seq(RequestType)]
      BY DEF ControlInv, ControlTypeOK, RequestType
    <2>2. inbox' = [inbox EXCEPT ![c] = Tail(inbox[c])] /\ Tail(inbox[c]) \in Seq(RequestType)
      BY Message
    <2>3. QED
      BY <2>1, <2>2
  <1>3. done' \in [Client -> SUBSET (Nat \ {0})]
    <2>1. done \in [Client -> SUBSET (Nat \ {0})]
      BY DEF ControlInv, ControlTypeOK
    <2>2. CASE done' = done
      BY <2>1, <2>2
    <2>3. CASE \E n \in Nat \ {0} : done' = [done EXCEPT ![c] = @ \cup {n}]
      <3>1. PICK n \in Nat \ {0} : done' = [done EXCEPT ![c] = done[c] \cup {n}]
        BY <2>3
      <3>2. done[c] \cup {n} \in SUBSET (Nat \ {0})
        BY <2>1
      <3>3. QED
        BY <2>1, <3>1, <3>2
    <2>4. QED
      BY <2>2, <2>3 DEF Handled
  <1>4. tx' \in Fd \cup {None} /\ staged' \in Seq(Song) /\ pl' \in PlaylistType
    BY Message DEF Handled, WellFormed
  <1>5. UNCHANGED <<conn, listening, timer, backlog, heard, status>>
    BY Message
  <1>6. QED
    BY <1>1, <1>2, <1>3, <1>4, <1>5 DEF ControlInv, ControlTypeOK, RequestType

LEMMA DispatchGood ==
    ASSUME ControlInv, NEW fd \in Fd, DispatchImsg(fd)
    PROVE  ControlInv' /\ [QueueNext]_<<pl, done>>
  <1>1. PICK c \in Client : conn[fd] = c
    BY DEF DispatchImsg, ControlInv, ControlTypeOK
  <1>2. Handled(fd, c)
    BY <1>1, AnyHandled
  <1>3. UNCHANGED <<conn, backlog, heard, status>> /\ fd # None
    BY <1>1, Message
  <1>4. \A d \in Client \ {c} :
           /\ inbox'[d] = inbox[d] /\ outbox'[d] = outbox[d] /\ done'[d] = done[d]
    <2> SUFFICES ASSUME NEW d \in Client \ {c}
                 PROVE  inbox'[d] = inbox[d] /\ outbox'[d] = outbox[d] /\ done'[d] = done[d]
      OBVIOUS
    <2>1. inbox'[d] = inbox[d]
      <3>1. inbox' = [inbox EXCEPT ![c] = Tail(inbox[c])]
        BY <1>1, Message
      <3>2. QED
        BY <3>1 DEF ControlInv, ControlTypeOK
    <2>2. outbox'[d] = outbox[d]
      BY <1>1 DEF DispatchImsg, Begin, Add, Commit, Flush, Shuffle, Reply, ControlInv,
                  ControlTypeOK
    <2>3. done'[d] = done[d]
      BY <1>2 DEF Handled, ControlInv, ControlTypeOK
    <2>4. QED
      BY <2>1, <2>2, <2>3
  <1>5. \A d \in Client : Dialogue(d)'
    <2> SUFFICES ASSUME NEW d \in Client, d # c PROVE Dialogue(d)'
      BY <1>2 DEF Handled
    <2>1. (Holds(d)' <=> Holds(d)) /\ (Holds(d) => staged' = staged)
      BY <1>1, <1>2, <1>3 DEF Handled, Holds
    <2>2. QED
      BY <1>3, <1>4, <2>1, DialogueKept DEF ControlInv
  <1>6. Wired'
    <2>1. (tx' # None => conn'[tx'] # None) /\ (tx' = None => staged' = <<>>)
      BY <1>1, <1>2, <1>3, NoneIsNobody DEF Handled, ControlInv, Wired
    <2>2. QED
      BY <1>3, <2>1 DEF ControlInv, Wired
  <1>7. ControlTypeOK' /\ WellFormed(pl)'
    BY <1>1, <1>2, DispatchTypes DEF Handled
  <1>8. QED
    BY <1>2, <1>5, <1>6, <1>7 DEF ControlInv, Handled

(* The queue moves on as songs are played: no dialogue is about that.      *)
LEMMA ElsewhereGood ==
    ASSUME ControlInv, Elsewhere
    PROVE  ControlInv'
  <1>1. UNCHANGED <<done, tx, staged, conn, listening, timer, backlog, inbox, outbox,
                    heard, status>>
    BY DEF Elsewhere, Playing, socketVars, clientVars
  <1>2. WellFormed(pl)'
    BY AdvanceStepped, DropWellFormed DEF Elsewhere, Playing, Stepped, ControlInv
  <1>3. ControlTypeOK'
    BY <1>1, <1>2 DEF ControlInv, ControlTypeOK, WellFormed
  <1>4. Wired'
    BY <1>1 DEF ControlInv, Wired
  <1>5. \A d \in Client : Dialogue(d)'
    <2> SUFFICES ASSUME NEW d \in Client PROVE Dialogue(d)'
      OBVIOUS
    <2>1. Holds(d)' <=> Holds(d)
      BY <1>1 DEF Holds
    <2>2. QED
      BY <1>1, <2>1, DialogueKept DEF ControlInv
  <1>6. QED
    BY <1>2, <1>3, <1>4, <1>5 DEF ControlInv

-----------------------------------------------------------------------------
LEMMA ControlStarts == Init => ControlInv
  <1> SUFFICES ASSUME Init PROVE ControlInv
    OBVIOUS
  <1>1. WellFormed(pl)
    BY DEF Init, QueueInit, InitPlaylist, WellFormed, Offsets, PlaylistType, PlayState
  <1>2. \A S : <<>> \in Seq(S)
    BY EmptySeq
  <1>3. ControlTypeOK
    <2>1. pl \in PlaylistType
      BY <1>1 DEF WellFormed
    <2>2. /\ done \in [Client -> SUBSET (Nat \ {0})]
          /\ tx \in Fd \cup {None} /\ staged \in Seq(Song)
          /\ conn \in [Fd -> Client \cup {None}]
          /\ listening \in BOOLEAN /\ timer \in BOOLEAN
          /\ heard \in [Client -> Nat] /\ status \in [Client -> Status]
      BY <1>2 DEF Init, QueueInit, Status
    <2>3. /\ inbox \in [Client -> Seq(RequestType)] /\ backlog \in Seq(Client)
          /\ outbox \in [Client -> Seq({"ERR", "BEGIN", "ADD", "COMMIT"})]
      BY <1>2 DEF Init
    <2>4. QED
      BY <2>1, <2>2, <2>3 DEF ControlTypeOK, RequestType
  <1>4. \A c \in Client : Unborn(c)
    BY DEF Init, QueueInit, Unborn, Holds
  <1>5. \A c \in Client : Dialogue(c)
    BY <1>4 DEF Dialogue, LoadDialogue, AddDialogue, LoneDialogue
  <1>6. Wired
    <2>1. Len(backlog) = 0
      BY EmptySeq DEF Init
    <2>2. QED
      BY <2>1 DEF Init, Wired
  <1>7. QED
    BY <1>1, <1>3, <1>5, <1>6 DEF ControlInv

LEMMA ControlStutters ==
    ASSUME ControlInv, UNCHANGED vars
    PROVE  ControlInv'
  <1>1. UNCHANGED <<pl, done, tx, staged, conn, listening, timer, backlog, inbox, outbox,
                    heard, status>>
    BY DEF vars, daemonVars, socketVars, clientVars
  <1>2. ControlTypeOK' /\ WellFormed(pl)' /\ Wired'
    BY <1>1 DEF ControlInv, ControlTypeOK, WellFormed, Offsets, Wired
  <1>3. \A d \in Client : Dialogue(d)'
    <2> SUFFICES ASSUME NEW d \in Client PROVE Dialogue(d)'
      OBVIOUS
    <2>1. Holds(d)' <=> Holds(d)
      BY <1>1 DEF Holds
    <2>2. QED
      BY <1>1, <2>1, DialogueKept DEF ControlInv
  <1>4. QED
    BY <1>2, <1>3 DEF ControlInv

LEMMA ControlKeeps ==
    ASSUME ControlInv, [Next]_vars
    PROVE  ControlInv'
  <1>1. ASSUME NEW c \in Client, ClientStep(c) PROVE ControlInv'
    BY <1>1, StartGood, HearGood, SendListGood, DieGood DEF ClientStep
  <1>2. ASSUME Daemon PROVE ControlInv'
    BY <1>2, AcceptGood, ListenGood, CloseGood, DispatchGood DEF Daemon
  <1>3. CASE Elsewhere
    BY <1>3, ElsewhereGood
  <1>4. CASE UNCHANGED vars
    BY <1>4, ControlStutters
  <1>5. QED
    BY <1>1, <1>2, <1>3, <1>4 DEF Next

(* The invariant: each client is at a station of its dialogue, and each    *)
(* connection has one client.                                              *)
THEOREM ControlAlways == Spec => []ControlInv
  <1>1. QED
    BY ControlStarts, ControlKeeps, PTL DEF Spec

(* The sockets, the lock and the queue have the types that ControlTypeOK   *)
(* gives them, whatever the clients.                                       *)
THEOREM ControlTypes == Spec => []ControlTypeOK
  <1>1. ControlInv => ControlTypeOK
    BY DEF ControlInv
  <1>2. QED
    BY <1>1, ControlAlways, PTL

(* control_state.tx: the lock always belongs to a live connection, of a    *)
(* client that has begun a load and not committed it, and what is staged   *)
(* in control_state.play is the beginning of that client's list, however   *)
(* descriptors are closed and used again.                                  *)
THEOREM LockHasOwner == Spec => []LockIsOwned
  <1>1. ASSUME ControlInv PROVE LockIsOwned
    <2>1. CASE tx = None
      BY <1>1, <2>1 DEF ControlInv, Wired, LockIsOwned
    <2>2. CASE tx # None
      <3>1. PICK c \in Client : c = conn[tx] /\ Holds(c)
        BY <1>1, <2>2 DEF ControlInv, ControlTypeOK, Wired, Holds
      <3>2. Verb[c] = "load" /\ Holding(c)
        BY <1>1, <3>1 DEF ControlInv, Dialogue, LoadDialogue, AddDialogue, LoneDialogue,
                          Unborn, Asking, Through, Refused, Answers
      <3>3. /\ Len(staged) <= Len(Paths(c)) /\ done[c] = {}
            /\ \A k \in 1 .. Len(staged) : staged[k] = Paths(c)[k]
        BY <3>2 DEF Holding
      <3>4. IsPrefix(staged, Paths(c))
        <4>1. staged \in Seq(Song) /\ Paths(c) \in Seq(Song)
          BY <1>1, Lists DEF ControlInv, ControlTypeOK
        <4>2. PICK n \in Nat : n = Len(staged)
          BY <4>1
        <4>3. \A k \in 1 .. n : staged[k] \in Song /\ Paths(c)[k] \in Song
          BY <3>3, <4>1, <4>2
        <4>4. /\ SubSeq(staged, 1, n) \in Seq(Song) /\ Len(SubSeq(staged, 1, n)) = n
              /\ \A k \in 1 .. n : SubSeq(staged, 1, n)[k] = staged[k]
          BY <4>3, SubSeqProperties
        <4>5. /\ SubSeq(Paths(c), 1, n) \in Seq(Song) /\ Len(SubSeq(Paths(c), 1, n)) = n
              /\ \A k \in 1 .. n : SubSeq(Paths(c), 1, n)[k] = Paths(c)[k]
          BY <4>3, SubSeqProperties
        <4>6. SubSeq(staged, 1, n) = SubSeq(Paths(c), 1, n)
          BY <3>3, <4>2, <4>4, <4>5, SeqEqual
        <4>7. QED
          BY <3>3, <4>2, <4>6 DEF IsPrefix
      <3>5. QED
        BY <1>1, <2>2, <3>1, <3>2, <3>3, <3>4 DEF ControlInv, Wired, LockIsOwned
    <2>3. QED
      BY <2>1, <2>2
  <1>2. QED
    BY <1>1, ControlAlways, PTL

(* ctlaction(): a load or an add that exits with success has taken effect  *)
(* in full, and a load that exits with an error never has, whoever died    *)
(* and whatever the other clients did meanwhile.                           *)
THEOREM ClientsTellTheTruth == Spec => []AnswersAreTrue
  <1>1. ASSUME ControlInv PROVE AnswersAreTrue
    <2> SUFFICES ASSUME NEW c \in Client
                 PROVE  /\ status[c] = "ok" /\ Verb[c] \in {"load", "add"} => done[c] = All(c)
                        /\ status[c] = "failed" /\ Verb[c] = "load" => done[c] = {}
      BY DEF AnswersAreTrue
    <2>1. CASE Verb[c] = "load"
      BY <1>1, <2>1 DEF ControlInv, Dialogue, LoadDialogue, Unborn, Asking, Holding,
                        Through, Refused, All, Whole
    <2>2. CASE Verb[c] = "add"
      BY <1>1, <2>2 DEF ControlInv, Dialogue, AddDialogue, Unborn, Answers, All
    <2>3. CASE Verb[c] \notin {"load", "add"}
      BY <2>3
    <2>4. QED
      BY <2>1, <2>2, <2>3
  <1>2. QED
    BY <1>1, ControlAlways, PTL

(* A load is atomic: control.c implements QueueService.  The queue changes *)
(* as a whole, at one instant and at most once for each request, to what   *)
(* the client asked for.                                                   *)
THEOREM LoadsAreAtomic == Spec => Atomic
  <1>1. Init => QueueInit
    BY DEF Init
  <1>2. ASSUME ControlInv, [Next]_vars PROVE [QueueNext]_<<pl, done>>
    <2>1. ASSUME NEW c \in Client, ClientStep(c) PROVE UNCHANGED <<pl, done>>
      BY <2>1 DEF ClientStep, Start, Hear, SendList, Die, daemonVars
    <2>2. CASE Accept \/ AcceptFails \/ EnableAccept
      BY <2>2 DEF Accept, AcceptFails, EnableAccept
    <2>3. ASSUME NEW fd \in Fd, Close(fd) PROVE UNCHANGED <<pl, done>>
      BY <2>3 DEF Close
    <2>4. ASSUME NEW fd \in Fd, DispatchImsg(fd) PROVE [QueueNext]_<<pl, done>>
      BY <1>2, <2>4, DispatchGood
    <2>5. CASE Elsewhere
      BY <2>5 DEF Elsewhere, QueueNext
    <2>6. CASE UNCHANGED vars
      BY <2>6 DEF vars, daemonVars
    <2>7. QED
      BY <1>2, <2>1, <2>2, <2>3, <2>4, <2>5, <2>6 DEF Next, Daemon
  <1>3. QED
    BY <1>1, <1>2, ControlAlways, PTL DEF Spec, Atomic, QueueSpec
=============================================================================
