---------------------------- MODULE SessionProofs ----------------------------
(***************************************************************************)
(* The safety properties of Session, for every number of attempts, every   *)
(* file size and every choice of faults: IInv of SessionInv is inductive,  *)
(* and the properties follow from it.                                      *)
(***************************************************************************)
EXTENDS SessionInv, FiniteSetTheorems, SequenceTheorems, TLAPS

-----------------------------------------------------------------------------
(* The parameters that are numbers. *)
LEMMA Numbers == Blocks \in Nat /\ MaxCount \in Nat
  BY SessionAssumption

-----------------------------------------------------------------------------
(* The sequences of datagrams in a socket. *)

(* A socket that recvfrom has taken the first datagram from.                *)
LEMMA Taken ==
  ASSUME NEW S, NEW ch \in Seq(S), ch # <<>>
  PROVE  /\ Head(ch) \in S /\ Tail(ch) \in Seq(S)
         /\ 1 \in DOMAIN ch /\ Head(ch) = ch[1]
         /\ Len(Tail(ch)) = Len(ch) - 1
         /\ \A i \in DOMAIN Tail(ch) :
              i + 1 \in DOMAIN ch /\ i + 1 # 1 /\ Tail(ch)[i] = ch[i + 1]
<1>1. /\ Head(ch) \in S /\ Tail(ch) \in Seq(S) /\ Len(Tail(ch)) = Len(ch) - 1
      /\ \A i \in 1 .. Len(Tail(ch)) : Tail(ch)[i] = ch[i + 1]
  BY HeadTailProperties
<1>2. Len(ch) \in Nat /\ Len(ch) >= 1 /\ DOMAIN ch = 1 .. Len(ch)
  BY EmptySeq, LenProperties
<1>3. DOMAIN Tail(ch) = 1 .. Len(ch) - 1
  BY <1>1, LenProperties
<1>4. Head(ch) = ch[1]
  OBVIOUS
<1> QED BY <1>1, <1>2, <1>3, <1>4

(* A socket that one more datagram has arrived in.                          *)
LEMMA Given ==
  ASSUME NEW S, NEW ch \in Seq(S), NEW p \in S
  PROVE  /\ Append(ch, p) \in Seq(S)
         /\ Len(Append(ch, p)) = Len(ch) + 1
         /\ \A i \in DOMAIN Append(ch, p) :
              \/ i \in DOMAIN ch /\ Append(ch, p)[i] = ch[i]
              \/ i = Len(ch) + 1 /\ Append(ch, p)[i] = p
<1>1. /\ Append(ch, p) \in Seq(S) /\ Len(Append(ch, p)) = Len(ch) + 1
      /\ \A i \in 1 .. Len(ch) : Append(ch, p)[i] = ch[i]
      /\ Append(ch, p)[Len(ch) + 1] = p
  BY AppendProperties
<1>2. DOMAIN Append(ch, p) = 1 .. Len(ch) + 1 /\ DOMAIN ch = 1 .. Len(ch) /\ Len(ch) \in Nat
  BY <1>1, LenProperties
<1> QED BY <1>1, <1>2

(* What RequestsSent puts into a socket: nothing, or one datagram.          *)
LEMMA RequestGiven ==
  ASSUME sock \in Sockets, NEW ch \in Seq(Request), NEW r \in RequestsSent
  PROVE  \/ ch \o r = ch
         \/ \E q \in Request : q.sock = sock /\ ch \o r = Append(ch, q)
<1>1. CASE r = <<>>
  BY <1>1, ConcatEmptySeq
<1>2. ASSUME NEW q \in Request, q.sock = sock, r = <<q>>
      PROVE  ch \o r = Append(ch, q)
  BY <1>2, AppendIsConcat
<1> DEFINE asked == [sock |-> sock, damaged |-> FALSE, ok |-> TRUE]
<1>3. asked \in Request /\ asked.sock = sock
  BY DEF Request
<1>4. r \in {<<asked>>, <<>>} \/ \E d \in BOOLEAN : r = <<[asked EXCEPT !.damaged = d, !.ok = FALSE]>>
  BY DEF RequestsSent
<1> HIDE DEF asked
<1>5. ASSUME NEW d \in BOOLEAN
      PROVE  /\ [asked EXCEPT !.damaged = d, !.ok = FALSE] \in Request
             /\ [asked EXCEPT !.damaged = d, !.ok = FALSE].sock = sock
  BY <1>3 DEF Request
<1> QED BY <1>1, <1>2, <1>3, <1>4, <1>5

(* What an answer of process c may do to rcopy's socket.                    *)
LEMMA AnswerGiven ==
  ASSUME NEW c \in Children, NEW s \in Sockets, NEW f \in {"OK_FILENAME", "BAD_FILENAME", "RR"},
         SendAnswer(c, s, f)
  PROVE  \/ ackCh' = ackCh
         \/ /\ s = sock /\ cstate # "DONE"
            /\ \E a \in Answer : /\ a.from = c /\ a.flag \in {f, "GARBLED"}
                                 /\ ackCh' = Append(ackCh, a)
  BY DEF SendAnswer, Answer

-----------------------------------------------------------------------------
(* The processes that have ended. *)

LEMMA ProcessesFinite ==
  ASSUME NEW S \in SUBSET Children
  PROVE  IsFiniteSet(S) /\ Cardinality(S) \in Nat /\ Cardinality(S) <= MaxCount + 1
<1>1. MaxCount \in Nat /\ MaxCount + 1 \in Int /\ 1 \in Int
      /\ ~(1 > MaxCount + 1) /\ (MaxCount + 1) - 1 + 1 = MaxCount + 1
  BY Numbers
<1>2. IsFiniteSet(Children) /\ Cardinality(Children) = MaxCount + 1
  BY <1>1, FS_Interval DEF Children
<1> QED BY <1>2, FS_Subset, FS_CardinalityType

(* Zombies stay accounted for when no process ends.                         *)
LEMMA NoneEnds ==
  ASSUME ZombieInv, zombies' \in {0, zombies},
         \A c \in Children : child'[c].state = "DONE" <=> child[c].state = "DONE"
  PROVE  ZombieInv'
<1>1. Gone' = Gone
  BY DEF Gone
<1>2. Cardinality(Gone) \in Nat /\ zombies <= Cardinality(Gone)
  BY ProcessesFinite DEF ZombieInv, Gone
<1>3. zombies' <= Cardinality(Gone)
  BY <1>2
<1> QED BY <1>1, <1>3 DEF ZombieInv

(* And when one does.                                                       *)
LEMMA OneEnds ==
  ASSUME TypeOK, ZombieInv, ChildExits,
         NEW c \in Children, child[c].state # "DONE", child' = [child EXCEPT ![c] = Ended(c)]
  PROVE  /\ ZombieInv' /\ zombies' \in 0 .. MaxCount + 1
         /\ server' \in {"LISTENING", "DOWN"} /\ sigchld' \in BOOLEAN
<1>1. c \notin Gone /\ Gone \in SUBSET Children /\ Gone \union {c} \in SUBSET Children
  BY DEF Gone
<1>2. \A d \in Children : child'[d].state = "DONE" <=> d \in Gone \union {c}
  BY DEF TypeOK, Ended, NoChild, Gone
<1>3. Gone' = Gone \union {c}
  BY <1>2 DEF Gone
<1>4. Cardinality(Gone \union {c}) = Cardinality(Gone) + 1
  BY <1>1, ProcessesFinite, FS_AddElement
<1>5. Cardinality(Gone) \in Nat /\ zombies <= Cardinality(Gone)
      /\ Cardinality(Gone) + 1 <= MaxCount + 1
  BY <1>1, <1>4, ProcessesFinite DEF ZombieInv
<1>6. zombies \in Nat
  <2>1. zombies \in 0 .. MaxCount + 1
    BY DEF TypeOK
  <2> QED BY <2>1, Numbers
<1>7. /\ zombies' = zombies + 1 \/ zombies' = zombies
      /\ server' \in {"LISTENING", "DOWN"} /\ sigchld' \in BOOLEAN
  BY DEF ChildExits, serverVars, TypeOK
<1>8. zombies' \in 0 .. MaxCount + 1 /\ zombies' <= Cardinality(Gone) + 1
  BY <1>5, <1>6, <1>7, Numbers
<1> QED BY <1>3, <1>4, <1>7, <1>8 DEF ZombieInv

-----------------------------------------------------------------------------
(* What a state of the invariant is made of. *)

(* The invariant's types, in the form the steps below need.                 *)
LEMMA Typed ==
  ASSUME IInv
  PROVE  /\ count \in Nat /\ count <= MaxCount + 1 /\ sock \in Nat /\ sock \in {0} \union Sockets
         /\ sent \in Nat /\ sent <= Blocks /\ copied \in BOOLEAN /\ late \in BOOLEAN
         /\ peer \in {Server} \union Children /\ Server \notin Children
         /\ ackCh \in Seq(Answer) /\ serverCh \in Seq(Request)
         /\ child \in [Children -> Child] /\ inbox \in [Children -> Seq(Request)]
         /\ cstate \in {"START", "FILENAME", "AWAIT", "SEND_DATA", "DONE"}
         /\ disk \in Disk
<1>1. TypeOK
  BY DEF IInv
<1>2. count \in 0 .. MaxCount + 1 /\ sock \in {0} \union Sockets /\ sent \in 0 .. Blocks
  BY <1>1 DEF TypeOK
<1>3. Server \notin Children
  BY Numbers DEF Server, Children
<1>4. \A s \in Sockets : s \in Nat
  BY Numbers DEF Sockets
<1> QED BY <1>1, <1>2, <1>3, <1>4, Numbers DEF TypeOK

(* The answers in rcopy's socket are those of one process.                  *)
LEMMA Answering ==
  ASSUME IInv, NEW i \in DOMAIN ackCh
  PROVE  ackCh[i].from \in Children /\ Known(ackCh[i].from)
<1>1. ackCh[i] \in Answer
  BY Typed, LenProperties, ElementOfSeq
<1> QED BY <1>1 DEF Answer, Known

(* A step that changes neither the processes nor what rcopy knows of them.  *)
LEMMA SameProcesses ==
  ASSUME UNCHANGED <<child, sock, peer, ackCh>>, NEW c \in Children
  PROVE  (Live(c)' <=> Live(c)) /\ (Serves(c)' <=> Serves(c)) /\ (Known(c)' <=> Known(c))
  BY DEF Live, Serves, Known

-----------------------------------------------------------------------------
(* The steps of rcopy. *)

(* A new socket: nobody knows of it.                                        *)
LEMMA ConnectStep ==
  ASSUME IInv, Connect
  PROVE  IInv'
<1> USE Typed, Numbers
<1>1. /\ cstate = "START" /\ cstate' = "FILENAME" /\ sock' = sock + 1 /\ peer' = Server
      /\ ackCh' = <<>> /\ ~(count > MaxCount)
      /\ UNCHANGED <<count, sent, copied, serverCh, child, inbox, openable, disk, late>>
      /\ UNCHANGED <<server, zombies, sigchld>>
  BY DEF Connect, GivesUp, udpClientSetup, serverVars, fileVars
<1>2. sock = count /\ sock' \in Sockets /\ sent = 0 /\ ~copied
  BY <1>1 DEF IInv, AttemptInv, Sockets
<1>3. TypeOK'
  BY <1>1, <1>2 DEF IInv, TypeOK
<1>4. AttemptInv' /\ ZombieInv'
  BY <1>1, <1>2 DEF IInv, AttemptInv, ZombieInv, Gone
<1>5. \A c \in Children : ~Known(c)' /\ (Live(c)' <=> Live(c)) /\ ~Serves(c)'
  <2> TAKE c \in Children
  <2>1. ~Known(c)' /\ (Live(c)' <=> Live(c))
    BY <1>1 DEF Known, Live
  <2>2. Live(c) => child[c].client # sock + 1
    <3>1. Live(c) => child[c].client <= sock
      BY DEF IInv, ProcessInv
    <3>2. child[c].client \in Nat
      BY DEF Child, Sockets
    <3> QED BY <3>1, <3>2
  <2> QED BY <1>1, <2>1, <2>2 DEF Serves
<1>6. ProcessInv'
  <2>1. \A c \in Children : Live(c) => child[c].client <= sock'
    <3> TAKE c \in Children
    <3>1. Live(c) => child[c].client <= sock
      BY DEF IInv, ProcessInv
    <3>2. child[c].client \in Nat
      BY DEF Child, Sockets
    <3> QED BY <1>1, <3>1, <3>2
  <2> QED BY <1>1, <1>5, <2>1 DEF IInv, ProcessInv
<1>7. ~Asking' /\ \A i \in DOMAIN serverCh : serverCh[i].sock <= sock'
  <2>1. \A i \in DOMAIN serverCh : serverCh[i].sock <= sock /\ serverCh[i].sock \in Nat
    <3> TAKE i \in DOMAIN serverCh
    <3>1. serverCh[i] \in Request
      BY LenProperties, ElementOfSeq
    <3> QED BY <3>1 DEF IInv, OneProcess, Request, Sockets
  <2>2. \A i \in DOMAIN serverCh : serverCh[i].sock <= sock + 1 /\ serverCh[i].sock # sock + 1
    BY <2>1
  <2> QED BY <1>1, <2>2 DEF Asking
<1>8. OneProcess'
  BY <1>1, <1>5, <1>7 DEF OneProcess, Asking
<1>9. FirstAnswer' /\ CopyInv'
  BY <1>1, <1>2 DEF FirstAnswer, CopyInv, Copying
<1>10. FileInv'
  <2> SUFFICES ASSUME ~late PROVE FileInv'
    BY <1>1 DEF FileInv
  <2>1. /\ serverCh = <<>>
        /\ \A c \in Children :
              child[c].state \notin {"FORKED", "FILENAME"} /\ inbox[c] = <<>>
    BY <1>1 DEF IInv, FileInv
  <2> QED BY <1>1, <1>2, <1>5, <2>1 DEF FileInv, Copying, Live
<1> QED BY <1>3, <1>4, <1>6, <1>8, <1>9, <1>10 DEF IInv

(* rcopy ends.                                                              *)
LEMMA RcopyEnds ==
  ASSUME IInv, cstate # "DONE", cstate' = "DONE",
         copied' \in BOOLEAN, copied' => cstate = "SEND_DATA" /\ sent = Blocks,
         UNCHANGED <<count, sock, peer, sent, ackCh, serverCh, child, inbox, serverVars, fileVars, late>>
  PROVE  IInv'
<1> USE Typed
<1>1. UNCHANGED <<openable, disk, server, zombies, sigchld>>
  BY DEF serverVars, fileVars
<1>2. TypeOK'
  BY <1>1 DEF IInv, TypeOK
<1>3. AttemptInv' /\ ZombieInv'
  BY <1>1 DEF IInv, AttemptInv, ZombieInv, Gone
<1>4. \A c \in Children : (Live(c)' <=> Live(c)) /\ (Serves(c)' <=> Serves(c)) /\ (Known(c)' <=> Known(c))
  BY SameProcesses
<1>5. ProcessInv'
  BY <1>1, <1>4 DEF IInv, ProcessInv
<1>6. OneProcess'
  BY <1>4 DEF IInv, OneProcess, Asking
<1>7. FirstAnswer'
  BY DEF IInv, FirstAnswer
<1>8. Copying' => Copying
  BY DEF Copying
<1>9. CopyInv'
  BY <1>8 DEF IInv, CopyInv
<1>10. FileInv'
  BY <1>1, <1>4, <1>8 DEF IInv, FileInv
<1> QED BY <1>2, <1>3, <1>5, <1>6, <1>7, <1>9, <1>10 DEF IInv

(* The name is not answered.                                                *)
LEMMA NoFileAckStep ==
  ASSUME IInv, NoFileAck
  PROVE  IInv'
<1> USE Typed, Numbers
<1>1. /\ cstate = "AWAIT" /\ ackCh = <<>> /\ late' = (late \/ ~Quiet) /\ count' = count + 1
      /\ cstate' = "START"
      /\ UNCHANGED <<sock, peer, sent, copied, ackCh, serverCh, child, inbox, openable, disk>>
      /\ UNCHANGED <<server, zombies, sigchld>>
  BY DEF NoFileAck, serverVars, fileVars
<1>2. sock = count + 1 /\ count <= MaxCount /\ sent = 0 /\ ~copied
  BY <1>1 DEF IInv, AttemptInv
<1>3. TypeOK'
  BY <1>1, <1>2 DEF IInv, TypeOK, Quiet
<1>4. AttemptInv' /\ ZombieInv'
  BY <1>1, <1>2 DEF IInv, AttemptInv, ZombieInv, Gone
<1>5. \A c \in Children : (Live(c)' <=> Live(c)) /\ (Serves(c)' <=> Serves(c)) /\ (Known(c)' <=> Known(c))
  BY <1>1, SameProcesses
<1>6. ProcessInv'
  BY <1>1, <1>5 DEF IInv, ProcessInv
<1>7. OneProcess'
  BY <1>1, <1>5 DEF IInv, OneProcess, Asking
<1>8. FirstAnswer' /\ CopyInv'
  BY <1>1, <1>2 DEF IInv, FirstAnswer, CopyInv, Copying
<1>9. FileInv'
  BY <1>1, <1>2, <1>5 DEF IInv, FileInv, Copying, Quiet
<1> QED BY <1>3, <1>4, <1>6, <1>7, <1>8, <1>9 DEF IInv

(* The name is sent: to the server once for each socket, or to the process  *)
(* that has answered on it.                                                 *)
LEMMA SendFilenameStep ==
  ASSUME IInv, SendFilename
  PROVE  IInv'
<1> USE Typed, Numbers
<1>1. /\ cstate = "FILENAME" /\ cstate' = "AWAIT"
      /\ UNCHANGED <<count, sock, peer, sent, copied, ackCh, child, openable, disk, late>>
      /\ UNCHANGED <<server, zombies, sigchld>>
  BY DEF SendFilename, serverVars, fileVars
<1>2. sock = count + 1 /\ count <= MaxCount /\ sent = 0 /\ ~copied /\ sock \in Sockets
  BY <1>1 DEF IInv, AttemptInv, Sockets
<1>3. \A c \in Children : (Live(c)' <=> Live(c)) /\ (Serves(c)' <=> Serves(c)) /\ (Known(c)' <=> Known(c))
  BY <1>1, SameProcesses
<1>4. AttemptInv' /\ ZombieInv'
  BY <1>1, <1>2 DEF IInv, AttemptInv, ZombieInv, Gone
<1>5. FirstAnswer' /\ CopyInv'
  BY <1>1, <1>2 DEF IInv, FirstAnswer, CopyInv, Copying
<1>6. CASE UNCHANGED <<serverCh, inbox>>
  <2>1. TypeOK' /\ ProcessInv'
    BY <1>1, <1>3, <1>6 DEF IInv, TypeOK, ProcessInv
  <2>2. OneProcess' /\ FileInv'
    BY <1>1, <1>2, <1>3, <1>6 DEF IInv, OneProcess, Asking, FileInv, Copying
  <2> QED BY <1>4, <1>5, <2>1, <2>2 DEF IInv
<1>7. ASSUME peer = Server, UNCHANGED inbox,
             NEW q \in Request, q.sock = sock, serverCh' = Append(serverCh, q)
      PROVE  IInv'
  <2>1. /\ serverCh' \in Seq(Request)
        /\ \A i \in DOMAIN serverCh' :
              \/ i \in DOMAIN serverCh /\ serverCh'[i] = serverCh[i]
              \/ i = Len(serverCh) + 1 /\ serverCh'[i] = q
    BY <1>7, Given
  <2>2. ~Asking /\ \A c \in Children : ~Serves(c) /\ ~Known(c)
    BY <1>1, <1>7 DEF IInv, OneProcess
  <2>3. TypeOK'
    BY <1>1, <1>7, <2>1 DEF IInv, TypeOK
  <2>4. ProcessInv'
    BY <1>1, <1>3, <1>7 DEF IInv, ProcessInv
  <2>5. OneProcess'
    <3>1. \A i \in DOMAIN serverCh' : serverCh'[i].sock <= sock
      BY <1>7, <2>1 DEF IInv, OneProcess
    <3>2. \A i \in DOMAIN serverCh' : serverCh'[i].sock = sock => i = Len(serverCh) + 1
      BY <2>1, <2>2 DEF Asking
    <3> QED BY <1>1, <1>3, <2>2, <3>1, <3>2 DEF OneProcess
  <2>6. FileInv'
    BY <1>1, <1>2, <1>3, <1>7, <2>1 DEF IInv, FileInv, Copying
  <2> QED BY <1>4, <1>5, <2>3, <2>4, <2>5, <2>6 DEF IInv
<1>8. ASSUME peer \in Children, child[peer].state # "DONE", UNCHANGED serverCh,
             NEW q \in Request, q.sock = sock,
             inbox' = [inbox EXCEPT ![peer] = Append(inbox[peer], q)]
      PROVE  IInv'
  <2>1. /\ inbox'[peer] \in Seq(Request)
        /\ \A i \in DOMAIN inbox'[peer] :
              \/ i \in DOMAIN inbox[peer] /\ inbox'[peer][i] = inbox[peer][i]
              \/ inbox'[peer][i] = q
        /\ \A c \in Children : c # peer => inbox'[c] = inbox[c]
    <3>1. inbox'[peer] = Append(inbox[peer], q) /\ inbox[peer] \in Seq(Request)
      BY <1>8
    <3> QED BY <1>8, <3>1, Given
  <2>2. child[peer].state = "RECV_DATA" /\ child[peer].client = sock
    BY <1>8 DEF IInv, ProcessInv, Known
  <2>3. TypeOK'
    BY <1>1, <1>8, <2>1 DEF IInv, TypeOK
  <2>4. ProcessInv'
    <3>1. \A c \in Children : inbox'[c] # <<>> => child[c].state = "RECV_DATA"
      BY <2>1, <2>2 DEF IInv, ProcessInv
    <3>2. \A c \in Children : \A i \in DOMAIN inbox'[c] : inbox'[c][i].sock = child[c].client
      BY <1>8, <2>1, <2>2 DEF IInv, ProcessInv
    <3>3. \A c \in Children : Serves(c) /\ peer # c => inbox'[c] = <<>> /\ child[c].seq = 0
      BY <2>1 DEF IInv, ProcessInv
    <3> QED BY <1>1, <1>3, <3>1, <3>2, <3>3 DEF IInv, ProcessInv
  <2>5. OneProcess'
    BY <1>1, <1>3, <1>8 DEF IInv, OneProcess, Asking
  <2>6. FileInv'
    BY <1>1, <1>2, <1>3, <1>8, <2>1, <2>2 DEF IInv, FileInv, Copying
  <2> QED BY <1>4, <1>5, <2>3, <2>4, <2>5, <2>6 DEF IInv
<1>9. PICK r \in RequestsSent :
        IF peer = Server
        THEN /\ serverCh' = IF server = "DOWN" THEN serverCh ELSE serverCh \o r
             /\ UNCHANGED inbox
        ELSE /\ inbox' = IF child[peer].state = "DONE" THEN inbox
                         ELSE [inbox EXCEPT ![peer] = @ \o r]
             /\ UNCHANGED serverCh
  BY DEF SendFilename
<1>10. CASE peer = Server
  BY <1>2, <1>6, <1>7, <1>9, <1>10, RequestGiven
<1>11. CASE peer # Server
  <2>1. peer \in Children /\ inbox[peer] \in Seq(Request)
    BY <1>11
  <2>2. CASE child[peer].state = "DONE" \/ inbox[peer] \o r = inbox[peer]
    <3>1. inbox' = inbox
      BY <1>9, <1>11, <2>1, <2>2
    <3> QED BY <1>6, <1>9, <1>11, <3>1
  <2>3. CASE child[peer].state # "DONE" /\ inbox[peer] \o r # inbox[peer]
    <3>1. PICK q \in Request : q.sock = sock /\ inbox[peer] \o r = Append(inbox[peer], q)
      BY <1>2, <2>1, <2>3, RequestGiven
    <3>2. inbox' = [inbox EXCEPT ![peer] = Append(inbox[peer], q)] /\ UNCHANGED serverCh
      BY <1>9, <1>11, <2>3, <3>1
    <3> QED BY <1>8, <2>1, <2>3, <3>1, <3>2
  <2> QED BY <2>2, <2>3
<1> QED BY <1>10, <1>11

(* An answer to the name.                                                   *)
LEMMA FileAckStep ==
  ASSUME IInv, FileAck
  PROVE  IInv'
<1> USE Typed, Numbers
<1> DEFINE c0 == Head(ackCh).from
<1>1. /\ cstate = "AWAIT" /\ ackCh # <<>> /\ peer' = c0 /\ ackCh' = Tail(ackCh)
      /\ cstate' \in {"SEND_DATA", "DONE", "FILENAME"}
      /\ cstate' = "SEND_DATA" => Head(ackCh).flag = "OK_FILENAME"
      /\ UNCHANGED <<count, sock, sent, copied, serverCh, child, inbox, openable, disk, late>>
      /\ UNCHANGED <<server, zombies, sigchld>>
  <2>1. Head(ackCh) \in Answer
    BY Taken DEF FileAck
  <2> QED BY <2>1 DEF FileAck, serverVars, fileVars, Answer
<1>2. sock = count + 1 /\ count <= MaxCount /\ sent = 0 /\ ~copied
  BY <1>1 DEF IInv, AttemptInv
<1>3. /\ 1 \in DOMAIN ackCh /\ Head(ackCh) = ackCh[1] /\ Tail(ackCh) \in Seq(Answer)
      /\ \A i \in DOMAIN Tail(ackCh) :
           i + 1 \in DOMAIN ackCh /\ i + 1 # 1 /\ Tail(ackCh)[i] = ackCh[i + 1]
  BY <1>1, Taken
<1>4. c0 \in Children /\ Known(c0) /\ c0 # Server
  BY <1>3, Answering
<1>5. \A c \in Children : (Live(c)' <=> Live(c)) /\ (Serves(c)' <=> Serves(c))
  BY <1>1 DEF Live, Serves
<1>6. \A c \in Children : Known(c)' => Known(c) /\ c = c0
  <2> TAKE c \in Children
  <2>1. Known(c)' => Known(c)
    BY <1>1, <1>3, <1>4 DEF Known
  <2>2. Known(c) => c = c0
    BY <1>4 DEF IInv, OneProcess
  <2> QED BY <2>1, <2>2
<1> HIDE DEF c0
<1>7. TypeOK'
  BY <1>1, <1>3, <1>4 DEF IInv, TypeOK
<1>8. AttemptInv' /\ ZombieInv'
  BY <1>1, <1>2 DEF IInv, AttemptInv, ZombieInv, Gone
<1>9. ProcessInv'
  <2>1. \A c \in Children : Serves(c) /\ c0 # c => peer # c
    BY <1>4 DEF IInv, OneProcess, Known
  <2> QED BY <1>1, <1>5, <1>6, <2>1 DEF IInv, ProcessInv
<1>10. OneProcess'
  BY <1>1, <1>4, <1>5, <1>6 DEF IInv, OneProcess, Asking
<1>11. \A i \in DOMAIN ackCh : ackCh[i].flag = "OK_FILENAME" => peer = Server /\ i = 1 /\ ackCh' = <<>>
  <2> TAKE i \in DOMAIN ackCh
  <2> SUFFICES ASSUME ackCh[i].flag = "OK_FILENAME" PROVE peer = Server /\ i = 1 /\ ackCh' = <<>>
    OBVIOUS
  <2>1. Len(ackCh) = 1 /\ peer = Server
    BY DEF IInv, FirstAnswer
  <2>2. Len(Tail(ackCh)) = 0 /\ i = 1
    BY <1>1, <2>1, Taken, LenProperties
  <2> QED BY <1>1, <1>3, <2>1, <2>2, EmptySeq
<1>12. FirstAnswer'
  BY <1>1, <1>3, <1>11 DEF FirstAnswer
<1>13. cstate' = "SEND_DATA" =>
         /\ peer = Server /\ ackCh' = <<>> /\ inbox[c0] = <<>>
         /\ \/ child[c0].state = "DONE"
            \/ child[c0].state = "RECV_DATA" /\ child[c0].seq = 0
  <2> SUFFICES ASSUME cstate' = "SEND_DATA"
               PROVE  /\ peer = Server /\ ackCh' = <<>> /\ inbox[c0] = <<>>
                      /\ \/ child[c0].state = "DONE"
                         \/ child[c0].state = "RECV_DATA" /\ child[c0].seq = 0
    OBVIOUS
  <2>1. peer = Server /\ ackCh' = <<>>
    BY <1>1, <1>3, <1>11
  <2>2. CASE child[c0].state = "DONE"
    BY <1>4, <2>1, <2>2 DEF IInv, ProcessInv
  <2>3. CASE child[c0].state = "RECV_DATA" /\ child[c0].client = sock
    BY <1>4, <2>1, <2>3 DEF IInv, ProcessInv, Serves, Live
  <2> QED BY <1>4, <2>1, <2>2, <2>3 DEF IInv, ProcessInv
<1>14. CopyInv'
  BY <1>1, <1>2, <1>4, <1>13 DEF CopyInv, Copying
<1>15. FileInv'
  <2> SUFFICES ASSUME ~late PROVE FileInv'
    BY <1>1 DEF FileInv
  <2>1. Copying' /\ ~child[c0].damaged => disk = [i \in 1 .. sent |-> i - 1]
    <3>1. Copying' => Head(ackCh).flag = "OK_FILENAME"
      BY <1>1, <1>2 DEF Copying
    <3>2. Copying' /\ ~child[c0].damaged => disk = <<>>
      BY <1>3, <3>1 DEF IInv, FileInv, c0
    <3>3. [i \in 1 .. sent |-> i - 1] = <<>>
      BY <1>2
    <3> QED BY <3>2, <3>3
  <2>2. \A i \in DOMAIN ackCh' :
          ackCh'[i].flag = "OK_FILENAME" /\ ~child[ackCh'[i].from].damaged => disk = <<>>
    BY <1>1, <1>3 DEF IInv, FileInv
  <2> QED BY <1>1, <1>5, <2>1, <2>2 DEF IInv, FileInv
<1> QED BY <1>7, <1>8, <1>9, <1>10, <1>12, <1>14, <1>15 DEF IInv

(* WriteAt writes within the alphabet of a file.                            *)
LEMMA WriteType ==
  ASSUME NEW d \in Disk, NEW n \in Nat, NEW x \in 0 .. Blocks + 2
  PROVE  WriteAt(d, n, x) \in Disk
<1> DEFINE len == IF n < Len(d) THEN Len(d) ELSE n + 1
<1>1. len \in Nat /\ d \in Seq(0 .. Blocks + 2) /\ Hole \in 0 .. Blocks + 2
  BY LenProperties, Numbers DEF Disk, Hole
<1>2. \A i \in 1 .. Len(d) : d[i] \in 0 .. Blocks + 2
  BY <1>1, ElementOfSeq
<1>3. WriteAt(d, n, x) =
        [i \in 1 .. len |-> IF i = n + 1 THEN x ELSE IF i <= Len(d) THEN d[i] ELSE Hole]
  BY DEF WriteAt
<1> HIDE DEF len
<1>4. \A i \in 1 .. len :
        (IF i = n + 1 THEN x ELSE IF i <= Len(d) THEN d[i] ELSE Hole) \in 0 .. Blocks + 2
  <2> TAKE i \in 1 .. len
  <2>1. i \in Nat /\ i >= 1 /\ Len(d) \in Nat
    BY <1>1, LenProperties
  <2> QED BY <1>1, <1>2, <2>1
<1>5. WriteAt(d, n, x) \in [1 .. len -> 0 .. Blocks + 2]
  BY <1>3, <1>4
<1> QED BY <1>1, <1>5, SeqDef DEF Disk

(* A copy that is complete up to block n, and block n.                      *)
LEMMA NextBlock ==
  ASSUME NEW n \in Nat
  PROVE  WriteAt([i \in 1 .. n |-> i - 1], n, n) = [i \in 1 .. n + 1 |-> i - 1]
<1>1. Len([i \in 1 .. n |-> i - 1]) = n
  OBVIOUS
<1>2. ~(n < n)
  OBVIOUS
<1>3. \A i \in 1 .. n + 1 :
        (IF i = n + 1 THEN n ELSE IF i <= n THEN [j \in 1 .. n |-> j - 1][i] ELSE Hole) = i - 1
  <2> TAKE i \in 1 .. n + 1
  <2>1. CASE i = n + 1
    BY <2>1
  <2>2. CASE i \in 1 .. n
    BY <2>2
  <2>3. i = n + 1 \/ i \in 1 .. n
    OBVIOUS
  <2> QED BY <2>1, <2>2, <2>3
<1> QED BY <1>1, <1>2, <1>3 DEF WriteAt

(* A block is copied.                                                       *)
LEMMA CopyBlockStep ==
  ASSUME IInv, CopyBlock
  PROVE  IInv'
<1> USE Typed, Numbers
<1>1. /\ cstate = "SEND_DATA" /\ sent < Blocks
      /\ child[peer].state = "RECV_DATA" /\ child[peer].seq = sent
      /\ disk' = IF child[peer].file = "COPY" THEN WriteAt(disk, sent, sent) ELSE disk
      /\ child' = [child EXCEPT ![peer].seq = sent + 1]
      /\ sent' = sent + 1
      /\ UNCHANGED <<cstate, count, sock, peer, copied, ackCh, serverCh, inbox, openable, late>>
      /\ UNCHANGED <<server, zombies, sigchld>>
  BY DEF CopyBlock, serverVars
<1>2. peer \in Children /\ Known(peer) /\ ackCh = <<>> /\ inbox[peer] = <<>> /\ ~copied
  BY <1>1 DEF IInv, CopyInv, Copying, Known, AttemptInv
<1>3. child[peer].client = sock
  BY <1>1, <1>2 DEF IInv, ProcessInv
<1>4. /\ \A c \in Children : child'[c] \in Child
      /\ \A c \in Children : c # peer => child'[c] = child[c]
      /\ \A c \in Children :
           /\ child'[c].state = child[c].state /\ child'[c].client = child[c].client
           /\ child'[c].file = child[c].file /\ child'[c].damaged = child[c].damaged
      /\ child'[peer].seq = sent + 1 /\ child' \in [Children -> Child]
  <2>1. child' = [child EXCEPT ![peer] = [child[peer] EXCEPT !.seq = sent + 1]]
    BY <1>1
  <2>2. child[peer] \in Child
    BY <1>2
  <2> DEFINE n == sent + 1
             e == [child[peer] EXCEPT !.seq = n]
  <2>3. n \in Nat
    OBVIOUS
  <2> HIDE DEF n
  <2>4. /\ e \in Child /\ e.state = child[peer].state /\ e.client = child[peer].client
        /\ e.file = child[peer].file /\ e.damaged = child[peer].damaged /\ e.seq = n
    BY <2>3, <2>2 DEF Child
  <2> HIDE DEF e
  <2>5. child'[peer] = e /\ \A c \in Children : c # peer => child'[c] = child[c]
    BY <1>2, <2>1 DEF e, n
  <2>6. child' \in [Children -> Child]
    BY <2>1, <2>4 DEF e, n
  <2> QED BY <2>4, <2>5, <2>6 DEF n
<1>5. \A c \in Children : (Live(c)' <=> Live(c)) /\ (Serves(c)' <=> Serves(c)) /\ (Known(c)' <=> Known(c))
  BY <1>1, <1>4 DEF Live, Serves, Known
<1>6. disk' \in Disk
  BY <1>1, WriteType
<1>7. TypeOK'
  BY <1>1, <1>4, <1>6 DEF IInv, TypeOK
<1>8. AttemptInv'
  BY <1>1, <1>2 DEF IInv, AttemptInv
<1>9. ZombieInv'
  BY <1>1, <1>4, NoneEnds DEF IInv
<1>10. ProcessInv'
  BY <1>1, <1>4, <1>5 DEF IInv, ProcessInv
<1>11. OneProcess'
  BY <1>1, <1>5 DEF IInv, OneProcess, Asking
<1>12. FirstAnswer' /\ CopyInv'
  BY <1>1, <1>2, <1>4 DEF FirstAnswer, CopyInv, Copying
<1>13. FileInv'
  <2> SUFFICES ASSUME ~late PROVE FileInv'
    BY <1>1 DEF FileInv
  <2>1. \A c \in Children : ~(Serves(c) /\ child'[c].seq = 0)
    <3> TAKE c \in Children
    <3>1. Serves(c) => c = peer
      BY <1>2 DEF IInv, OneProcess
    <3> QED BY <1>4, <3>1
  <2>2. ~child[peer].damaged => disk' = [i \in 1 .. sent' |-> i - 1]
    <3> SUFFICES ASSUME ~child[peer].damaged PROVE disk' = [i \in 1 .. sent' |-> i - 1]
      OBVIOUS
    <3>1. child[peer].file = "COPY"
      BY <1>1, <1>2 DEF IInv, ProcessInv, Live
    <3>2. disk = [i \in 1 .. sent |-> i - 1]
      BY <1>1 DEF IInv, FileInv, Copying
    <3> QED BY <1>1, <3>1, <3>2, NextBlock
  <2> QED BY <1>1, <1>2, <1>4, <1>5, <2>1, <2>2 DEF IInv, FileInv
<1> QED BY <1>7, <1>8, <1>9, <1>10, <1>11, <1>12, <1>13 DEF IInv

-----------------------------------------------------------------------------
(* The steps of the server's first process. *)

(* It forks a process for the first datagram in its socket.                 *)
LEMMA AcceptStep ==
  ASSUME IInv, Accept
  PROVE  IInv'
<1> USE Typed
<1>1. PICK c \in Children :
        /\ child[c].state = "NONE"
        /\ child' = [child EXCEPT ![c] =
             [NoChild EXCEPT !.state = "FORKED", !.client = Head(serverCh).sock,
                             !.damaged = Head(serverCh).damaged]]
  BY DEF Accept
<1>2. /\ serverCh # <<>> /\ serverCh' = Tail(serverCh)
      /\ UNCHANGED <<cstate, count, sock, peer, sent, copied, ackCh, inbox, openable, disk, late>>
      /\ UNCHANGED <<server, zombies, sigchld>>
  BY DEF Accept, rcopyVars, serverVars, fileVars
<1> DEFINE r == Head(serverCh)
<1>3. /\ r \in Request /\ 1 \in DOMAIN serverCh /\ r = serverCh[1]
      /\ Tail(serverCh) \in Seq(Request)
      /\ \A i \in DOMAIN Tail(serverCh) :
           i + 1 \in DOMAIN serverCh /\ i + 1 # 1 /\ Tail(serverCh)[i] = serverCh[i + 1]
  BY <1>2, Taken
<1> HIDE DEF r
<1>4. /\ child'[c].state = "FORKED" /\ child'[c].client = r.sock /\ child'[c].file = "NONE"
      /\ child'[c].seq = 0 /\ child'[c] \in Child
      /\ \A d \in Children : d # c => child'[d] = child[d]
      /\ child' \in [Children -> Child]
  BY <1>1, <1>3 DEF NoChild, Child, Request, r
<1>5. ~Known(c) /\ inbox[c] = <<>> /\ ~Serves(c) /\ ~Live(c)
  BY <1>1 DEF IInv, ProcessInv, Live, Serves
<1>6. /\ Live(c)' /\ (Serves(c)' <=> r.sock = sock) /\ ~Known(c)'
      /\ \A d \in Children : d # c => (Live(d)' <=> Live(d)) /\ (Serves(d)' <=> Serves(d))
      /\ \A d \in Children : Known(d)' <=> Known(d)
  BY <1>2, <1>4, <1>5 DEF Live, Serves, Known
<1>7. r.sock = sock => Asking
  BY <1>3 DEF Asking
<1>8. TypeOK'
  BY <1>2, <1>3, <1>4 DEF IInv, TypeOK
<1>9. AttemptInv'
  BY <1>2 DEF IInv, AttemptInv
<1>10. ZombieInv'
  BY <1>1, <1>2, <1>4, NoneEnds DEF IInv
<1>11. ProcessInv'
  <2>1. r.sock <= sock
    BY <1>3 DEF IInv, OneProcess
  <2> QED BY <1>1, <1>2, <1>4, <1>5, <1>6, <2>1 DEF IInv, ProcessInv
<1>12. OneProcess'
  <2>1. \A i \in DOMAIN serverCh' : serverCh'[i].sock <= sock
    BY <1>2, <1>3 DEF IInv, OneProcess
  <2>2. \A i, j \in DOMAIN serverCh' :
          serverCh'[i].sock = sock /\ serverCh'[j].sock = sock => i = j
    <3> TAKE i, j \in DOMAIN serverCh'
    <3> SUFFICES ASSUME serverCh'[i].sock = sock, serverCh'[j].sock = sock PROVE i = j
      OBVIOUS
    <3>1. i + 1 = j + 1
      BY <1>2, <1>3 DEF IInv, OneProcess
    <3>2. i \in Nat /\ j \in Nat
      BY <1>2, <1>3, LenProperties
    <3> QED BY <3>1, <3>2
  <2>3. Asking' => Asking /\ r.sock # sock
    <3> SUFFICES ASSUME NEW i \in DOMAIN serverCh', serverCh'[i].sock = sock
                 PROVE  Asking /\ r.sock # sock
      BY <1>2 DEF Asking
    <3>1. i + 1 \in DOMAIN serverCh /\ i + 1 # 1 /\ serverCh[i + 1].sock = sock
      BY <1>2, <1>3
    <3>2. Asking
      BY <3>1 DEF Asking
    <3>3. r.sock # sock
      BY <1>3, <3>1 DEF IInv, OneProcess
    <3> QED BY <3>2, <3>3
  <2>4. \A d, e \in Children :
          (Serves(d)' \/ Known(d)') /\ (Serves(e)' \/ Known(e)') => d = e
    BY <1>6, <1>7 DEF IInv, OneProcess
  <2>5. \A d \in Children : Serves(d)' \/ Known(d)' => ~Asking'
    BY <1>6, <2>3 DEF IInv, OneProcess
  <2>6. cstate = "FILENAME" /\ peer = Server
          => ~Asking' /\ \A d \in Children : ~Serves(d)' /\ ~Known(d)'
    BY <1>6, <1>7, <2>3 DEF IInv, OneProcess
  <2> QED BY <1>2, <2>1, <2>2, <2>4, <2>5, <2>6 DEF OneProcess
<1>13. FirstAnswer'
  BY <1>2 DEF IInv, FirstAnswer
<1>14. CopyInv'
  BY <1>1, <1>2, <1>4 DEF IInv, CopyInv, Copying
<1>15. FileInv'
  <2> SUFFICES ASSUME ~late PROVE FileInv'
    BY <1>2 DEF FileInv
  <2>1. r.sock = sock /\ \A i \in DOMAIN serverCh' : serverCh'[i].sock = sock
    BY <1>2, <1>3 DEF IInv, FileInv
  <2>2. cstate # "START"
    BY <1>2 DEF IInv, FileInv
  <2>3. \A i \in DOMAIN ackCh : ackCh[i].from \in Children /\ ackCh[i].from # c
    BY <1>5, Answering
  <2>4. Copying => peer \in Children /\ peer # c
    BY <1>1 DEF IInv, CopyInv
  <2>5. \A d \in Children : Serves(d)' /\ child'[d].file = "COPY" /\ child'[d].seq = 0 => disk = <<>>
    BY <1>4, <1>6 DEF IInv, FileInv
  <2>6. \A d \in Children :
          Live(d)' /\ child'[d].client # sock => child'[d].state = "RECV_DATA" /\ inbox[d] = <<>>
    BY <1>4, <1>6, <2>1 DEF IInv, FileInv
  <2> QED BY <1>2, <1>4, <2>1, <2>2, <2>3, <2>4, <2>5, <2>6 DEF IInv, FileInv, Copying
<1> QED BY <1>8, <1>9, <1>10, <1>11, <1>12, <1>13, <1>14, <1>15 DEF IInv

(* It ends because fork fails, or waits for the processes that have ended.  *)
LEMMA ServerStep ==
  ASSUME IInv, ForkFails \/ HandleZombie
  PROVE  IInv'
<1> USE Typed, Numbers
<1>1. /\ zombies' = 0 /\ sigchld' \in BOOLEAN /\ server' \in {"LISTENING", "DOWN"}
      /\ serverCh' = serverCh \/ serverCh' = <<>>
      /\ UNCHANGED <<cstate, count, sock, peer, sent, copied, ackCh, child, inbox, openable, disk, late>>
  BY DEF ForkFails, HandleZombie, rcopyVars, fileVars, IInv, TypeOK
<1>2. \A c \in Children : (Live(c)' <=> Live(c)) /\ (Serves(c)' <=> Serves(c)) /\ (Known(c)' <=> Known(c))
  BY <1>1, SameProcesses
<1>3. TypeOK'
  <2>1. zombies' \in 0 .. MaxCount + 1
    BY <1>1
  <2>2. serverCh' \in Seq(Request)
    BY <1>1, EmptySeq
  <2> QED BY <1>1, <2>1, <2>2 DEF IInv, TypeOK
<1>4. AttemptInv' /\ ZombieInv'
  BY <1>1, NoneEnds DEF IInv, AttemptInv
<1>5. ProcessInv' /\ FirstAnswer' /\ CopyInv'
  BY <1>1, <1>2 DEF IInv, ProcessInv, FirstAnswer, CopyInv, Copying
<1>6. OneProcess' /\ FileInv'
  BY <1>1, <1>2 DEF IInv, OneProcess, Asking, FileInv, Copying
<1> QED BY <1>3, <1>4, <1>5, <1>6 DEF IInv

-----------------------------------------------------------------------------
(* The steps of the processes. *)

(* What remains of a process that has ended.                                *)
LEMMA EndedChild ==
  ASSUME IInv, NEW c \in Children, child' = [child EXCEPT ![c] = Ended(c)]
  PROVE  /\ child' \in [Children -> Child]
         /\ \A d \in Children : d # c => child'[d] = child[d]
         /\ child'[c].state = "DONE" /\ child'[c].damaged = child[c].damaged
         /\ \A d \in Children : child'[d].damaged = child[d].damaged
<1>1. child[c] \in Child /\ child \in [Children -> Child]
  BY Typed
<1>2. 1 \in Sockets
  BY Numbers DEF Sockets
<1>3. NoChild \in Child
  BY <1>2 DEF NoChild, Child
<1>4. Ended(c) \in Child /\ Ended(c).state = "DONE" /\ Ended(c).damaged = child[c].damaged
  BY <1>1, <1>3 DEF Ended, Child
<1> QED BY <1>1, <1>4

(* A process ends: whatever it knew, the other processes know no less.      *)
LEMMA ProcessEnds ==
  ASSUME IInv, NEW c \in Children, child[c].state # "DONE",
         child' = [child EXCEPT ![c] = Ended(c)], ChildExits,
         late' \in BOOLEAN, late => late',
         inbox' \in [Children -> Seq(Request)], inbox'[c] = <<>>,
         \A d \in Children : d # c => inbox'[d] = inbox[d],
         UNCHANGED <<rcopyVars, ackCh, serverCh, fileVars>>
  PROVE  IInv'
<1> USE Typed
<1>1. UNCHANGED <<cstate, count, sock, peer, sent, copied, openable, disk>>
  BY DEF rcopyVars, fileVars
<1>2. /\ child' \in [Children -> Child]
      /\ \A d \in Children : d # c => child'[d] = child[d]
      /\ child'[c].state = "DONE" /\ child'[c].damaged = child[c].damaged
      /\ \A d \in Children : child'[d].damaged = child[d].damaged
  BY EndedChild
<1>3. /\ ~Live(c)' /\ ~Serves(c)'
      /\ \A d \in Children : d # c => (Live(d)' <=> Live(d)) /\ (Serves(d)' <=> Serves(d))
      /\ \A d \in Children : Known(d)' <=> Known(d)
  BY <1>1, <1>2 DEF Live, Serves, Known
<1>4. /\ ZombieInv' /\ zombies' \in 0 .. MaxCount + 1
      /\ server' \in {"LISTENING", "DOWN"} /\ sigchld' \in BOOLEAN
  BY OneEnds DEF IInv
<1>5. TypeOK'
  BY <1>1, <1>2, <1>4 DEF IInv, TypeOK
<1>6. AttemptInv'
  BY <1>1 DEF IInv, AttemptInv
<1>7. ProcessInv'
  BY <1>1, <1>2, <1>3 DEF IInv, ProcessInv
<1>8. OneProcess'
  BY <1>1, <1>3 DEF IInv, OneProcess, Asking
<1>9. FirstAnswer'
  BY <1>1 DEF IInv, FirstAnswer
<1>10. CopyInv'
  BY <1>1, <1>2 DEF IInv, CopyInv, Copying
<1>11. FileInv'
  <2> SUFFICES ASSUME ~late PROVE FileInv'
    BY DEF FileInv
  <2>1. \A i \in DOMAIN ackCh : ackCh[i].from \in Children
    BY Answering
  <2>2. Copying' => Copying /\ peer \in Children
    BY <1>1 DEF IInv, CopyInv, Copying
  <2> QED BY <1>1, <1>2, <1>3, <2>1, <2>2, SMTT(30) DEF IInv, FileInv
<1> QED BY <1>4, <1>5, <1>6, <1>7, <1>8, <1>9, <1>10, <1>11 DEF IInv

(* A process opens, and truncates, a file.                                  *)
LEMMA FileOpened ==
  ASSUME IInv, NEW c \in Children, child[c].state = "FORKED", NEW f \in Opened(c),
         child' = [child EXCEPT ![c].state = "FILENAME", ![c].file = f],
         disk' = IF f = "COPY" THEN <<>> ELSE disk,
         UNCHANGED <<rcopyVars, ackCh, serverCh, inbox, serverVars, openable, late>>
  PROVE  IInv'
<1> USE Typed, Numbers
<1>1. /\ UNCHANGED <<cstate, count, sock, peer, sent, copied>>
      /\ UNCHANGED <<server, zombies, sigchld>>
  BY DEF rcopyVars, serverVars
<1>2. f \in {"NONE", "COPY", "OTHER"}
  BY DEF Opened
<1>3. ~child[c].damaged => f = IF openable THEN "COPY" ELSE "NONE"
  BY DEF Opened
<1>4. /\ child' \in [Children -> Child]
      /\ \A d \in Children : d # c => child'[d] = child[d]
      /\ child'[c].state = "FILENAME" /\ child'[c].file = f
      /\ child'[c].client = child[c].client /\ child'[c].seq = child[c].seq
      /\ \A d \in Children : child'[d].damaged = child[d].damaged
  <2> DEFINE e == [child[c] EXCEPT !.state = "FILENAME", !.file = f]
  <2>1. child' = [child EXCEPT ![c] = e]
    BY <1>1
  <2>2. child[c] \in Child
    OBVIOUS
  <2>3. /\ e \in Child /\ e.state = "FILENAME" /\ e.file = f /\ e.client = child[c].client
        /\ e.seq = child[c].seq /\ e.damaged = child[c].damaged
    BY <1>2, <2>2 DEF Child
  <2> HIDE DEF e
  <2> QED BY <2>1, <2>3
<1>5. \A d \in Children : (Live(d)' <=> Live(d)) /\ (Serves(d)' <=> Serves(d)) /\ (Known(d)' <=> Known(d))
  BY <1>1, <1>4 DEF Live, Serves, Known
<1>6. ~Known(c) /\ peer # c /\ inbox[c] = <<>> /\ Live(c)
  BY DEF IInv, ProcessInv, Known, Live
<1>7. disk' \in Disk
  BY EmptySeq DEF Disk
<1>8. TypeOK'
  BY <1>1, <1>4, <1>7 DEF IInv, TypeOK
<1>9. AttemptInv'
  BY <1>1 DEF IInv, AttemptInv
<1>10. ZombieInv'
  BY <1>1, <1>4, NoneEnds DEF IInv
<1>11. ProcessInv'
  BY <1>1, <1>3, <1>4, <1>5, <1>6 DEF IInv, ProcessInv
<1>12. OneProcess' /\ FirstAnswer'
  BY <1>1, <1>5 DEF IInv, OneProcess, Asking, FirstAnswer
<1>13. CopyInv'
  BY <1>1, <1>4, <1>6 DEF IInv, CopyInv, Copying
<1>14. FileInv'
  <2> SUFFICES ASSUME ~late PROVE FileInv'
    BY DEF FileInv
  <2>1. Serves(c) /\ child[c].client = sock
    BY <1>6 DEF IInv, FileInv, Serves
  <2>2. cstate # "START"
    BY DEF IInv, FileInv
  <2>3. DOMAIN ackCh = {}
    <3> SUFFICES ASSUME NEW i \in DOMAIN ackCh PROVE FALSE
      OBVIOUS
    <3>1. ackCh[i].from = c
      BY <2>1, Answering DEF IInv, OneProcess
    <3> QED BY <1>6, <3>1, Answering
  <2>4. ~Copying
    <3> SUFFICES ASSUME Copying PROVE FALSE
      OBVIOUS
    <3>1. peer \in Children /\ Known(peer)
      BY DEF IInv, CopyInv, Known
    <3> QED BY <1>6, <2>1, <3>1 DEF IInv, OneProcess
  <2>5. \A d \in Children : Serves(d) /\ child'[d].file = "COPY" /\ child'[d].seq = 0 => disk' = <<>>
    BY <1>4, <2>1 DEF IInv, OneProcess
  <2>6. \A d \in Children :
          Live(d) /\ child'[d].client # sock => child'[d].state = "RECV_DATA" /\ inbox[d] = <<>>
    BY <1>4, <2>1 DEF IInv, FileInv
  <2> QED BY <1>1, <1>5, <2>2, <2>3, <2>4, <2>5, <2>6 DEF IInv, FileInv, Copying
<1> QED BY <1>8, <1>9, <1>10, <1>11, <1>12, <1>13, <1>14 DEF IInv

(* The first step of a process.                                             *)
LEMMA OpenFileStep ==
  ASSUME IInv, NEW c \in Children, OpenFile(c)
  PROVE  IInv'
<1>1. /\ child[c].state = "FORKED" /\ inbox[c] = <<>>
      /\ UNCHANGED <<rcopyVars, ackCh, serverCh, inbox, openable, late>>
  BY DEF OpenFile, IInv, ProcessInv
<1>2. CASE \E f \in Opened(c) :
              /\ child' = [child EXCEPT ![c].state = "FILENAME", ![c].file = f]
              /\ disk' = IF f = "COPY" THEN <<>> ELSE disk
              /\ UNCHANGED serverVars
  BY <1>1, <1>2, FileOpened
<1>3. CASE child' = [child EXCEPT ![c] = Ended(c)] /\ ChildExits /\ UNCHANGED disk
  <2>1. UNCHANGED fileVars /\ late' \in BOOLEAN
    BY <1>1, <1>3, Typed DEF fileVars
  <2>2. inbox' \in [Children -> Seq(Request)] /\ inbox'[c] = <<>>
        /\ \A d \in Children : d # c => inbox'[d] = inbox[d]
    BY <1>1, Typed
  <2> QED BY <1>1, <1>3, <2>1, <2>2, ProcessEnds
<1> QED BY <1>2, <1>3 DEF OpenFile

(* The last step of a process that has received data.                       *)
LEMMA ChildEndsStep ==
  ASSUME IInv, NEW c \in Children, ChildEnds(c)
  PROVE  IInv'
<1> USE Typed
<1>1. /\ child[c].state = "RECV_DATA" /\ child' = [child EXCEPT ![c] = Ended(c)] /\ ChildExits
      /\ UNCHANGED <<rcopyVars, ackCh, serverCh, fileVars>>
      /\ late' \in BOOLEAN /\ (late => late')
  BY DEF ChildEnds
<1>2. /\ inbox' \in [Children -> Seq(Request)] /\ inbox'[c] = <<>>
      /\ \A d \in Children : d # c => inbox'[d] = inbox[d]
  BY EmptySeq DEF ChildEnds
<1> QED BY <1>1, <1>2, ProcessEnds

(* What an answer changes of what rcopy knows.                              *)
LEMMA AnswerHeard ==
  ASSUME IInv, UNCHANGED peer, NEW c \in Children, NEW a \in Answer, a.from = c,
         ackCh' = ackCh \/ ackCh' = Append(ackCh, a)
  PROVE  /\ ackCh' \in Seq(Answer)
         /\ \A i \in DOMAIN ackCh' : (i \in DOMAIN ackCh /\ ackCh'[i] = ackCh[i]) \/ ackCh'[i] = a
         /\ \A d \in Children : Known(d)' => Known(d) \/ d = c
<1>1. /\ ackCh' \in Seq(Answer)
      /\ \A i \in DOMAIN ackCh' : (i \in DOMAIN ackCh /\ ackCh'[i] = ackCh[i]) \/ ackCh'[i] = a
  <2>1. ackCh \in Seq(Answer)
    BY Typed
  <2>2. CASE ackCh' = ackCh
    BY <2>1, <2>2
  <2>3. CASE ackCh' = Append(ackCh, a)
    BY <2>1, <2>3, Given
  <2> QED BY <2>2, <2>3
<1> QED BY <1>1 DEF Known

(* A process that could open no file says so, and ends.                     *)
LEMMA FilenameBad ==
  ASSUME IInv, NEW c \in Children, child[c].state = "FILENAME",
         SendAnswer(c, child[c].client, "BAD_FILENAME"),
         child' = [child EXCEPT ![c] = Ended(c)], ChildExits,
         UNCHANGED <<rcopyVars, serverCh, inbox, fileVars, late>>
  PROVE  IInv'
<1> USE Typed
<1>1. UNCHANGED <<cstate, count, sock, peer, sent, copied, openable, disk>>
  BY DEF rcopyVars, fileVars
<1>2. /\ child' \in [Children -> Child]
      /\ \A d \in Children : d # c => child'[d] = child[d]
      /\ child'[c].state = "DONE" /\ child'[c].damaged = child[c].damaged
      /\ \A d \in Children : child'[d].damaged = child[d].damaged
  BY EndedChild
<1>3. PICK a \in Answer :
        /\ a.from = c /\ a.flag # "OK_FILENAME"
        /\ \/ ackCh' = ackCh
           \/ /\ child[c].client = sock /\ cstate # "DONE"
              /\ ackCh' = Append(ackCh, a)
  <2>1. child[c].client \in Sockets
    BY DEF Child
  <2>2. [from |-> c, flag |-> "GARBLED"] \in Answer
    BY DEF Answer
  <2>3. \/ ackCh' = ackCh
        \/ /\ child[c].client = sock /\ cstate # "DONE"
           /\ \E a \in Answer : /\ a.from = c /\ a.flag \in {"BAD_FILENAME", "GARBLED"}
                                /\ ackCh' = Append(ackCh, a)
    BY <2>1, AnswerGiven
  <2> QED BY <2>2, <2>3
<1>4. /\ ackCh' \in Seq(Answer)
      /\ \A i \in DOMAIN ackCh' : (i \in DOMAIN ackCh /\ ackCh'[i] = ackCh[i]) \/ ackCh'[i] = a
      /\ \A d \in Children : Known(d)' => Known(d) \/ d = c
  BY <1>1, <1>3, AnswerHeard
<1>5. ~Known(c) /\ inbox[c] = <<>> /\ peer # c /\ Live(c)
  BY DEF IInv, ProcessInv, Known, Live
<1>6. \A d \in Children : Known(d)' => Known(d) \/ Serves(d)
  <2>1. CASE ackCh' = ackCh
    BY <1>1, <2>1 DEF Known
  <2>2. CASE child[c].client = sock
    BY <1>4, <1>5, <2>2 DEF Serves
  <2> QED BY <1>3, <2>1, <2>2
<1>7. /\ ~Live(c)' /\ ~Serves(c)'
      /\ \A d \in Children : d # c => (Live(d)' <=> Live(d)) /\ (Serves(d)' <=> Serves(d))
  BY <1>1, <1>2 DEF Live, Serves
<1>8. /\ ZombieInv' /\ zombies' \in 0 .. MaxCount + 1
      /\ server' \in {"LISTENING", "DOWN"} /\ sigchld' \in BOOLEAN
  BY OneEnds DEF IInv
<1>9. TypeOK'
  BY <1>1, <1>2, <1>4, <1>8 DEF IInv, TypeOK
<1>10. AttemptInv'
  BY <1>1 DEF IInv, AttemptInv
<1>11. ProcessInv'
  BY <1>1, <1>2, <1>4, <1>5, <1>7 DEF IInv, ProcessInv
<1>12. OneProcess'
  BY <1>1, <1>6, <1>7 DEF IInv, OneProcess, Asking
<1>13. FirstAnswer' /\ (cstate = "SEND_DATA" => ackCh' = ackCh)
  <2>1. CASE ackCh' = ackCh
    BY <1>1, <2>1 DEF IInv, FirstAnswer
  <2>2. CASE child[c].client = sock
    <3>1. DOMAIN ackCh = {} /\ peer \notin Children
      BY <1>5, <2>2, Answering DEF IInv, OneProcess, Known, Serves
    <3> QED BY <1>1, <1>3, <1>4, <3>1 DEF IInv, FirstAnswer, CopyInv, Copying
  <2> QED BY <1>3, <2>1, <2>2
<1>14. CopyInv'
  BY <1>1, <1>2, <1>5, <1>13 DEF IInv, CopyInv, Copying
<1>15. FileInv'
  <2> SUFFICES ASSUME ~late PROVE FileInv'
    BY DEF FileInv
  <2>1. \A i \in DOMAIN ackCh : ackCh[i].from \in Children
    BY Answering
  <2>2. Copying' => Copying /\ peer \in Children
    BY <1>1 DEF IInv, CopyInv, Copying
  <2>3. \A i \in DOMAIN ackCh' :
          ackCh'[i].flag = "OK_FILENAME" /\ ~child'[ackCh'[i].from].damaged => disk = <<>>
    <3>1. \A i \in DOMAIN ackCh' :
            ackCh'[i].flag = "OK_FILENAME" => i \in DOMAIN ackCh /\ ackCh'[i] = ackCh[i]
      BY <1>3, <1>4
    <3>2. \A i \in DOMAIN ackCh : child'[ackCh[i].from].damaged = child[ackCh[i].from].damaged
      BY <1>2, <2>1
    <3> QED BY <3>1, <3>2 DEF IInv, FileInv
  <2> QED BY <1>1, <1>2, <1>7, <2>2, <2>3 DEF IInv, FileInv
<1> QED BY <1>8, <1>9, <1>10, <1>11, <1>12, <1>13, <1>14, <1>15 DEF IInv

(* A process that has opened a file says so, and receives data.             *)
LEMMA FilenameOk ==
  ASSUME IInv, NEW c \in Children, child[c].state = "FILENAME", child[c].file # "NONE",
         SendAnswer(c, child[c].client, "OK_FILENAME"),
         child' = [child EXCEPT ![c].state = "RECV_DATA"],
         UNCHANGED <<rcopyVars, serverCh, inbox, serverVars, fileVars, late>>
  PROVE  IInv'
<1> USE Typed
<1>1. /\ UNCHANGED <<cstate, count, sock, peer, sent, copied, openable, disk>>
      /\ UNCHANGED <<server, zombies, sigchld>>
  BY DEF rcopyVars, fileVars, serverVars
<1>2. /\ child' \in [Children -> Child]
      /\ \A d \in Children : d # c => child'[d] = child[d]
      /\ child'[c].state = "RECV_DATA" /\ child'[c].client = child[c].client
      /\ child'[c].seq = child[c].seq
      /\ \A d \in Children : /\ child'[d].damaged = child[d].damaged
                             /\ child'[d].file = child[d].file
                             /\ child'[d].seq = child[d].seq
  <2> DEFINE e == [child[c] EXCEPT !.state = "RECV_DATA"]
  <2>1. child' = [child EXCEPT ![c] = e]
    OBVIOUS
  <2>2. child[c] \in Child
    OBVIOUS
  <2>3. /\ e \in Child /\ e.state = "RECV_DATA" /\ e.file = child[c].file
        /\ e.client = child[c].client /\ e.seq = child[c].seq /\ e.damaged = child[c].damaged
    BY <2>2 DEF Child
  <2> HIDE DEF e
  <2> QED BY <2>1, <2>3
<1>3. PICK a \in Answer :
        /\ a.from = c
        /\ \/ ackCh' = ackCh
           \/ /\ child[c].client = sock /\ cstate # "DONE"
              /\ ackCh' = Append(ackCh, a)
  <2>1. child[c].client \in Sockets
    BY DEF Child
  <2>2. [from |-> c, flag |-> "GARBLED"] \in Answer
    BY DEF Answer
  <2> QED BY <2>1, <2>2, AnswerGiven
<1>4. /\ ackCh' \in Seq(Answer)
      /\ \A i \in DOMAIN ackCh' : (i \in DOMAIN ackCh /\ ackCh'[i] = ackCh[i]) \/ ackCh'[i] = a
      /\ \A d \in Children : Known(d)' => Known(d) \/ d = c
  BY <1>1, <1>3, AnswerHeard
<1>5. ~Known(c) /\ inbox[c] = <<>> /\ peer # c /\ Live(c)
  BY DEF IInv, ProcessInv, Known, Live
<1>6. \A d \in Children : (Live(d)' <=> Live(d)) /\ (Serves(d)' <=> Serves(d))
  BY <1>1, <1>2, <1>5 DEF Live, Serves
<1>7. \A d \in Children : Known(d)' => Known(d) \/ (d = c /\ Serves(c))
  <2>1. CASE ackCh' = ackCh
    BY <1>1, <2>1 DEF Known
  <2>2. CASE child[c].client = sock
    BY <1>4, <1>5, <2>2 DEF Serves
  <2> QED BY <1>3, <2>1, <2>2
<1>8. TypeOK'
  BY <1>1, <1>2, <1>4 DEF IInv, TypeOK
<1>9. AttemptInv'
  BY <1>1 DEF IInv, AttemptInv
<1>10. ZombieInv'
  BY <1>1, <1>2, NoneEnds DEF IInv
<1>11. ProcessInv'
  <2>1. Serves(c) => child[c].client = sock /\ child[c].seq = 0
    BY <1>5 DEF IInv, ProcessInv, Serves
  <2>2. Live(c) /\ ~child[c].damaged => child[c].file = IF openable THEN "COPY" ELSE "NONE"
    BY DEF IInv, ProcessInv
  <2> QED BY <1>1, <1>2, <1>5, <1>6, <1>7, <2>1, <2>2 DEF IInv, ProcessInv
<1>12. OneProcess'
  BY <1>1, <1>6, <1>7 DEF IInv, OneProcess, Asking
<1>13. \/ ackCh' = ackCh
       \/ /\ Serves(c) /\ peer = Server /\ DOMAIN ackCh = {}
          /\ ackCh' = Append(ackCh, a) /\ Len(ackCh') = 1
  <2> SUFFICES ASSUME child[c].client = sock, ackCh' = Append(ackCh, a)
               PROVE  Serves(c) /\ peer = Server /\ DOMAIN ackCh = {} /\ Len(ackCh') = 1
    BY <1>3
  <2>1. Serves(c)
    BY <1>5 DEF Serves
  <2>2. DOMAIN ackCh = {} /\ peer \notin Children
    BY <1>5, <2>1, Answering DEF IInv, OneProcess, Known
  <2>3. Len(ackCh) = 0
    BY <2>2, LenProperties
  <2> QED BY <2>1, <2>2, <2>3, Given
<1>14. FirstAnswer'
  BY <1>1, <1>13 DEF IInv, FirstAnswer
<1>15. CopyInv'
  BY <1>1, <1>2, <1>5, <1>13 DEF IInv, CopyInv, Copying
<1>16. FileInv'
  <2> SUFFICES ASSUME ~late PROVE FileInv'
    BY DEF FileInv
  <2>1. \A i \in DOMAIN ackCh' :
          ackCh'[i].flag = "OK_FILENAME" /\ ~child'[ackCh'[i].from].damaged => disk = <<>>
    <3>1. CASE ackCh' = ackCh
      BY <1>2, <3>1, Answering DEF IInv, FileInv
    <3>2. CASE Serves(c) /\ DOMAIN ackCh = {}
      <4>1. ~child[c].damaged => child[c].file = "COPY" /\ child[c].seq = 0
        BY <1>5, <3>2 DEF IInv, ProcessInv
      <4> QED BY <1>2, <1>3, <1>4, <3>2, <4>1 DEF IInv, FileInv
    <3> QED BY <1>13, <3>1, <3>2
  <2>2. cstate # "START"
    BY DEF IInv, FileInv
  <2>3. Copying' => Copying /\ peer \in Children
    BY <1>1 DEF IInv, CopyInv, Copying
  <2>4. \A d \in Children :
          Live(d) /\ child'[d].client # sock => child'[d].state = "RECV_DATA" /\ inbox[d] = <<>>
    BY <1>2, <1>5 DEF IInv, FileInv
  <2>5. \A d \in Children : Serves(d) /\ child'[d].file = "COPY" /\ child'[d].seq = 0 => disk = <<>>
    BY <1>2 DEF IInv, FileInv
  <2> QED BY <1>1, <1>2, <1>6, <2>1, <2>2, <2>3, <2>4, <2>5 DEF IInv, FileInv
<1> QED BY <1>8, <1>9, <1>10, <1>11, <1>12, <1>14, <1>15, <1>16 DEF IInv

(* The name reaches a process that receives data.                           *)
LEMMA RecvNameStep ==
  ASSUME IInv, NEW c \in Children, RecvName(c)
  PROVE  IInv'
<1> USE Typed
<1> DEFINE r == Head(inbox[c])
           first == r.ok /\ child[c].seq = 0
<1>1. /\ child[c].state = "RECV_DATA" /\ inbox[c] # <<>>
      /\ child' = [child EXCEPT ![c].client = r.sock,
                                ![c].seq = IF first THEN 1 ELSE @]
      /\ disk' = IF first /\ child[c].file = "COPY" THEN WriteAt(disk, 0, NameData) ELSE disk
      /\ IF r.ok THEN SendAnswer(c, r.sock, "RR") ELSE UNCHANGED ackCh
      /\ inbox' = [inbox EXCEPT ![c] = Tail(inbox[c])]
      /\ UNCHANGED <<cstate, count, sock, peer, sent, copied, serverCh, openable, late>>
      /\ UNCHANGED <<server, zombies, sigchld>>
  BY DEF RecvName, rcopyVars, serverVars
<1>2. /\ r \in Request /\ r = inbox[c][1] /\ 1 \in DOMAIN inbox[c]
      /\ Tail(inbox[c]) \in Seq(Request)
      /\ \A i \in DOMAIN Tail(inbox[c]) :
           i + 1 \in DOMAIN inbox[c] /\ Tail(inbox[c])[i] = inbox[c][i + 1]
  <2>1. inbox[c] \in Seq(Request)
    OBVIOUS
  <2> QED BY <1>1, <2>1, Taken
<1>3. r.sock = child[c].client
  BY <1>2 DEF IInv, ProcessInv
<1> DEFINE n == IF first THEN 1 ELSE child[c].seq
<1>4. n \in Nat /\ (n = 0 => ~first /\ child[c].seq = 0)
  BY DEF Child
<1>5. /\ child' \in [Children -> Child]
      /\ \A d \in Children : d # c => child'[d] = child[d]
      /\ child'[c].seq = n
      /\ \A d \in Children :
           /\ child'[d].damaged = child[d].damaged /\ child'[d].file = child[d].file
           /\ child'[d].client = child[d].client /\ child'[d].state = child[d].state
  <2> DEFINE e == [child[c] EXCEPT !.client = child[c].client, !.seq = n]
  <2>1. child' = [child EXCEPT ![c] = e]
    BY <1>1, <1>3
  <2> HIDE DEF n
  <2>2. child[c] \in Child
    OBVIOUS
  <2>3. /\ e \in Child /\ e.state = child[c].state /\ e.file = child[c].file
        /\ e.client = child[c].client /\ e.seq = n /\ e.damaged = child[c].damaged
    BY <1>4, <2>2 DEF Child
  <2> HIDE DEF e
  <2> QED BY <2>1, <2>3
<1>6. disk' \in Disk
  <2>1. NameData \in 0 .. Blocks + 2 /\ 0 \in Nat
    BY Numbers DEF NameData
  <2> QED BY <1>1, <2>1, WriteType
<1>7. PICK a \in Answer :
        /\ a.from = c /\ a.flag # "OK_FILENAME"
        /\ \/ ackCh' = ackCh
           \/ /\ child[c].client = sock /\ cstate # "DONE"
              /\ ackCh' = Append(ackCh, a)
  <2>1. child[c].client \in Sockets
    BY DEF Child
  <2>2. [from |-> c, flag |-> "GARBLED"] \in Answer
    BY DEF Answer
  <2> QED BY <1>1, <1>3, <2>1, <2>2, AnswerGiven
<1> HIDE DEF r, first, n
<1>8. /\ ackCh' \in Seq(Answer)
      /\ \A i \in DOMAIN ackCh' : (i \in DOMAIN ackCh /\ ackCh'[i] = ackCh[i]) \/ ackCh'[i] = a
      /\ \A d \in Children : Known(d)' => Known(d) \/ d = c
  BY <1>1, <1>7, AnswerHeard
<1>9. child[c].client = sock => Serves(c) /\ peer = c /\ Known(c)
  BY <1>1 DEF IInv, ProcessInv, Serves, Live, Known
<1>10. \A d \in Children : (Live(d)' <=> Live(d)) /\ (Serves(d)' <=> Serves(d))
  BY <1>1, <1>5 DEF Live, Serves
<1>11. \A d \in Children : Known(d)' => Known(d)
  <2>1. CASE ackCh' = ackCh
    BY <1>1, <2>1 DEF Known
  <2>2. CASE child[c].client = sock
    BY <1>8, <1>9, <2>2
  <2> QED BY <1>7, <2>1, <2>2
<1>12. /\ inbox' \in [Children -> Seq(Request)] /\ inbox'[c] = Tail(inbox[c])
       /\ \A d \in Children : d # c => inbox'[d] = inbox[d]
  BY <1>1, <1>2
<1>13. TypeOK'
  BY <1>1, <1>5, <1>6, <1>8, <1>12 DEF IInv, TypeOK
<1>14. AttemptInv'
  BY <1>1 DEF IInv, AttemptInv
<1>15. ZombieInv'
  BY <1>1, <1>5, NoneEnds DEF IInv
<1>16. ProcessInv'
  <2>1. Serves(c) => peer = c
    BY <1>9 DEF Serves
  <2> QED BY <1>1, <1>2, <1>5, <1>10, <1>11, <1>12, <2>1 DEF IInv, ProcessInv
<1>17. OneProcess'
  BY <1>1, <1>10, <1>11 DEF IInv, OneProcess, Asking
<1>18. FirstAnswer'
  <2>1. CASE ackCh' = ackCh
    BY <1>1, <2>1 DEF IInv, FirstAnswer
  <2>2. CASE child[c].client = sock
    BY <1>1, <1>7, <1>8, <1>9, <2>2 DEF IInv, FirstAnswer
  <2> QED BY <1>7, <2>1, <2>2
<1>19. Copying => c # peer /\ child[c].client # sock /\ ackCh' = ackCh
  BY <1>1, <1>7, <1>9 DEF IInv, CopyInv
<1>20. CopyInv'
  BY <1>1, <1>5, <1>12, <1>19 DEF IInv, CopyInv, Copying
<1>21. FileInv'
  <2> SUFFICES ASSUME ~late PROVE FileInv'
    BY <1>1 DEF FileInv
  <2>1. child[c].client = sock /\ cstate # "START"
    BY <1>1 DEF IInv, FileInv, Live
  <2>2. ~Copying
    BY <1>19, <2>1
  <2>3. \A i \in DOMAIN ackCh' : ackCh'[i].flag # "OK_FILENAME"
    BY <1>7, <1>8, <1>9, <2>1 DEF IInv, FirstAnswer
  <2>4. \A d \in Children : Serves(d) /\ child'[d].file = "COPY" /\ child'[d].seq = 0 => disk' = <<>>
    <3> TAKE d \in Children
    <3> SUFFICES ASSUME Serves(d), child'[d].file = "COPY", child'[d].seq = 0 PROVE disk' = <<>>
      OBVIOUS
    <3>1. d = c
      BY <1>9, <2>1 DEF IInv, OneProcess
    <3>2. ~first /\ child[c].seq = 0
      BY <1>4, <1>5, <3>1
    <3> QED BY <1>1, <1>5, <3>1, <3>2 DEF IInv, FileInv
  <2>5. \A d \in Children :
          Live(d) /\ child'[d].client # sock => child'[d].state = "RECV_DATA" /\ inbox'[d] = <<>>
    BY <1>5, <1>12, <2>1 DEF IInv, FileInv
  <2> QED BY <1>1, <1>10, <2>1, <2>2, <2>3, <2>4, <2>5 DEF IInv, FileInv, Copying
<1> QED BY <1>13, <1>14, <1>15, <1>16, <1>17, <1>18, <1>20, <1>21 DEF IInv

-----------------------------------------------------------------------------
(* The theorems. *)

(* The invariant holds when the programs start.                             *)
LEMMA SessionInit == Init => IInv
<1> USE Numbers
<1> SUFFICES ASSUME Init PROVE IInv
  OBVIOUS
<1>1. /\ cstate = "START" /\ count = 0 /\ sock = 0 /\ peer = Server /\ sent = 0 /\ copied = FALSE
      /\ ackCh = <<>> /\ serverCh = <<>> /\ child = [c \in Children |-> NoChild]
      /\ inbox = [c \in Children |-> <<>>] /\ zombies = 0 /\ sigchld = FALSE /\ late = FALSE
      /\ server = "LISTENING" /\ openable \in BOOLEAN
      /\ disk = <<>> \/ disk = [i \in 1 .. Blocks + 1 |-> OldData]
  BY DEF Init
<1>2. NoChild \in Child /\ NoChild.state = "NONE"
  <2>1. 1 \in Sockets
    BY DEF Sockets
  <2> QED BY <2>1 DEF NoChild, Child
<1>3. disk \in Disk
  <2>1. OldData \in 0 .. Blocks + 2
    BY DEF OldData
  <2>2. [i \in 1 .. Blocks + 1 |-> OldData] \in [1 .. Blocks + 1 -> 0 .. Blocks + 2]
    BY <2>1
  <2>3. Blocks + 1 \in Nat
    OBVIOUS
  <2>4. [i \in 1 .. Blocks + 1 |-> OldData] \in Seq(0 .. Blocks + 2)
    BY <2>2, <2>3, SeqDef
  <2> QED BY <1>1, <2>4, EmptySeq DEF Disk
<1>4. \A c \in Children : child[c] = NoChild /\ inbox[c] = <<>>
  BY <1>1
<1>5. \A c \in Children : ~Live(c) /\ ~Serves(c) /\ ~Known(c)
  <2>1. \A c \in Children : c # Server
    BY DEF Children, Server
  <2> QED BY <1>1, <1>2, <1>4, <2>1 DEF Live, Serves, Known
<1>6. TypeOK
  <2>1. child \in [Children -> Child] /\ inbox \in [Children -> Seq(Request)]
    BY <1>1, <1>2, EmptySeq
  <2>2. ackCh \in Seq(Answer) /\ serverCh \in Seq(Request)
    BY <1>1, EmptySeq
  <2>3. count \in 0 .. MaxCount + 1 /\ zombies \in 0 .. MaxCount + 1 /\ sent \in 0 .. Blocks
    BY <1>1
  <2> QED BY <1>1, <1>3, <2>1, <2>2, <2>3 DEF TypeOK
<1>7. ZombieInv
  <2>1. Cardinality(Gone) \in Nat
    BY ProcessesFinite DEF Gone
  <2> QED BY <1>1, <2>1 DEF ZombieInv
<1>8. AttemptInv /\ FirstAnswer /\ CopyInv
  BY <1>1 DEF AttemptInv, FirstAnswer, CopyInv, Copying
<1>9. ProcessInv
  BY <1>2, <1>4, <1>5 DEF ProcessInv
<1>10. OneProcess
  BY <1>1, <1>5 DEF OneProcess, Asking
<1>11. FileInv
  BY <1>1, <1>2, <1>4, <1>5 DEF FileInv, Copying
<1> QED BY <1>6, <1>7, <1>8, <1>9, <1>10, <1>11 DEF IInv

(* Every step keeps it.                                                     *)
LEMMA SessionStep ==
  ASSUME IInv, [Next]_vars
  PROVE  IInv'
<1>1. CASE Connect
  BY <1>1, ConnectStep
<1>2. CASE HostNotFound \/ GiveUp \/ EndCopy
  <2>1. cstate # "DONE" /\ cstate' = "DONE"
    BY <1>2 DEF HostNotFound, GiveUp, EndCopy
  <2>2. UNCHANGED <<count, sock, peer, sent, ackCh, serverCh, child, inbox, serverVars, fileVars, late>>
    BY <1>2 DEF HostNotFound, GiveUp, EndCopy
  <2>3. copied' \in BOOLEAN /\ (copied' => cstate = "SEND_DATA" /\ sent = Blocks)
    <3>1. copied = FALSE
      BY <2>1, Typed DEF IInv, AttemptInv
    <3>2. CASE HostNotFound \/ GiveUp
      BY <3>1, <3>2 DEF HostNotFound, GiveUp
    <3>3. CASE EndCopy
      <4>1. cstate = "SEND_DATA" /\ (copied' = FALSE \/ copied' = (sent = Blocks))
        BY <3>3 DEF EndCopy
      <4>2. (sent = Blocks) \in BOOLEAN
        OBVIOUS
      <4> QED BY <4>1, <4>2, Zenon
    <3> QED BY <1>2, <3>2, <3>3
  <2> QED BY <2>1, <2>2, <2>3, RcopyEnds
<1>3. CASE SendFilename
  BY <1>3, SendFilenameStep
<1>4. CASE FileAck
  BY <1>4, FileAckStep
<1>5. CASE NoFileAck
  BY <1>5, NoFileAckStep
<1>6. CASE CopyBlock
  BY <1>6, CopyBlockStep
<1>7. CASE ServerNext
  BY <1>7, AcceptStep, ServerStep DEF ServerNext
<1>8. ASSUME NEW c \in Children, ChildNext(c)
      PROVE  IInv'
  <2>1. CASE OpenFile(c)
    BY <2>1, OpenFileStep
  <2>2. CASE Filename(c)
    BY <2>2, FilenameOk, FilenameBad DEF Filename
  <2>3. CASE RecvName(c)
    BY <2>3, RecvNameStep
  <2>4. CASE ChildEnds(c)
    BY <2>4, ChildEndsStep
  <2> QED BY <1>8, <2>1, <2>2, <2>3, <2>4 DEF ChildNext
<1>9. CASE UNCHANGED vars
  <2>1. UNCHANGED <<cstate, count, sock, peer, sent, copied, ackCh, serverCh, child, inbox,
                    openable, disk, late, server, zombies, sigchld>>
    BY <1>9 DEF vars, rcopyVars, serverVars, fileVars
  <2> QED BY <2>1
          DEF IInv, TypeOK, AttemptInv, ZombieInv, Gone, ProcessInv, OneProcess, FirstAnswer,
              CopyInv, Copying, FileInv, Live, Serves, Known, Asking
<1> QED BY <1>1, <1>2, <1>3, <1>4, <1>5, <1>6, <1>7, <1>8, <1>9 DEF Next, RcopyNext

(* One socket of rcopy's, one request to the server, one process, and what  *)
(* that does to the file: the inductive invariant of Session.               *)
THEOREM SessionInvariance == Spec => []IInv
  BY SessionInit, SessionStep, PTL DEF Spec

(* Every variable of the two programs keeps its type: the sockets and the   *)
(* processes suffice for the attempts of processFile, and no more children  *)
(* wait for handleZombie than there have been attempts.                     *)
THEOREM SessionTypeCorrect == Spec => []TypeOK
<1>1. IInv => TypeOK
  BY DEF IInv
<1> QED BY <1>1, SessionInvariance, PTL

(* The data phase starts as Transfer does: with a process that has written  *)
(* nothing, and no other datagram under way to rcopy (send_filename).       *)
THEOREM DataPhaseClean == Spec => []StartsClean
<1>1. IInv => StartsClean
  <2> SUFFICES ASSUME IInv, cstate = "SEND_DATA"
               PROVE  /\ ackCh = <<>>
                      /\ peer \in Children
                      /\ inbox[peer] = <<>>
                      /\ \/ child[peer].state = "DONE"
                         \/ /\ child[peer].state = "RECV_DATA"
                            /\ child[peer].file # "NONE"
                            /\ child[peer].client = sock
                            /\ child[peer].seq = sent
    BY DEF StartsClean
  <2>1. /\ ackCh = <<>> /\ peer \in Children /\ inbox[peer] = <<>>
        /\ child[peer].state = "DONE" \/ (child[peer].state = "RECV_DATA" /\ child[peer].seq = sent)
    BY DEF IInv, CopyInv, Copying
  <2> QED BY <2>1 DEF IInv, ProcessInv, Known
<1> QED BY <1>1, SessionInvariance, PTL

(* Unless a process or an answer took longer than a wait, a copy reported   *)
(* complete is the file, whatever earlier attempts have left behind.        *)
THEOREM NoTraceOfAttempts == Spec => []CopyIntact
<1>1. IInv => CopyIntact
  BY DEF IInv, AttemptInv, FileInv, CopyIntact, Copying
<1> QED BY <1>1, SessionInvariance, PTL

(* On one socket rcopy never changes from one process to another, although  *)
(* CsafeRecvfrom overwrites server->remote at every datagram.               *)
THEOREM PeerStays == Spec => PeerKept
<1>1. IInv /\ [Next]_vars => [sock' = sock /\ peer \in Children => peer' = peer]_vars
  <2> SUFFICES ASSUME IInv, [Next]_vars, sock' = sock, peer \in Children
               PROVE  peer' = peer
    OBVIOUS
  <2>1. CASE FileAck
    <3>1. peer' = Head(ackCh).from /\ 1 \in DOMAIN ackCh /\ Head(ackCh) = ackCh[1]
      BY <2>1, Typed, Taken DEF FileAck
    <3>2. Known(peer)
      BY DEF Known
    <3> QED BY <3>1, <3>2, Answering DEF IInv, OneProcess
  <2>2. CASE Connect
    <3>1. sock \in Nat /\ sock' = sock + 1
      BY <2>2, Typed DEF Connect, udpClientSetup
    <3> QED BY <3>1
  <2>3. CASE HostNotFound \/ SendFilename \/ NoFileAck \/ GiveUp \/ CopyBlock \/ EndCopy
    BY <2>3 DEF HostNotFound, SendFilename, NoFileAck, GiveUp, CopyBlock, EndCopy
  <2>4. CASE ServerNext \/ \E c \in Children : ChildNext(c)
    BY <2>4
       DEF ServerNext, Accept, ForkFails, HandleZombie, ChildNext, OpenFile, Filename, RecvName,
           ChildEnds, rcopyVars
  <2>5. CASE UNCHANGED vars
    BY <2>5 DEF vars, rcopyVars
  <2> QED BY <2>1, <2>2, <2>3, <2>4, <2>5 DEF Next, RcopyNext
<1> QED BY <1>1, SessionInvariance, PTL DEF Spec, PeerKept

(* No child that has ended waits for another SIGCHLD than the one that is   *)
(* pending: handleZombie waits for all of them.                             *)
THEOREM NoZombieStays == Spec => []NoZombieLeft
<1>1. Init => NoZombieLeft
  BY DEF Init, NoZombieLeft
<1>2. NoZombieLeft /\ [Next]_vars => NoZombieLeft'
  <2> SUFFICES ASSUME NoZombieLeft, [Next]_vars PROVE NoZombieLeft'
    OBVIOUS
  <2>1. \/ UNCHANGED serverVars
        \/ sigchld' = TRUE
        \/ zombies' = 0
    BY DEF Next, RcopyNext, Connect, HostNotFound, SendFilename, FileAck, NoFileAck, GiveUp,
           CopyBlock, EndCopy, ServerNext, Accept, ForkFails, HandleZombie, ChildNext, OpenFile,
           Filename, RecvName, ChildEnds, ChildExits, vars
  <2> QED BY <2>1 DEF NoZombieLeft, serverVars
<1> QED BY <1>1, <1>2, PTL DEF Spec

-----------------------------------------------------------------------------
(* Session implements FileSession. *)

(* What a process was asked for does not change.                            *)
LEMMA DamageKept ==
  ASSUME IInv, [Next]_vars, NEW c \in Children, child[c].state # "NONE"
  PROVE  child'[c].damaged = child[c].damaged
<1> USE Typed
<1>1. CASE child' = child
  BY <1>1
<1>2. CASE CopyBlock
  BY <1>2 DEF CopyBlock, Child
<1>3. CASE Accept
  BY <1>3 DEF Accept
<1>4. ASSUME NEW d \in Children, child' = [child EXCEPT ![d] = Ended(d)]
      PROVE  child'[c].damaged = child[c].damaged
  BY <1>4, EndedChild
<1>5. ASSUME NEW d \in Children, OpenFile(d)
      PROVE  child'[c].damaged = child[c].damaged
  <2>1. ASSUME NEW f, child' = [child EXCEPT ![d].state = "FILENAME", ![d].file = f]
        PROVE  child'[c].damaged = child[c].damaged
    BY <2>1 DEF Child
  <2> QED BY <1>4, <1>5, <2>1 DEF OpenFile
<1>6. ASSUME NEW d \in Children, Filename(d)
      PROVE  child'[c].damaged = child[c].damaged
  <2>1. ASSUME child' = [child EXCEPT ![d].state = "RECV_DATA"]
        PROVE  child'[c].damaged = child[c].damaged
    BY <2>1 DEF Child
  <2> QED BY <1>4, <1>6, <2>1 DEF Filename
<1>7. ASSUME NEW d \in Children, RecvName(d)
      PROVE  child'[c].damaged = child[c].damaged
  <2>1. ASSUME NEW s, NEW q, child' = [child EXCEPT ![d].client = s, ![d].seq = q]
        PROVE  child'[c].damaged = child[c].damaged
    BY <2>1 DEF Child
  <2> QED BY <1>7, <2>1 DEF RecvName
<1>8. ASSUME NEW d \in Children, ChildEnds(d)
      PROVE  child'[c].damaged = child[c].damaged
  BY <1>4, <1>8 DEF ChildEnds
<1>9. \/ child' = child \/ CopyBlock \/ Accept
      \/ \E d \in Children : OpenFile(d) \/ Filename(d) \/ RecvName(d) \/ ChildEnds(d)
  BY DEF Next, RcopyNext, ServerNext, ChildNext, vars, Connect, HostNotFound, SendFilename,
         FileAck, NoFileAck, GiveUp, EndCopy, ForkFails, HandleZombie
<1> QED BY <1>1, <1>2, <1>3, <1>5, <1>6, <1>7, <1>8, <1>9

(* While rcopy is copying, and after success, no process but the one that   *)
(* it sends to would write to the file, nor would that one but for a block. *)
LEMMA FileLeftAlone ==
  ASSUME IInv, Copying, ~late, ServerNext \/ \E c \in Children : ChildNext(c)
  PROVE  disk' = disk
<1>1. Known(peer) /\ peer \in Children /\ inbox[peer] = <<>>
  BY DEF IInv, CopyInv, Known
<1>2. ASSUME NEW c \in Children, OpenFile(c) \/ RecvName(c)
      PROVE  FALSE
  <2>1. /\ child[c].state \in {"FORKED", "RECV_DATA"}
        /\ child[c].state = "RECV_DATA" => inbox[c] # <<>>
    BY <1>2 DEF OpenFile, RecvName
  <2>2. Live(c)
    BY <2>1 DEF Live
  <2>3. child[c].client = sock
    BY <2>1, <2>2 DEF IInv, FileInv
  <2>4. c = peer
    BY <1>1, <2>2, <2>3 DEF Serves, IInv, OneProcess
  <2>5. child[c].state = "RECV_DATA"
    BY <1>1, <2>1, <2>4 DEF IInv, ProcessInv
  <2> QED BY <1>1, <2>1, <2>4, <2>5
<1> QED BY <1>2 DEF ServerNext, ChildNext, Accept, ForkFails, HandleZombie, Filename, ChildEnds, fileVars

(* A copy that is to be trusted holds what has been sent.                   *)
LEMMA TrustedCopy ==
  ASSUME IInv, cstate = "SEND_DATA", Trusted
  PROVE  /\ disk = [i \in 1 .. sent |-> i - 1]
         /\ child[peer].state = "RECV_DATA" => child[peer].file = "COPY"
<1>1. Copying /\ ~late /\ peer \in Children /\ ~child[peer].damaged /\ Known(peer)
  BY DEF Copying, Trusted, IInv, CopyInv, Known
<1>2. disk = [i \in 1 .. sent |-> i - 1]
  BY <1>1 DEF IInv, FileInv
<1>3. child[peer].state = "RECV_DATA" => child[peer].file = "COPY"
  BY <1>1 DEF IInv, ProcessInv, Live
<1> QED BY <1>2, <1>3

(* The next block of the file is what CopyBlock appends.                    *)
LEMMA BlockAppended ==
  ASSUME NEW n \in Nat
  PROVE  /\ Len([i \in 1 .. n |-> i - 1]) = n
         /\ Append([i \in 1 .. n |-> i - 1], n) = [i \in 1 .. n + 1 |-> i - 1]
<1> DEFINE s == [i \in 1 .. n |-> i - 1]
           t == [i \in 1 .. n + 1 |-> i - 1]
<1>1. s \in Seq(Nat) /\ Len(s) = n /\ t \in Seq(Nat) /\ Len(t) = n + 1
  OBVIOUS
<1>2. \A i \in 1 .. n : s[i] = t[i]
  OBVIOUS
<1>3. t[n + 1] = n
  OBVIOUS
<1> HIDE DEF s, t
<1>4. /\ Append(s, n) \in Seq(Nat) /\ Len(Append(s, n)) = n + 1
      /\ \A i \in 1 .. n : Append(s, n)[i] = s[i]
      /\ Append(s, n)[n + 1] = n
  BY <1>1, AppendProperties
<1>5. \A i \in 1 .. n + 1 : Append(s, n)[i] = t[i]
  <2> TAKE i \in 1 .. n + 1
  <2>1. i \in 1 .. n \/ i = n + 1
    OBVIOUS
  <2> QED BY <1>2, <1>3, <1>4, <2>1
<1>6. Append(s, n) = t
  BY <1>1, <1>4, <1>5, SeqEqual
<1> QED BY <1>1, <1>6 DEF s, t

LEMMA TrustedIsBoolean == Trusted \in BOOLEAN /\ Trusted' \in BOOLEAN
  BY DEF Trusted

(* The steps of the server and its processes, as the user sees them.        *)
LEMMA ServerRefines ==
  ASSUME IInv, IInv', [Next]_vars, ServerNext \/ \E c \in Children : ChildNext(c)
  PROVE  [Promise!Next]_(Promise!vars)
<1>1. /\ UNCHANGED <<cstate, count, sock, peer, sent, copied>> /\ (late => late')
      /\ disk' # disk => late' = late
  <2>1. UNCHANGED rcopyVars
    BY DEF ServerNext, ChildNext, Accept, ForkFails, HandleZombie, OpenFile, Filename, RecvName,
           ChildEnds
  <2>2. ASSUME ServerNext PROVE late' = late /\ disk' = disk
    BY <2>2 DEF ServerNext, Accept, ForkFails, HandleZombie, fileVars
  <2>3. ASSUME NEW c \in Children, OpenFile(c) \/ Filename(c) \/ RecvName(c)
        PROVE  late' = late
    BY <2>3 DEF OpenFile, Filename, RecvName
  <2>4. ASSUME NEW c \in Children, ChildEnds(c)
        PROVE  (late => late') /\ disk' = disk
    BY <2>4 DEF ChildEnds, fileVars
  <2>5. (late => late') /\ (disk' # disk => late' = late)
    BY <2>2, <2>3, <2>4 DEF ChildNext
  <2> QED BY <2>1, <2>5 DEF rcopyVars
<1>2. Phase' = Phase /\ sock' = sock
  BY <1>1 DEF Phase
<1>3. cstate \in {"SEND_DATA", "DONE"} /\ peer \in Children
        => child'[peer].damaged = child[peer].damaged
  <2>1. peer \in Children => child[peer].state # "NONE"
    BY DEF IInv, ProcessInv, Known
  <2> QED BY <2>1, DamageKept
<1>4. (Trusted' => Trusted) /\ (late' = late => (Trusted' <=> Trusted))
  BY <1>1, <1>3 DEF Trusted
<1>5. CASE disk' = disk
  <2>1. CASE Trusted' = Trusted
    BY <1>2, <1>5, <2>1 DEF Promise!vars
  <2>2. CASE Trusted' = FALSE
    BY <1>2, <1>5, <2>2 DEF Promise!Distrust, Promise!Next
  <2> QED BY <1>4, <2>1, <2>2, TrustedIsBoolean
<1>6. CASE disk' # disk
  <2>1. late' = late /\ Trusted' = Trusted
    BY <1>1, <1>4, <1>6, TrustedIsBoolean
  <2>2. Phase \in {"asking", "failed"} \/ ~Trusted
    <3>1. ~Copying \/ late
      BY <1>6, FileLeftAlone
    <3>2. late => ~Trusted
      BY DEF Trusted
    <3>3. ~Copying => Phase \in {"asking", "failed"}
      BY DEF Copying, Phase
    <3> QED BY <3>1, <3>2, <3>3
  <2> QED BY <1>2, <2>1, <2>2 DEF Promise!Touch, Promise!Next
<1> QED BY <1>5, <1>6

(* The end of rcopy without a copy.                                         *)
LEMMA FailureRefines ==
  ASSUME cstate # "DONE", cstate' = "DONE", ~copied', late' = late, sock' = sock, disk' = disk,
         Trusted' => Trusted
  PROVE  Promise!Fail
<1>1. Phase \in {"asking", "copying"} /\ Phase' = "failed"
  BY DEF Phase
<1>2. Trusted' \in {Trusted, FALSE}
  BY TrustedIsBoolean
<1> QED BY <1>1, <1>2 DEF Promise!Fail

(* The steps of rcopy.                                                      *)
LEMMA RcopyRefines ==
  ASSUME IInv, IInv', [Next]_vars, RcopyNext
  PROVE  [Promise!Next]_(Promise!vars)
<1> USE Typed
<1>1. ASSUME Connect PROVE Promise!Ask
  <2>1. /\ cstate = "START" /\ cstate' = "FILENAME" /\ sock' = sock + 1 /\ ~(count > MaxCount)
        /\ late' = late /\ disk' = disk
    BY <1>1 DEF Connect, GivesUp, udpClientSetup, fileVars
  <2>2. sock = count
    BY <2>1 DEF IInv, AttemptInv
  <2>3. sock < MaxCount + 1
    BY <2>1, <2>2, Numbers
  <2>4. Phase = "asking" /\ Phase' = "asking" /\ Trusted' = Trusted
    BY <2>1 DEF Phase, Trusted
  <2> QED BY <2>1, <2>3, <2>4 DEF Promise!Ask
<1>2. ASSUME HostNotFound \/ GiveUp PROVE Promise!Fail
  <2>1. /\ cstate \in {"START", "FILENAME"} /\ cstate' = "DONE" /\ copied' = copied
        /\ late' = late /\ sock' = sock /\ disk' = disk
    BY <1>2 DEF HostNotFound, GiveUp, fileVars
  <2>2. ~copied
    BY <2>1 DEF IInv, AttemptInv
  <2>3. Trusted' => Trusted
    BY <2>1 DEF Trusted
  <2> QED BY <2>1, <2>2, <2>3, FailureRefines
<1>3. ASSUME SendFilename PROVE UNCHANGED Promise!vars
  <2>1. /\ cstate = "FILENAME" /\ cstate' = "AWAIT" /\ late' = late /\ sock' = sock /\ disk' = disk
    BY <1>3 DEF SendFilename, fileVars
  <2>2. Phase' = Phase /\ Trusted' = Trusted
    BY <2>1 DEF Phase, Trusted
  <2> QED BY <2>1, <2>2 DEF Promise!vars
<1>4. ASSUME NoFileAck PROVE Promise!Distrust \/ UNCHANGED Promise!vars
  <2>1. /\ cstate = "AWAIT" /\ cstate' = "START" /\ (late => late') /\ sock' = sock /\ disk' = disk
    BY <1>4 DEF NoFileAck, fileVars
  <2>2. Phase' = Phase
    BY <2>1 DEF Phase
  <2>3. Trusted' => Trusted
    BY <2>1 DEF Trusted
  <2>4. CASE Trusted' = FALSE
    BY <2>1, <2>2, <2>4 DEF Promise!Distrust
  <2>5. CASE Trusted' = Trusted
    BY <2>1, <2>2, <2>5 DEF Promise!vars
  <2> QED BY <2>3, <2>4, <2>5, TrustedIsBoolean
<1>5. ASSUME FileAck PROVE Promise!Begin \/ Promise!Fail \/ UNCHANGED Promise!vars
  <2> DEFINE a == ackCh[1]
  <2>1. /\ cstate = "AWAIT" /\ ackCh # <<>> /\ peer' = a.from
        /\ \/ cstate' = "SEND_DATA" /\ a.flag = "OK_FILENAME"
           \/ cstate' = "DONE"
           \/ cstate' = "FILENAME"
        /\ copied' = copied /\ late' = late /\ sock' = sock /\ disk' = disk /\ child' = child
    BY <1>5, Taken DEF FileAck, fileVars
  <2>2. 1 \in DOMAIN ackCh
    BY <2>1, Taken
  <2>3. sock > 0 /\ ~copied
    BY <2>1 DEF IInv, AttemptInv
  <2>4. Trusted' => Trusted
    BY <2>1 DEF Trusted
  <2>5. ASSUME cstate' = "SEND_DATA", a.flag = "OK_FILENAME"
        PROVE  Promise!Begin
    <3>1. a.from \in Children
      BY <2>2, Answering
    <3>2. Trusted' => ~late /\ ~child[a.from].damaged
      BY <2>1, <2>5, <3>1 DEF Trusted
    <3>3. Trusted' => disk = <<>>
      BY <2>2, <2>5, <3>2 DEF IInv, FileInv
    <3>4. Phase = "asking" /\ Phase' = "copying"
      BY <2>1, <2>5 DEF Phase
    <3>5. Trusted' \in {Trusted, FALSE}
      BY <2>4, TrustedIsBoolean
    <3> QED BY <2>1, <2>3, <3>3, <3>4, <3>5 DEF Promise!Begin
  <2>6. CASE cstate' = "DONE"
    BY <2>1, <2>3, <2>4, <2>6, FailureRefines
  <2>7. CASE cstate' = "FILENAME"
    <3>1. Phase' = Phase /\ Trusted' = Trusted
      BY <2>1, <2>7 DEF Phase, Trusted
    <3> QED BY <2>1, <3>1 DEF Promise!vars
  <2> QED BY <2>1, <2>5, <2>6, <2>7
<1>6. ASSUME CopyBlock PROVE Promise!CopyNext \/ Promise!Touch
  <2>1. /\ cstate = "SEND_DATA" /\ cstate' = cstate /\ sent < Blocks
        /\ child[peer].state = "RECV_DATA"
        /\ disk' = IF child[peer].file = "COPY" THEN WriteAt(disk, sent, sent) ELSE disk
        /\ UNCHANGED <<sock, peer, copied, late>>
    BY <1>6 DEF CopyBlock
  <2>2. Phase = "copying" /\ Phase' = Phase
    BY <2>1 DEF Phase
  <2>3. Trusted' = Trusted
    <3>1. peer \in Children => child'[peer].damaged = child[peer].damaged
      BY <2>1, DamageKept
    <3> QED BY <2>1, <3>1 DEF Trusted
  <2>4. CASE ~Trusted
    BY <2>1, <2>2, <2>3, <2>4 DEF Promise!Touch
  <2>5. CASE Trusted
    <3>1. disk = [i \in 1 .. sent |-> i - 1] /\ child[peer].file = "COPY"
      BY <2>1, <2>5, TrustedCopy
    <3>2. disk' = Append(disk, sent) /\ Len(disk) = sent
      BY <2>1, <3>1, NextBlock, BlockAppended
    <3>3. /\ Len([i \in 1 .. Blocks |-> i - 1]) = Blocks
          /\ [i \in 1 .. Blocks |-> i - 1][sent + 1] = sent
      BY <2>1, Numbers, BlockAppended
    <3> QED BY <2>1, <2>2, <2>3, <2>5, <3>2, <3>3 DEF Promise!CopyNext
  <2> QED BY <2>4, <2>5
<1>7. ASSUME EndCopy PROVE Promise!Complete \/ Promise!Fail
  <2>1. /\ cstate = "SEND_DATA" /\ cstate' = "DONE" /\ copied' \in {FALSE, sent = Blocks}
        /\ UNCHANGED <<sock, peer, child, late, disk>>
    BY <1>7 DEF EndCopy, fileVars
  <2>2. Trusted' = Trusted
    BY <2>1 DEF Trusted
  <2>3. CASE copied'
    <3>1. sent = Blocks
      BY <2>1, <2>3
    <3>2. Trusted => disk = [i \in 1 .. Blocks |-> i - 1]
      BY <2>1, <3>1, TrustedCopy
    <3>3. Phase = "copying" /\ Phase' = "copied"
      BY <2>1, <2>3 DEF Phase
    <3> QED BY <2>1, <2>2, <3>2, <3>3 DEF Promise!Complete
  <2>4. CASE ~copied'
    BY <2>1, <2>2, <2>4, FailureRefines
  <2> QED BY <2>3, <2>4
<1> QED BY <1>1, <1>2, <1>3, <1>4, <1>5, <1>6, <1>7 DEF RcopyNext, Promise!Next

(* rcopy and the server's processes implement FileSession, for any number   *)
(* of blocks and attempts: from the first block on, nothing but the next    *)
(* one changes the file (CopyBlock), and after success nothing at all.      *)
THEOREM SessionRefinement == Spec => KeepsPromise
<1>1. Init => Promise!Init
  <2> SUFFICES ASSUME Init PROVE Promise!Init
    OBVIOUS
  <2>1. Phase = "asking" /\ sock = 0
    BY DEF Init, Phase
  <2>2. Trusted = TRUE
    BY DEF Init, Trusted
  <2> QED BY <2>1, <2>2 DEF Promise!Init
<1>2. IInv /\ IInv' /\ [Next]_vars => [Promise!Next]_(Promise!vars)
  <2> SUFFICES ASSUME IInv, IInv', [Next]_vars
               PROVE  [Promise!Next]_(Promise!vars)
    OBVIOUS
  <2>1. CASE UNCHANGED vars
    BY <2>1 DEF vars, rcopyVars, fileVars, Promise!vars, Phase, Trusted
  <2> QED BY <2>1, ServerRefines, RcopyRefines DEF Next
<1> QED BY <1>1, <1>2, SessionInvariance, PTL DEF Spec, KeepsPromise, Promise!Spec

-----------------------------------------------------------------------------
(* The damage a request arrives with is the only one a process can have. *)

\* No request is damaged, neither in the server's socket nor accepted.
Undamaged ==
  /\ \A i \in DOMAIN serverCh : ~serverCh[i].damaged
  /\ \A c \in Children : ~child[c].damaged

(* An empty socket has no datagram.                                         *)
LEMMA NoDatagram == \A i : i \notin DOMAIN <<>>
<1>1. <<>> \in Seq(Request) /\ Len(<<>>) = 0
  BY EmptySeq
<1>2. DOMAIN <<>> = 1 .. 0
  BY <1>1, LenProperties
<1> QED BY <1>2

(* The socket of an attempt is not 0, the value before the first.            *)
LEMMA NextIsNotFirst == \A n \in Nat : n + 1 # 0
  OBVIOUS

(* An undamaged socket stays so without a flipped request.                  *)
LEMMA SocketUndamaged ==
  ASSUME "flip request" \notin Faults, IInv, Undamaged, [Next]_vars, NEW i \in DOMAIN serverCh'
  PROVE  ~serverCh'[i].damaged
<1> USE Typed
<1>1. CASE serverCh' = serverCh
  BY <1>1 DEF Undamaged
<1>2. CASE SendFilename
  <2>1. PICK r \in RequestsSent : serverCh' = serverCh \/ serverCh' = serverCh \o r
    BY <1>2 DEF SendFilename
  <2> DEFINE asked == [sock |-> sock, damaged |-> FALSE, ok |-> TRUE]
  <2>2. r = <<asked>> \/ r = <<>>
    BY DEF RequestsSent
  <2>3. sock \in Sockets
    <3>1. cstate = "FILENAME"
      BY <1>2 DEF SendFilename
    <3>2. sock = count + 1
      BY <3>1 DEF IInv, AttemptInv
    <3>3. sock # 0
      BY <3>2, NextIsNotFirst, Zenon
    <3> QED BY <3>3
  <2>4. asked \in Request /\ ~asked.damaged
    BY <2>3 DEF Request
  <2> HIDE DEF asked
  <2>5. CASE r = <<asked>> /\ serverCh' = serverCh \o r
    <3>1. serverCh' = Append(serverCh, asked)
      BY <2>4, <2>5, AppendIsConcat
    <3> QED BY <2>4, <3>1, Given DEF Undamaged
  <2>6. CASE r = <<>> /\ serverCh' = serverCh \o r
    BY <1>1, <2>6, ConcatEmptySeq
  <2> QED BY <1>1, <2>1, <2>2, <2>5, <2>6
<1>3. CASE serverCh # <<>> /\ serverCh' = Tail(serverCh)
  BY <1>3, Taken DEF Undamaged
<1>4. serverCh' # <<>>
  BY NoDatagram
<1>5. \/ serverCh' = serverCh \/ SendFilename \/ serverCh' = <<>>
      \/ serverCh # <<>> /\ serverCh' = Tail(serverCh)
  BY DEF Next, RcopyNext, Connect, HostNotFound, FileAck, NoFileAck, GiveUp, CopyBlock, EndCopy,
         ServerNext, Accept, ForkFails, HandleZombie, ChildNext, OpenFile, Filename, RecvName,
         ChildEnds, vars
<1> QED BY <1>1, <1>2, <1>3, <1>4, <1>5

(* A process has only the damage of the request it was forked for.          *)
LEMMA ProcessUndamaged ==
  ASSUME IInv, Undamaged, [Next]_vars, NEW c \in Children
  PROVE  ~child'[c].damaged
<1> USE Typed
<1>1. CASE child[c].state # "NONE"
  BY <1>1, DamageKept DEF Undamaged
<1>2. CASE child'[c] = child[c]
  BY <1>2 DEF Undamaged
<1>3. CASE Accept /\ child[c].state = "NONE"
  <2>1. PICK d \in Children :
          child' = [child EXCEPT ![d] =
            [NoChild EXCEPT !.state = "FORKED", !.client = Head(serverCh).sock,
                            !.damaged = Head(serverCh).damaged]]
    BY <1>3 DEF Accept
  <2>2. ~Head(serverCh).damaged
    BY <1>3, Taken DEF Accept, Undamaged
  <2>3. CASE c = d
    BY <2>1, <2>2, <2>3 DEF NoChild
  <2>4. CASE c # d
    BY <1>2, <2>1, <2>4
  <2> QED BY <2>3, <2>4
<1>4. ASSUME CopyBlock, child[c].state = "NONE"
      PROVE  child'[c] = child[c]
  BY <1>4 DEF CopyBlock
<1>5. ASSUME NEW d \in Children, ChildNext(d), child[c].state = "NONE"
      PROVE  child'[c] = child[c]
  <2>1. child[d].state # "NONE"
    BY <1>5 DEF ChildNext, OpenFile, Filename, RecvName, ChildEnds
  <2> QED BY <1>5, <2>1 DEF ChildNext, OpenFile, Filename, RecvName, ChildEnds
<1>6. \/ child' = child \/ CopyBlock \/ Accept \/ \E d \in Children : ChildNext(d)
  BY DEF Next, RcopyNext, ServerNext, vars, Connect, HostNotFound, SendFilename,
         FileAck, NoFileAck, GiveUp, EndCopy, ForkFails, HandleZombie
<1> QED BY <1>1, <1>2, <1>3, <1>4, <1>5, <1>6

(* What process_server omits to check matters to corrupted requests alone:  *)
(* without one rcopy is served by a process that has the name and the       *)
(* window size it sent, whatever else is lost, late or corrupted.           *)
THEOREM OnlyFlipsMislead ==
  ASSUME "flip request" \notin Faults
  PROVE  Spec => []ServedAsAsked
<1>1. Init => Undamaged
  <2> SUFFICES ASSUME Init PROVE Undamaged
    OBVIOUS
  <2>1. serverCh = <<>> /\ \A c \in Children : child[c] = NoChild
    BY DEF Init
  <2>2. ~NoChild.damaged
    BY DEF NoChild
  <2> QED BY <2>1, <2>2, NoDatagram DEF Undamaged
<1>2. IInv /\ Undamaged /\ [Next]_vars => Undamaged'
  BY SocketUndamaged, ProcessUndamaged DEF Undamaged
<1>3. IInv /\ Undamaged => ServedAsAsked
  BY DEF IInv, CopyInv, Copying, Undamaged, ServedAsAsked
<1> QED BY <1>1, <1>2, <1>3, SessionInvariance, PTL DEF Spec
==============================================================================
