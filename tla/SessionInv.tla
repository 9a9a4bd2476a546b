----------------------------- MODULE SessionInv ------------------------------
(***************************************************************************)
(* The inductive invariant behind the safety properties of Session: what   *)
(* one socket of rcopy's has to do with the one process that is forked for *)
(* it, and what the file holds while no wait has ended too early.          *)
(***************************************************************************)
EXTENDS Session

Live(c) == child[c].state \in {"FORKED", "FILENAME", "RECV_DATA"}

\* The process has been forked for a request from rcopy's present socket.
Serves(c) == Live(c) /\ child[c].client = sock

\* On that socket rcopy has heard of the process, or is about to.
Known(c) == peer = c \/ \E i \in DOMAIN ackCh : ackCh[i].from = c

\* The request from that socket has not been accepted.
Asking == \E i \in DOMAIN serverCh : serverCh[i].sock = sock

\* Every socket but the first follows a timeout.
AttemptInv ==
  /\ cstate = "START" => sock = count
  /\ cstate \in {"FILENAME", "AWAIT", "SEND_DATA"} => sock = count + 1 /\ count <= MaxCount
  /\ cstate \notin {"SEND_DATA", "DONE"} => sent = 0
  /\ copied => cstate = "DONE" /\ sent = Blocks

\* No more zombies than processes that have ended.
Gone == { c \in Children : child[c].state = "DONE" }

ZombieInv == zombies <= Cardinality(Gone)

ProcessInv ==
  \A c \in Children :
    /\ child[c].state = "FORKED" => child[c].file = "NONE"
    /\ child[c].state = "RECV_DATA" => child[c].file # "NONE"
    /\ inbox[c] # <<>> => child[c].state = "RECV_DATA"
    /\ \A i \in DOMAIN inbox[c] : inbox[c][i].sock = child[c].client
    /\ Live(c) => child[c].client <= sock
    /\ Known(c) => \/ child[c].state = "DONE"
                   \/ child[c].state = "RECV_DATA" /\ child[c].client = sock
    /\ Serves(c) /\ peer # c => inbox[c] = <<>> /\ child[c].seq = 0
    /\ Live(c) /\ child[c].state # "FORKED" /\ ~child[c].damaged
         => child[c].file = IF openable THEN "COPY" ELSE "NONE"

\* One socket, one request to the server, one process.
OneProcess ==
  /\ \A i \in DOMAIN serverCh : serverCh[i].sock <= sock
  /\ \A i, j \in DOMAIN serverCh :
       serverCh[i].sock = sock /\ serverCh[j].sock = sock => i = j
  /\ \A c, d \in Children :
       (Serves(c) \/ Known(c)) /\ (Serves(d) \/ Known(d)) => c = d
  /\ \A c \in Children : Serves(c) \/ Known(c) => ~Asking
  /\ cstate = "FILENAME" /\ peer = Server
       => ~Asking /\ \A c \in Children : ~Serves(c) /\ ~Known(c)

\* A process answers OK_FILENAME before anything else.
FirstAnswer ==
  \A i \in DOMAIN ackCh :
    ackCh[i].flag = "OK_FILENAME" => Len(ackCh) = 1 /\ peer = Server

Copying == cstate = "SEND_DATA" \/ copied

CopyInv ==
  Copying =>
    /\ cstate = "SEND_DATA" => ackCh = <<>>
    /\ peer \in Children
    /\ inbox[peer] = <<>>
    /\ \/ child[peer].state = "DONE"
       \/ child[peer].state = "RECV_DATA" /\ child[peer].seq = sent

\* Until a wait ends too early, nothing of an earlier attempt is under way,
\* and nobody but the process that serves rcopy touches the file.
FileInv ==
  ~late =>
    /\ \A i \in DOMAIN serverCh : serverCh[i].sock = sock
    /\ \A c \in Children :
         Live(c) /\ child[c].client # sock => child[c].state = "RECV_DATA" /\ inbox[c] = <<>>
    /\ cstate = "START" =>
         /\ serverCh = <<>>
         /\ \A c \in Children :
              child[c].state \notin {"FORKED", "FILENAME"} /\ inbox[c] = <<>>
    /\ \A c \in Children :
         Serves(c) /\ child[c].file = "COPY" /\ child[c].seq = 0 => disk = <<>>
    /\ \A i \in DOMAIN ackCh :
         ackCh[i].flag = "OK_FILENAME" /\ ~child[ackCh[i].from].damaged => disk = <<>>
    /\ Copying /\ ~child[peer].damaged => disk = [i \in 1 .. sent |-> i - 1]

(* At every point of a session: every attempt of rcopy's has a socket, at   *)
(* most one request and at most one process that process_server forks for   *)
(* it, and until a wait ends too early only that process touches the file.  *)
IInv ==
  /\ TypeOK
  /\ AttemptInv
  /\ ZombieInv
  /\ ProcessInv
  /\ OneProcess
  /\ FirstAnswer
  /\ CopyInv
  /\ FileInv
=============================================================================
