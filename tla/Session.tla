------------------------------- MODULE Session -------------------------------
(***************************************************************************)
(* How a copy starts and what its attempts leave behind: rcopy in START    *)
(* and FILENAME (rcopy.c), the server that forks a process for every       *)
(* datagram it receives, and those processes up to RECV_DATA (server.c).   *)
(* All of them open, and truncate, the same file.                          *)
(*                                                                         *)
(* The data phase is reduced to what module Transfer shows of it: blocks   *)
(* reach the file in order, success is reported over all of them, and      *)
(* either side may leave.  StartsClean is the condition under which that   *)
(* is what happens.                                                        *)
(*                                                                         *)
(* Datagrams keep their order and are not duplicated, as on the loopback   *)
(* interface.                                                              *)
(***************************************************************************)
EXTENDS Naturals, Sequences, FiniteSets

CONSTANTS
  Blocks,     \* blocks of the file being copied
  MaxCount,   \* timeouts survived: the 9 of "count > 9"
  Faults      \* what sendtoErr does: drops, and which packets it corrupts;
              \* "no host": names may not be resolved; "no fork": fork may fail

ASSUME SessionAssumption ==
  /\ Blocks \in Nat
  /\ MaxCount \in Nat
  /\ Faults \subseteq {"drop", "flip request", "flip answer", "no host", "no fork"}

(* One process for every attempt, and one socket of rcopy's.               *)
Children == 1 .. MaxCount + 1
Sockets  == 1 .. MaxCount + 1

Server == 0     \* the address of the server's first process

(* A SEND_FILE packet, and the socket it came from.  Inverting a byte of   *)
(* it damages the name, its length or the window size, or nothing that the *)
(* server looks at; in any case its checksum fails.                        *)
Request == [sock : Sockets, damaged : BOOLEAN, ok : BOOLEAN]

(* An answer and the process it came from.  rcopy tests the flag alone.    *)
Answer == [from : Children, flag : {"OK_FILENAME", "BAD_FILENAME", "RR", "GARBLED"}]

(* What a block of the copy may hold: block n of the file, the data of a   *)
(* SEND_FILE packet, a hole, or what was in the file before.               *)
NameData == Blocks
Hole     == Blocks + 1
OldData  == Blocks + 2
Disk     == Seq(0 .. Blocks + 2)

VARIABLES
  cstate,   \* rcopy: START, FILENAME, AWAIT (in pollCall), SEND_DATA, DONE
  count,    \* rcopy: timeouts so far
  sock,     \* rcopy: its socket, 0 before the first
  peer,     \* rcopy: server->remote, whom it sends to
  sent,     \* rcopy: blocks acknowledged
  copied,   \* rcopy: did it end over a complete copy?
  ackCh,    \* the answers in rcopy's socket
  serverCh, \* the datagrams in the server's socket
  child,    \* the server processes
  inbox,    \* the SEND_FILE packets in their sockets
  server,   \* the server's first process: LISTENING, DOWN
  zombies,  \* its children that have ended and that it has not waited for
  sigchld,  \* is a SIGCHLD pending?  More of them are one
  openable, \* can the file be opened for writing?
  disk,     \* the file being written
  late      \* history: has a wait ended before what it was for?

rcopyVars == <<cstate, count, sock, peer, sent, copied>>
serverVars == <<server, zombies, sigchld>>
fileVars  == <<openable, disk>>
vars == <<rcopyVars, ackCh, serverCh, child, inbox, serverVars, fileVars, late>>

NoChild == [state |-> "NONE", client |-> 1, damaged |-> FALSE, file |-> "NONE", seq |-> 0]

Child == [state : {"NONE", "FORKED", "FILENAME", "RECV_DATA", "DONE"},
          client : Sockets,    \* client->remote
          damaged : BOOLEAN,   \* was what it was asked for?
          file : {"NONE", "COPY", "OTHER"},  \* NULL, the copy, another file
          seq : Nat]           \* seq_num, the blocks it has written

TypeOK ==
  /\ cstate \in {"START", "FILENAME", "AWAIT", "SEND_DATA", "DONE"}
  /\ count \in 0 .. MaxCount + 1
  /\ sock \in {0} \union Sockets
  /\ peer \in {Server} \union Children
  /\ sent \in 0 .. Blocks
  /\ copied \in BOOLEAN
  /\ ackCh \in Seq(Answer)
  /\ serverCh \in Seq(Request)
  /\ child \in [Children -> Child]
  /\ inbox \in [Children -> Seq(Request)]
  /\ server \in {"LISTENING", "DOWN"}
  /\ zombies \in 0 .. MaxCount + 1
  /\ sigchld \in BOOLEAN
  /\ openable \in BOOLEAN
  /\ disk \in Disk
  /\ late \in BOOLEAN

Init ==
  /\ cstate = "START"
  /\ count = 0
  /\ sock = 0
  /\ peer = Server
  /\ sent = 0
  /\ copied = FALSE
  /\ ackCh = <<>>
  /\ serverCh = <<>>
  /\ child = [c \in Children |-> NoChild]
  /\ inbox = [c \in Children |-> <<>>]
  /\ server = "LISTENING"
  /\ zombies = 0
  /\ sigchld = FALSE
  /\ openable \in BOOLEAN
  /\ disk \in {<<>>} \union (IF openable THEN {[i \in 1 .. Blocks + 1 |-> OldData]} ELSE {})
  /\ late = FALSE

-----------------------------------------------------------------------------
(* rcopy *)

\* Variant: one attempt more.
GivesUpLater == count > MaxCount + 1

GivesUp == count > MaxCount

\* A new socket, aimed at the server.
udpClientSetup == sock' = sock + 1 /\ peer' = Server

(* connect_server: close the socket and take a new one.                    *)
Connect ==
  /\ cstate = "START" /\ ~GivesUp
  /\ udpClientSetup
  /\ ackCh' = <<>>
  /\ cstate' = "FILENAME"
  /\ UNCHANGED <<count, sent, copied, serverCh, child, inbox, serverVars, fileVars, late>>

(* gethostbyname6 finds no address: udpClientSetup exits the program.      *)
HostNotFound ==
  /\ cstate = "START" /\ ~GivesUp
  /\ "no host" \in Faults
  /\ cstate' = "DONE"
  /\ UNCHANGED <<count, sock, peer, sent, copied, ackCh, serverCh, child, inbox, serverVars, fileVars, late>>

(* The request as sendtoErr passes it on.                                  *)
RequestsSent ==
  LET asked == [sock |-> sock, damaged |-> FALSE, ok |-> TRUE] IN
  {<<asked>>}
    \union (IF "drop" \in Faults THEN {<<>>} ELSE {})
    \union (IF "flip request" \in Faults
            THEN { <<[asked EXCEPT !.damaged = d, !.ok = FALSE]>> : d \in BOOLEAN }
            ELSE {})

(* send_filename sends the name to wherever the last datagram came from.   *)
(* A process that has exited, the server's first too, receives nothing.    *)
SendFilename ==
  /\ cstate = "FILENAME" /\ ~GivesUp
  /\ \E r \in RequestsSent :
       IF peer = Server
       THEN /\ serverCh' = IF server = "DOWN" THEN serverCh ELSE serverCh \o r
            /\ UNCHANGED inbox
       ELSE /\ inbox' = IF child[peer].state = "DONE" THEN inbox
                        ELSE [inbox EXCEPT ![peer] = @ \o r]
            /\ UNCHANGED serverCh
  /\ cstate' = "AWAIT"
  /\ UNCHANGED <<count, sock, peer, sent, copied, ackCh, child, serverVars, fileVars, late>>

(* send_filename receives something: CsafeRecvfrom notes the sender, the   *)
(* flag decides, the checksum is not looked at.                            *)
FileAck ==
  /\ cstate = "AWAIT" /\ ackCh # <<>>
  /\ LET a == Head(ackCh) IN
       /\ peer' = a.from
       /\ cstate' = CASE a.flag = "OK_FILENAME"  -> "SEND_DATA"
                      [] a.flag = "BAD_FILENAME" -> "DONE"
                      [] OTHER -> "FILENAME"
  /\ ackCh' = Tail(ackCh)
  /\ UNCHANGED <<count, sock, sent, copied, serverCh, child, inbox, serverVars, fileVars, late>>

(* Nothing is on its way to rcopy or makes an answer to it.                *)
Quiet ==
  /\ serverCh = <<>> /\ ackCh = <<>>
  /\ \A c \in Children :
       child[c].state \notin {"FORKED", "FILENAME"} /\ inbox[c] = <<>>

\* Variant: the name is sent again from the same socket.
RetrySameSocket ==
  /\ cstate = "AWAIT" /\ ackCh = <<>>
  /\ late' = (late \/ ~Quiet)
  /\ count' = count + 1
  /\ cstate' = "FILENAME"
  /\ UNCHANGED <<sock, peer, sent, copied, ackCh, serverCh, child, inbox, serverVars, fileVars>>

(* send_filename receives nothing for a second.                            *)
NoFileAck ==
  /\ cstate = "AWAIT" /\ ackCh = <<>>
  /\ late' = (late \/ ~Quiet)
  /\ count' = count + 1
  /\ cstate' = "START"
  /\ UNCHANGED <<sock, peer, sent, copied, ackCh, serverCh, child, inbox, serverVars, fileVars>>

(* processFile: "count > 9" ends the program.                              *)
GiveUp ==
  /\ cstate \in {"START", "FILENAME"} /\ GivesUp
  /\ cstate' = "DONE"
  /\ UNCHANGED <<count, sock, peer, sent, copied, ackCh, serverCh, child, inbox, serverVars, fileVars, late>>

-----------------------------------------------------------------------------
(* The data phase, as Transfer has it *)

\* Writing x as block number n of the file; what is skipped is a hole.
WriteAt(d, n, x) ==
  [i \in 1 .. (IF n < Len(d) THEN Len(d) ELSE n + 1) |->
     IF i = n + 1 THEN x ELSE IF i <= Len(d) THEN d[i] ELSE Hole]

(* The next block passes from rcopy to the process it sends to, which      *)
(* writes it and acknowledges it.                                          *)
CopyBlock ==
  /\ cstate = "SEND_DATA" /\ sent < Blocks
  /\ child[peer].state = "RECV_DATA" /\ child[peer].seq = sent
  /\ disk' = IF child[peer].file = "COPY" THEN WriteAt(disk, sent, sent) ELSE disk
  /\ child' = [child EXCEPT ![peer].seq = sent + 1]
  /\ sent' = sent + 1
  /\ UNCHANGED <<cstate, count, sock, peer, copied, ackCh, serverCh, inbox, serverVars, openable, late>>

(* rcopy reports success over a complete copy, or abandons it.             *)
EndCopy ==
  /\ cstate = "SEND_DATA"
  /\ copied' \in {FALSE, sent = Blocks}
  /\ cstate' = "DONE"
  /\ UNCHANGED <<count, sock, peer, sent, ackCh, serverCh, child, inbox, serverVars, fileVars, late>>

-----------------------------------------------------------------------------
(* The server and its processes *)

(* process_server: fork a process for whatever arrives.  A pending signal  *)
(* is handled first.                                                       *)
Accept ==
  /\ server = "LISTENING" /\ serverCh # <<>> /\ ~sigchld
  /\ \E c \in Children :
       /\ child[c].state = "NONE"
       /\ \A d \in 1 .. c - 1 : child[d].state # "NONE"
       /\ child' = [child EXCEPT ![c] =
            [NoChild EXCEPT !.state = "FORKED", !.client = Head(serverCh).sock,
                            !.damaged = Head(serverCh).damaged]]
  /\ serverCh' = Tail(serverCh)
  /\ UNCHANGED <<rcopyVars, ackCh, inbox, serverVars, fileVars, late>>

(* fork fails: the server's first process exits.  Whoever adopts its       *)
(* children waits for them.                                                *)
ForkFails ==
  /\ server = "LISTENING" /\ serverCh # <<>> /\ ~sigchld
  /\ "no fork" \in Faults
  /\ server' = "DOWN"
  /\ serverCh' = <<>>
  /\ zombies' = 0
  /\ sigchld' = FALSE
  /\ UNCHANGED <<rcopyVars, ackCh, child, inbox, fileVars, late>>

\* A process exits.
ChildExits ==
  IF server = "LISTENING"
  THEN zombies' = zombies + 1 /\ sigchld' = TRUE /\ UNCHANGED server
  ELSE UNCHANGED serverVars

\* Variant: one child is waited for at each signal.
HandleOneZombie ==
  /\ sigchld
  /\ sigchld' = FALSE
  /\ zombies' = zombies - 1
  /\ UNCHANGED <<rcopyVars, ackCh, serverCh, child, inbox, server, fileVars, late>>

(* handleZombie: wait for every child that has ended; recvfrom goes on.    *)
HandleZombie ==
  /\ sigchld
  /\ sigchld' = FALSE
  /\ zombies' = 0
  /\ UNCHANGED <<rcopyVars, ackCh, serverCh, child, inbox, server, fileVars, late>>

\* Of a process that has exited only what it was asked for is remembered.
Ended(c) == [NoChild EXCEPT !.state = "DONE", !.damaged = child[c].damaged]

(* What open_file may open: the copy, another file when the name is        *)
(* damaged, or nothing.                                                    *)
Opened(c) ==
  IF child[c].damaged
  THEN {"NONE", "OTHER"} \union (IF openable THEN {"COPY"} ELSE {})
  ELSE {IF openable THEN "COPY" ELSE "NONE"}

\* Variant: the file is opened without truncating it.
OpenFileKeeping(c) ==
  /\ child[c].state = "FORKED"
  /\ \E f \in Opened(c) :
       child' = [child EXCEPT ![c].state = "FILENAME", ![c].file = f]
  /\ UNCHANGED <<rcopyVars, ackCh, serverCh, inbox, serverVars, fileVars, late>>

(* process_client: init_window and open_file.  A damaged name length or    *)
(* window size may end the process (too long a name, no memory).           *)
OpenFile(c) ==
  /\ child[c].state = "FORKED"
  /\ \/ \E f \in Opened(c) :
            /\ child' = [child EXCEPT ![c].state = "FILENAME", ![c].file = f]
            /\ disk' = IF f = "COPY" THEN <<>> ELSE disk
            /\ UNCHANGED serverVars
     \/ /\ child[c].damaged
        /\ child' = [child EXCEPT ![c] = Ended(c)]
        /\ ChildExits
        /\ UNCHANGED disk
  /\ UNCHANGED <<rcopyVars, ackCh, serverCh, inbox, openable, late>>

(* An answer of process c, through sendtoErr, to the socket s; it is lost  *)
(* when rcopy has closed that socket.                                      *)
SendAnswer(c, s, f) ==
  \/ ackCh' = IF s = sock /\ cstate # "DONE"
              THEN Append(ackCh, [from |-> c, flag |-> f]) ELSE ackCh
  \/ "drop" \in Faults /\ ackCh' = ackCh
  \/ /\ "flip answer" \in Faults
     /\ ackCh' = IF s = sock /\ cstate # "DONE"
                 THEN Append(ackCh, [from |-> c, flag |-> "GARBLED"]) ELSE ackCh

(* filename: answer from a socket of the process's own.                    *)
Filename(c) ==
  /\ child[c].state = "FILENAME"
  /\ IF child[c].file # "NONE"
     THEN /\ SendAnswer(c, child[c].client, "OK_FILENAME")
          /\ child' = [child EXCEPT ![c].state = "RECV_DATA"]
          /\ UNCHANGED serverVars
     ELSE /\ SendAnswer(c, child[c].client, "BAD_FILENAME")
          /\ child' = [child EXCEPT ![c] = Ended(c)]
          /\ ChildExits
  /\ UNCHANGED <<rcopyVars, serverCh, inbox, fileVars, late>>

(* recv_data does not look at the flag of an intact packet: a SEND_FILE    *)
(* packet, whose number is 0, is written as block 0 or acknowledged as a   *)
(* duplicate of it.                                                        *)
RecvName(c) ==
  /\ child[c].state = "RECV_DATA" /\ inbox[c] # <<>>
  /\ LET r == Head(inbox[c])
         first == r.ok /\ child[c].seq = 0 IN
       /\ child' = [child EXCEPT ![c].client = r.sock,
                                 ![c].seq = IF first THEN 1 ELSE @]
       /\ disk' = IF first /\ child[c].file = "COPY" THEN WriteAt(disk, 0, NameData) ELSE disk
       /\ IF r.ok THEN SendAnswer(c, r.sock, "RR") ELSE UNCHANGED ackCh
  /\ inbox' = [inbox EXCEPT ![c] = Tail(@)]
  /\ UNCHANGED <<rcopyVars, serverCh, serverVars, openable, late>>

(* recv_data ends with the EOF packet or after ten silent seconds.         *)
ChildEnds(c) ==
  /\ child[c].state = "RECV_DATA"
  /\ late' = (late \/ inbox[c] # <<>> \/ (peer = c /\ cstate \notin {"START", "DONE"}))
  /\ child' = [child EXCEPT ![c] = Ended(c)]
  /\ inbox' = [inbox EXCEPT ![c] = <<>>]
  /\ ChildExits
  /\ UNCHANGED <<rcopyVars, ackCh, serverCh, fileVars>>

-----------------------------------------------------------------------------
RcopyNext ==
  \/ Connect \/ HostNotFound \/ SendFilename \/ FileAck \/ NoFileAck \/ GiveUp
  \/ CopyBlock \/ EndCopy

ServerNext == Accept \/ ForkFails \/ HandleZombie

ChildNext(c) == OpenFile(c) \/ Filename(c) \/ RecvName(c) \/ ChildEnds(c)

\* rcopy has ended and the server, if it has not, waits for the next one.
AllEnded ==
  /\ cstate = "DONE" /\ serverCh = <<>> /\ zombies = 0
  /\ \A c \in Children : child[c].state \in {"NONE", "DONE"}

Next == RcopyNext \/ ServerNext \/ (\E c \in Children : ChildNext(c))

Spec == Init /\ [][Next]_vars

(* Both programs are scheduled, the server's processes at least together,  *)
(* and every wait with a timeout ends.                                     *)
FairSpec ==
  /\ Spec
  /\ WF_vars(RcopyNext)
  /\ WF_vars(ServerNext)
  /\ WF_vars(\E c \in Children : ChildNext(c))

-----------------------------------------------------------------------------
(* Where Transfer starts: when rcopy enters SEND_DATA it sends to a        *)
(* process with the file open that has written nothing and has nothing to  *)
(* read, and nothing else is on its way to rcopy.  Until then rcopy has    *)
(* retried, from other sockets, to processes that still live, and any      *)
(* answer may have been corrupted.                                         *)
StartsClean ==
  cstate = "SEND_DATA" =>
    /\ ackCh = <<>>
    /\ peer \in Children
    /\ inbox[peer] = <<>>
    /\ \/ child[peer].state = "DONE"
       \/ /\ child[peer].state = "RECV_DATA"
          /\ child[peer].file # "NONE"
          /\ child[peer].client = sock
          /\ child[peer].seq = sent

(* CsafeRecvfrom overwrites server->remote with whatever sender it sees,   *)
(* yet on one socket rcopy never changes from one process to another.      *)
PeerKept == [][sock' = sock /\ peer \in Children => peer' = peer]_vars

(* The attempts that failed leave no trace, unless a process or an answer  *)
(* took longer than a wait: a copy reported complete is the file, although *)
(* every attempt has a process with the same file open, and the name       *)
(* itself may have been written into it.  The process that made the copy   *)
(* must have been asked for it without damage.                             *)
CopyIntact ==
  copied /\ ~late /\ ~child[peer].damaged => disk = [i \in 1 .. Blocks |-> i - 1]

Phase ==
  CASE cstate = "SEND_DATA" -> "copying"
    [] cstate = "DONE"      -> IF copied THEN "copied" ELSE "failed"
    [] OTHER                -> "asking"

\* No wait has ended too early, and the process was asked for this file.
Trusted ==
  ~late /\ (cstate \in {"SEND_DATA", "DONE"} /\ peer \in Children => ~child[peer].damaged)

Promise ==
  INSTANCE FileSession WITH
    File <- [i \in 1 .. Blocks |-> i - 1], Attempts <- MaxCount + 1,
    phase <- Phase, attempts <- sock, out <- disk, trusted <- Trusted

(* rcopy and all the server processes that its attempts leave behind, each *)
(* of which opens and truncates the same file, together do what FileSession*)
(* promises: once the copying has begun only its next block changes the    *)
(* file, and nothing changes it after success.                             *)
KeepsPromise == Promise!Spec

\* An answer that send_filename does not take for one to its request.
Misread == \E i \in DOMAIN ackCh : ackCh[i].flag \in {"GARBLED", "RR"}

(* Whatever is lost or late, fails to be resolved or to be forked: rcopy   *)
(* ends, all processes forked for its attempts end, and none of them stays *)
(* behind as a zombie.  A file name that is not acknowledged is counted,   *)
(* unless answers that rcopy misreads never stop.                          *)
SessionEnds == <>[]~Misread => <>AllEnded

(* SIGCHLDs that arrive together are one signal, yet no child that has     *)
(* ended waits for another signal than the one that is pending.            *)
NoZombieLeft == zombies > 0 => sigchld

(* In the name phase alone, with any answers: "count > 9" ends the         *)
(* attempts.                                                               *)
NamePhaseEnds == <>(cstate \in {"SEND_DATA", "DONE"})

(* The server forks only for packets without a checksum error, so the      *)
(* process that serves rcopy has the name and window size rcopy sent.      *)
ServedAsAsked ==
  cstate = "SEND_DATA" => ~child[peer].damaged
=============================================================================
