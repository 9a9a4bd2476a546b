------------------------------- MODULE PollSet -------------------------------
(***************************************************************************)
(* pollLib.c: the array of descriptors that pollCall hands to poll().  The *)
(* array is indexed by descriptor, starts with POLL_SET_SIZE entries and   *)
(* grows; an entry nobody uses has descriptor 0 and asks for no event.     *)
(*                                                                         *)
(* Around it, a program that opens files and sockets, adds and removes     *)
(* sockets, and replaces a socket without removing it, as connect_server   *)
(* of rcopy.c does.                                                        *)
(***************************************************************************)
EXTENDS Integers

CONSTANTS
  POLL_SET_SIZE,  \* 10 in pollLib.h
  LastFd          \* bound: the highest descriptor the program gets

ASSUME PollSetAssumption ==
  /\ POLL_SET_SIZE \in Nat \ {0}
  /\ LastFd \in Nat

Stdin   == 0
Timeout == -1      \* what pollCall returns when nothing is ready
NoCall  == -2      \* the last thing that happened is not a pollCall

Pollfd == [fd : Nat, events : BOOLEAN]     \* is events POLLIN?
Zeroed == [fd |-> 0, events |-> FALSE]

VARIABLES
  pollFileDescriptors,
  maxFileDescriptor,
  currentPollSetSize,
  screwedUp,    \* growPollSet's check has failed, the program has exited
  open,         \* the program's open descriptors
  added,        \* sockets added and not removed
  readable,     \* descriptors with something to read
  hungUp,       \* standard input has hung up
  result        \* what pollCall has just returned

libVars == <<pollFileDescriptors, maxFileDescriptor, currentPollSetSize, screwedUp>>
vars == <<libVars, open, added, readable, hungUp, result>>

(* setupPollSet; three descriptors are open.                               *)
Init ==
  /\ pollFileDescriptors = [i \in 0 .. POLL_SET_SIZE - 1 |-> Zeroed]
  /\ maxFileDescriptor = 0
  /\ currentPollSetSize = POLL_SET_SIZE
  /\ screwedUp = FALSE
  /\ open = 0 .. 2
  /\ added = {}
  /\ readable = {}
  /\ hungUp = FALSE
  /\ result = NoCall

-----------------------------------------------------------------------------
\* Variant: the new array is zeroed as a whole.
WithSocketOnly(s, oldSize, newSize) ==
  [i \in 0 .. newSize - 1 |->
     IF i = s THEN [fd |-> s, events |-> TRUE]
     ELSE IF i < oldSize /\ oldSize = newSize THEN pollFileDescriptors[i]
     ELSE Zeroed]

\* Variant: the new size is noted, but the array is not made larger.
WithSocketInPlace(s, oldSize, newSize) ==
  [i \in 0 .. oldSize - 1 |->
     IF i = s THEN [fd |-> s, events |-> TRUE] ELSE pollFileDescriptors[i]]

(* The array with its first oldSize entries kept, the others zeroed, and   *)
(* the entry of s set.                                                     *)
WithSocket(s, oldSize, newSize) ==
  [i \in 0 .. newSize - 1 |->
     IF i = s THEN [fd |-> s, events |-> TRUE]
     ELSE IF i < oldSize THEN pollFileDescriptors[i]
     ELSE Zeroed]

SizeFor(s) ==
  IF s >= currentPollSetSize THEN s + POLL_SET_SIZE ELSE currentPollSetSize

(* addToPollSet.  growPollSet ends the program when the new size is not    *)
(* greater than the old one.                                               *)
AddEntry(s) ==
  IF s >= currentPollSetSize /\ SizeFor(s) <= currentPollSetSize
  THEN /\ screwedUp' = TRUE
       /\ UNCHANGED <<pollFileDescriptors, maxFileDescriptor, currentPollSetSize>>
  ELSE /\ currentPollSetSize' = SizeFor(s)
       /\ maxFileDescriptor' =
            IF s + 1 >= maxFileDescriptor THEN s + 1 ELSE maxFileDescriptor
       /\ pollFileDescriptors' = WithSocket(s, currentPollSetSize, SizeFor(s))
       /\ UNCHANGED screwedUp

AddToPollSet(s) ==
  /\ ~screwedUp /\ s \in open /\ s > 2
  /\ AddEntry(s)
  /\ added' = added \union {s}
  /\ result' = NoCall
  /\ UNCHANGED <<open, readable, hungUp>>

\* Variant: the removed entry still asks for input.
RemoveDescriptorOnly(s) ==
  /\ ~screwedUp /\ s \in added
  /\ pollFileDescriptors' = [pollFileDescriptors EXCEPT ![s].fd = 0]
  /\ added' = added \ {s}
  /\ result' = NoCall
  /\ UNCHANGED <<maxFileDescriptor, currentPollSetSize, screwedUp, open,
                 readable, hungUp>>

(* removeFromPollSet; the highest descriptor stays as it is.               *)
RemoveFromPollSet(s) ==
  /\ ~screwedUp /\ s \in added
  /\ pollFileDescriptors' = [pollFileDescriptors EXCEPT ![s] = Zeroed]
  /\ added' = added \ {s}
  /\ result' = NoCall
  /\ UNCHANGED <<maxFileDescriptor, currentPollSetSize, screwedUp, open,
                 readable, hungUp>>

(* What poll() reports for an entry: input if it asked for input, and, in  *)
(* any case, that its descriptor is not open, or has hung up.              *)
Revents(e) ==
  \/ e.events /\ e.fd \in readable
  \/ e.fd \notin open
  \/ e.fd = Stdin /\ hungUp

Reported ==
  { i \in 0 .. maxFileDescriptor - 1 : Revents(pollFileDescriptors[i]) }

\* Variant: the search starts behind the last entry poll() looked at.
PollCallLast ==
  /\ ~screwedUp
  /\ \/ Reported = {} /\ result' = Timeout
     \/ \E i \in Reported : (\A j \in Reported : i >= j) /\ result' = i
  /\ UNCHANGED <<libVars, open, added, readable, hungUp>>

(* pollCall, when poll() returns: the lowest entry with an event.          *)
PollCall ==
  /\ ~screwedUp
  /\ \/ Reported = {} /\ result' = Timeout
     \/ \E i \in Reported : (\A j \in Reported : i <= j) /\ result' = i
  /\ UNCHANGED <<libVars, open, added, readable, hungUp>>

-----------------------------------------------------------------------------
(* The program around it *)

(* What open() and socket() return: the lowest descriptor not in use.      *)
LowestFree(fd, used) == fd \notin used /\ 0 .. fd - 1 \subseteq used

\* A file or socket is opened.
Open ==
  /\ ~screwedUp
  /\ \E fd \in 0 .. LastFd :
       /\ LowestFree(fd, open)
       /\ open' = open \union {fd}
  /\ result' = NoCall
  /\ UNCHANGED <<libVars, added, readable, hungUp>>

\* Variant: the new socket is opened before the old one is closed.
ReconnectLate(s) ==
  /\ ~screwedUp /\ s \in added
  /\ \E fd \in 0 .. LastFd :
       /\ LowestFree(fd, open)
       /\ AddEntry(fd)
       /\ open' = (open \ {s}) \union {fd}
       /\ added' = (added \ {s}) \union {fd}
  /\ readable' = readable \ {s}
  /\ result' = NoCall
  /\ UNCHANGED hungUp

(* connect_server: close the socket s, open another one, and add that.     *)
(* The entry of s is not removed.                                          *)
Reconnect(s) ==
  /\ ~screwedUp /\ s \in added
  /\ \E fd \in 0 .. LastFd :
       /\ LowestFree(fd, open \ {s})
       /\ AddEntry(fd)
       /\ open' = (open \ {s}) \union {fd}
       /\ added' = (added \ {s}) \union {fd}
  /\ readable' = readable \ {s}
  /\ result' = NoCall
  /\ UNCHANGED hungUp

Arrive(s) ==
  /\ s \in open /\ s > 2
  /\ readable' = readable \union {s}
  /\ result' = NoCall
  /\ UNCHANGED <<libVars, open, added, hungUp>>

Read(s) ==
  /\ s \in readable
  /\ readable' = readable \ {s}
  /\ result' = NoCall
  /\ UNCHANGED <<libVars, open, added, hungUp>>

\* Whoever writes to standard input goes away.
HangUp ==
  /\ hungUp' = TRUE
  /\ result' = NoCall
  /\ UNCHANGED <<libVars, open, added, readable>>

Next ==
  \/ PollCall \/ Open \/ HangUp
  \/ \E s \in 0 .. LastFd :
       \/ AddToPollSet(s) \/ RemoveFromPollSet(s) \/ Reconnect(s)
       \/ Arrive(s) \/ Read(s)

Spec == Init /\ [][Next]_vars

-----------------------------------------------------------------------------
TypeOK ==
  /\ pollFileDescriptors \in [0 .. currentPollSetSize - 1 -> Pollfd]
  /\ maxFileDescriptor \in Nat
  /\ currentPollSetSize \in Nat
  /\ screwedUp \in BOOLEAN
  /\ open \subseteq Nat
  /\ added \subseteq Nat
  /\ readable \subseteq Nat
  /\ hungUp \in BOOLEAN
  /\ result \in Int

(* Every socket that was added and not removed is one poll() looks at, for *)
(* input, whichever sockets were added in between, however much the array  *)
(* has grown; poll() stays within the array; and growPollSet's check never *)
(* ends the program.                                                       *)
AddedPolled ==
  /\ ~screwedUp
  /\ maxFileDescriptor <= currentPollSetSize
  /\ \A s \in added :
       /\ s < maxFileDescriptor
       /\ s \in DOMAIN pollFileDescriptors
       /\ pollFileDescriptors[s] = [fd |-> s, events |-> TRUE]

(* Sockets are all that is ever closed, one at a time and with another     *)
(* opened at once, so the open descriptors have no gap; those that were    *)
(* added are open.                                                         *)
NoGap ==
  /\ 0 .. 2 \subseteq open
  /\ \A fd \in open : 0 .. fd - 1 \subseteq open
  /\ added \subseteq open \ 0 .. 2

(* What AnswerRight follows from: the new socket of Reconnect has the      *)
(* descriptor of the old one, by NoGap, so that the entry nobody removed   *)
(* is that of a socket again; only sockets are added, and an entry whose   *)
(* index was not added, or not any more, asks for nothing.                 *)
PollInv ==
  /\ TypeOK
  /\ AddedPolled
  /\ NoGap
  /\ \A i \in DOMAIN pollFileDescriptors :
       i \notin added => pollFileDescriptors[i] = Zeroed

(* pollCall "returns the socket number if one is ready for read" and -1 if *)
(* a timeout occurred: no added socket has anything to read when it says   *)
(* so, an added socket it returns has, and it is the lowest that has.      *)
(* In particular it never returns a socket that is closed, although        *)
(* connect_server leaves the entry of the one it closes.                   *)
(* Entries nobody uses have descriptor 0, so that when standard input      *)
(* hangs up, and only then, what it returns may be no socket at all.       *)
AnswerRight ==
  /\ result = Timeout => added \intersect readable = {}
  /\ result \in added =>
       /\ result \in readable
       /\ \A s \in added \intersect readable : result <= s
  /\ result \notin added \union {Timeout, NoCall} => hungUp
=============================================================================
