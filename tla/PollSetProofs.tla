---------------------------- MODULE PollSetProofs ----------------------------
(***************************************************************************)
(* Proofs about module PollSet, for every initial size, every number of    *)
(* descriptors.                                                            *)
(***************************************************************************)
EXTENDS PollSet, TLAPS

-----------------------------------------------------------------------------
LEMMA EntryTypes ==
  Zeroed \in Pollfd /\ \A s \in Nat : [fd |-> s, events |-> TRUE] \in Pollfd
BY DEF Zeroed, Pollfd

(* Adding an entry keeps every other one, also when the array grows.       *)
LEMMA AddEntryKeeps ==
  ASSUME PollInv, NEW s \in open, s > 2, AddEntry(s),
         added' = added \union {s},
         open' = open, readable' \subseteq Nat, hungUp' \in BOOLEAN,
         result' \in Int
  PROVE  PollInv'
<1>0. s \in Nat /\ s # 0
  BY DEF PollInv, TypeOK
<1> USE DEF PollInv
<1>1. SizeFor(s) \in Nat /\ s < SizeFor(s) /\ currentPollSetSize <= SizeFor(s)
  BY <1>0, PollSetAssumption DEF TypeOK, SizeFor
<1>2. s >= currentPollSetSize => SizeFor(s) > currentPollSetSize
  BY <1>0, PollSetAssumption DEF TypeOK, SizeFor
<1>3. /\ currentPollSetSize' = SizeFor(s)
      /\ maxFileDescriptor' =
           IF s + 1 >= maxFileDescriptor THEN s + 1 ELSE maxFileDescriptor
      /\ pollFileDescriptors' = WithSocket(s, currentPollSetSize, SizeFor(s))
      /\ screwedUp' = screwedUp
  <2>1. ~(s >= currentPollSetSize /\ SizeFor(s) <= currentPollSetSize)
    BY <1>0, <1>1, <1>2 DEF TypeOK
  <2>2. QED BY <2>1 DEF AddEntry
<1>4. /\ DOMAIN pollFileDescriptors = 0 .. currentPollSetSize - 1
      /\ DOMAIN pollFileDescriptors' = 0 .. SizeFor(s) - 1
  BY <1>3 DEF TypeOK, WithSocket
<1>5. pollFileDescriptors'[s] = [fd |-> s, events |-> TRUE]
  BY <1>0, <1>1, <1>3 DEF WithSocket
<1>6. ASSUME NEW i \in 0 .. SizeFor(s) - 1, i # s
      PROVE  pollFileDescriptors'[i] =
               IF i < currentPollSetSize THEN pollFileDescriptors[i] ELSE Zeroed
  BY <1>3, <1>6 DEF WithSocket
<1>7. TypeOK'
  <2>1. ASSUME NEW i \in 0 .. SizeFor(s) - 1
        PROVE  pollFileDescriptors'[i] \in Pollfd
    <3>1. CASE i = s
      BY <1>0, <1>5, <3>1, EntryTypes
    <3>2. CASE i # s /\ i < currentPollSetSize
      <4>1. i \in 0 .. currentPollSetSize - 1
        BY <3>2, <1>1 DEF TypeOK
      <4>2. QED BY <1>6, <3>2, <4>1 DEF TypeOK
    <3>3. CASE i # s /\ ~(i < currentPollSetSize)
      BY <1>6, <3>3, EntryTypes
    <3>4. QED BY <3>1, <3>2, <3>3
  <2>2. pollFileDescriptors' \in [0 .. currentPollSetSize' - 1 -> Pollfd]
    BY <1>3, <2>1 DEF WithSocket
  <2>3. QED BY <1>0, <1>1, <1>3, <2>2 DEF TypeOK
<1>8. AddedPolled'
  <2>1. maxFileDescriptor' <= currentPollSetSize'
    BY <1>1, <1>3 DEF TypeOK, AddedPolled
  <2>2. ASSUME NEW t \in added'
        PROVE  /\ t < maxFileDescriptor'
               /\ t \in DOMAIN pollFileDescriptors'
               /\ pollFileDescriptors'[t] = [fd |-> t, events |-> TRUE]
    <3>1. CASE t = s
      BY <1>0, <1>1, <1>3, <1>4, <1>5, <3>1 DEF TypeOK
    <3>2. CASE t # s
      <4>1. t \in added
        BY <2>2, <3>2
      <4>2. /\ t \in Nat /\ t < maxFileDescriptor
            /\ t \in 0 .. currentPollSetSize - 1
            /\ pollFileDescriptors[t] = [fd |-> t, events |-> TRUE]
        BY <4>1, <1>4 DEF TypeOK, AddedPolled
      <4>3. t \in 0 .. SizeFor(s) - 1 /\ t < currentPollSetSize
        BY <4>2, <1>1 DEF TypeOK
      <4>4. pollFileDescriptors'[t] = [fd |-> t, events |-> TRUE]
        BY <1>6, <3>2, <4>2, <4>3
      <4>5. t < maxFileDescriptor'
        BY <1>0, <1>3, <4>2 DEF TypeOK
      <4>6. QED BY <1>4, <4>3, <4>4, <4>5
    <3>3. QED BY <3>1, <3>2
  <2>3. QED BY <1>3, <2>1, <2>2 DEF AddedPolled
<1>9. \A i \in DOMAIN pollFileDescriptors' :
        i \notin added' => pollFileDescriptors'[i] = Zeroed
  <2>1. SUFFICES ASSUME NEW i \in 0 .. SizeFor(s) - 1, i \notin added, i # s
                 PROVE  pollFileDescriptors'[i] = Zeroed
    BY <1>4
  <2>2. CASE i < currentPollSetSize
    BY <1>1, <1>4, <1>6, <2>1, <2>2 DEF TypeOK
  <2>3. CASE ~(i < currentPollSetSize)
    BY <1>6, <2>1, <2>3
  <2>4. QED BY <2>2, <2>3
<1>10. NoGap'
  <2>1. s \in open \ 0 .. 2
    BY <1>0
  <2>2. QED BY <2>1 DEF NoGap
<1>11. QED BY <1>7, <1>8, <1>9, <1>10

LEMMA AddedEntry ==
  ASSUME PollInv, NEW s \in added
  PROVE  /\ s \in 0 .. maxFileDescriptor - 1
         /\ pollFileDescriptors[s] = [fd |-> s, events |-> TRUE]
<1>1. /\ added \subseteq Nat /\ maxFileDescriptor \in Nat
  BY DEF PollInv, TypeOK
<1>2. /\ s < maxFileDescriptor
      /\ pollFileDescriptors[s] = [fd |-> s, events |-> TRUE]
  BY Zenon DEF PollInv, AddedPolled
<1>3. QED BY <1>1, <1>2

(* Of the added sockets poll() reports those that have something to read,  *)
(* and of other entries any only when standard input has hung up.          *)
LEMMA ReportedIs ==
  ASSUME PollInv
  PROVE  /\ Reported \intersect added = added \intersect readable
         /\ ~hungUp => Reported \subseteq added
<1> USE DEF PollInv
<1>1. ASSUME NEW i \in added
      PROVE  i \in Reported <=> i \in readable
  <2>1. i \in 0 .. maxFileDescriptor - 1
    BY <1>1, AddedEntry
  <2>2. pollFileDescriptors[i] = [fd |-> i, events |-> TRUE]
    BY <1>1, AddedEntry
  <2>3. pollFileDescriptors[i].events /\ pollFileDescriptors[i].fd = i
    BY <2>2
  <2>4. i \in open /\ i # 0
    BY <1>1 DEF NoGap
  <2>5. Revents(pollFileDescriptors[i]) <=> i \in readable
    BY <2>3, <2>4 DEF Revents, Stdin
  <2>6. QED BY <2>1, <2>5 DEF Reported
<1>2. ASSUME ~hungUp, NEW i \in Reported
      PROVE  i \in added
  <2>1. i \in DOMAIN pollFileDescriptors
    BY <1>2 DEF Reported, TypeOK, AddedPolled
  <2>2. Revents(pollFileDescriptors[i])
    BY <1>2 DEF Reported
  <2>3. ~Revents(Zeroed)
    BY <1>2 DEF Revents, Zeroed, NoGap
  <2>4. QED BY <2>1, <2>2, <2>3
<1>3. QED BY <1>1, <1>2

-----------------------------------------------------------------------------
LEMMA PollInit == Init => PollInv /\ AnswerRight
<1> SUFFICES ASSUME Init PROVE PollInv /\ AnswerRight
  OBVIOUS
<1>1. /\ DOMAIN pollFileDescriptors = 0 .. POLL_SET_SIZE - 1
      /\ \A i \in 0 .. POLL_SET_SIZE - 1 : pollFileDescriptors[i] = Zeroed
  BY DEF Init
<1>2. pollFileDescriptors \in [0 .. currentPollSetSize - 1 -> Pollfd]
  BY EntryTypes DEF Init
<1>3. TypeOK
  <2>1. /\ maxFileDescriptor = 0 /\ currentPollSetSize = POLL_SET_SIZE
        /\ open = 0 .. 2 /\ added = {} /\ readable = {} /\ result = NoCall
    BY DEF Init
  <2>2. screwedUp \in BOOLEAN /\ hungUp \in BOOLEAN
    BY DEF Init
  <2>3. QED BY <1>2, <2>1, <2>2, PollSetAssumption DEF TypeOK, NoCall
<1>4. AddedPolled
  BY PollSetAssumption DEF Init, AddedPolled
<1>5. NoGap
  BY DEF Init, NoGap
<1>6. QED BY <1>1, <1>3, <1>4, <1>5 DEF Init, PollInv, AnswerRight

(* Only the state after a pollCall has an answer.                          *)
LEMMA NothingReturned ==
  ASSUME TypeOK', result' = NoCall
  PROVE  AnswerRight'
<1>1. added' \subseteq Nat
  BY DEF TypeOK
<1>2. NoCall # Timeout /\ NoCall \notin Nat
  BY DEF NoCall, Timeout
<1>3. result' # Timeout /\ result' \notin added'
  BY <1>1, <1>2
<1>4. QED BY <1>3 DEF AnswerRight

LEMMA PollStep == PollInv /\ AnswerRight /\ [Next]_vars => PollInv' /\ AnswerRight'
<1> SUFFICES ASSUME PollInv, AnswerRight, [Next]_vars
             PROVE  PollInv' /\ AnswerRight'
  OBVIOUS
<1> USE DEF NoCall
<1>1. CASE PollCall
  <2>1. PollInv'
    <3>1. result' \in Int
      BY <1>1 DEF PollCall, Reported, Timeout, PollInv, TypeOK
    <3>2. QED
      BY <1>1, <3>1 DEF PollCall, libVars, PollInv, TypeOK, AddedPolled, NoGap
  <2>2. /\ UNCHANGED <<added, readable, hungUp>>
        /\ \/ Reported = {} /\ result' = Timeout
           \/ \E i \in Reported : (\A j \in Reported : i <= j) /\ result' = i
    BY <1>1 DEF PollCall
  <2>3. Timeout \notin Reported /\ Timeout \notin added
    BY DEF Reported, Timeout, PollInv, TypeOK
  <2>4. AnswerRight'
    BY <2>2, <2>3, ReportedIs DEF AnswerRight
  <2>5. QED BY <2>1, <2>4
<1>2. CASE Open \/ HangUp \/ \E s \in 0 .. LastFd : Arrive(s) \/ Read(s)
  <2> DEFINE Unmoved ==
               /\ UNCHANGED <<libVars, added>> /\ result' = NoCall
               /\ open' \subseteq Nat
               /\ NoGap'
               /\ hungUp' \in BOOLEAN
               /\ readable' \subseteq Nat
  <2>1. Unmoved
    <3>1. CASE Open
      <4>1. PICK fd \in 0 .. LastFd :
              LowestFree(fd, open) /\ open' = open \union {fd}
        BY <3>1 DEF Open
      <4>2. open' \subseteq Nat
        BY <4>1, PollSetAssumption DEF PollInv, TypeOK
      <4>3. NoGap'
        BY <3>1, <4>1 DEF Open, LowestFree, PollInv, NoGap
      <4>4. QED BY <3>1, <4>2, <4>3 DEF Open, PollInv, TypeOK
    <3>2. CASE HangUp
      BY <3>2 DEF HangUp, PollInv, TypeOK, NoGap
    <3>3. ASSUME NEW s \in 0 .. LastFd, Arrive(s)
          PROVE  Unmoved
      BY <3>3, PollSetAssumption DEF Arrive, PollInv, TypeOK, NoGap
    <3>4. ASSUME NEW s \in 0 .. LastFd, Read(s)
          PROVE  Unmoved
      BY <3>4, PollSetAssumption DEF Read, PollInv, TypeOK, NoGap
    <3>5. QED BY <1>2, <3>1, <3>2, <3>3, <3>4
  <2>2. TypeOK'
    BY <2>1 DEF libVars, PollInv, TypeOK
  <2>3. PollInv'
    BY <2>1, <2>2 DEF libVars, PollInv, AddedPolled
  <2>4. QED BY <2>1, <2>2, <2>3, NothingReturned
<1>3. ASSUME NEW s \in 0 .. LastFd, AddToPollSet(s)
      PROVE  PollInv' /\ AnswerRight'
  <2>1. PollInv'
    BY <1>3, AddEntryKeeps DEF AddToPollSet, PollInv, TypeOK
  <2>2. TypeOK' /\ result' = NoCall
    BY <1>3, <2>1 DEF AddToPollSet, PollInv
  <2>3. QED BY <2>1, <2>2, NothingReturned
<1>4. ASSUME NEW s \in 0 .. LastFd, Reconnect(s)
      PROVE  PollInv' /\ AnswerRight'
  <2>1. s \in added /\ s \in open /\ s > 2
    <3>1. s \in added /\ s \in Nat
      BY <1>4, PollSetAssumption DEF Reconnect
    <3>2. s \in open \ 0 .. 2
      BY <3>1 DEF PollInv, NoGap
    <3>3. QED BY <3>1, <3>2
  <2>2. PICK fd \in 0 .. LastFd :
          /\ LowestFree(fd, open \ {s})
          /\ AddEntry(fd)
          /\ open' = (open \ {s}) \union {fd}
          /\ added' = (added \ {s}) \union {fd}
    BY <1>4 DEF Reconnect
  <2>3. fd = s
    <3>1. fd \in Nat /\ s \in Nat
      BY PollSetAssumption
    <3>2. ~(fd < s)
      <4>1. SUFFICES ASSUME fd < s PROVE FALSE
        OBVIOUS
      <4>2. fd \in 0 .. s - 1
        BY <3>1, <4>1
      <4>3. fd \in open
        BY <2>1, <4>2 DEF PollInv, NoGap
      <4>4. QED BY <2>2, <3>1, <4>1, <4>3 DEF LowestFree
    <3>3. ~(s < fd)
      BY <2>2, <3>1 DEF LowestFree
    <3>4. QED BY <3>1, <3>2, <3>3
  <2>4. /\ AddEntry(s) /\ open' = open /\ added' = added \union {s}
        /\ readable' \subseteq Nat /\ hungUp' = hungUp /\ result' = NoCall
    BY <1>4, <2>1, <2>2, <2>3 DEF Reconnect, PollInv, TypeOK
  <2>5. PollInv'
    BY <2>1, <2>4, AddEntryKeeps DEF PollInv, TypeOK
  <2>6. QED BY <2>4, <2>5, NothingReturned DEF PollInv
<1>5. ASSUME NEW s \in 0 .. LastFd, RemoveFromPollSet(s)
      PROVE  PollInv' /\ AnswerRight'
  <2>1. /\ s \in added /\ added' = added \ {s}
        /\ pollFileDescriptors' = [pollFileDescriptors EXCEPT ![s] = Zeroed]
        /\ UNCHANGED <<maxFileDescriptor, currentPollSetSize, screwedUp,
                       open, readable, hungUp>>
        /\ result' = NoCall
    BY <1>5 DEF RemoveFromPollSet
  <2>2. pollFileDescriptors' \in [0 .. currentPollSetSize - 1 -> Pollfd]
    BY <2>1, EntryTypes DEF PollInv, TypeOK
  <2>3. TypeOK'
    BY <2>1, <2>2 DEF PollInv, TypeOK
  <2>4. AddedPolled'
    BY <2>1 DEF PollInv, TypeOK, AddedPolled
  <2>5. \A i \in DOMAIN pollFileDescriptors' :
          i \notin added' => pollFileDescriptors'[i] = Zeroed
    BY <2>1 DEF PollInv, TypeOK
  <2>6. PollInv'
    BY <2>1, <2>3, <2>4, <2>5 DEF PollInv, NoGap
  <2>7. QED BY <2>1, <2>3, <2>6, NothingReturned
<1>6. CASE UNCHANGED vars
  BY <1>6 DEF vars, libVars, PollInv, TypeOK, AddedPolled, NoGap, AnswerRight
<1>7. QED BY <1>1, <1>2, <1>3, <1>4, <1>5, <1>6 DEF Next

(* The invariant of the poll set.                                          *)
THEOREM PollInvariance == Spec => [](PollInv /\ AnswerRight)
BY PollInit, PollStep, PTL DEF Spec

(* A socket that was added is polled until it is removed: AddedPolled.     *)
THEOREM NoSocketLost == Spec => []AddedPolled
BY PollInvariance, PTL DEF PollInv

(* Types of pollLib.c's variables: TypeOK.                                 *)
THEOREM PollTypeCorrect == Spec => []TypeOK
BY PollInvariance, PTL DEF PollInv

(* pollCall's answer is right, hangups of standard input apart:            *)
(* AnswerRight.                                                            *)
THEOREM PollAnswerRight == Spec => []AnswerRight
BY PollInvariance, PTL
=============================================================================
