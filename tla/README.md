# rcopy and server: a verification project

`rcopy` copies a file to a `server` over UDP with a selective-reject sliding
window. Every datagram passes a library (`libcpe464`) that drops packets and
inverts bytes on purpose. This directory holds TLA+ models of the programs, TLC
configurations that check them on small instances, and proofs for the TLA+
proof system of the safety properties that hold for every instance.

Quick start, in this directory:

    tlc -config Udp.cfg MCTransfer.tla        # and the other .cfg files
    tlapm TransferLemmas.tla                  # then TransferProofs, OrderProofs,
                                              # TimingProofs, SessionProofs, EventsProofs,
                                              # PollSetProofs, PacketBytesProofs

## 1. The system

| part | source | state it keeps | operations |
|---|---|---|---|
| rcopy, start and file name | `rcopy.c` 31-115 | `state`, `count`, socket, peer address | `connect_server`, `send_filename` |
| rcopy, data phase | `rcopy.c` 117-193 | `count`, `read_EOF`, the window | `send_data`, `check_flag` |
| server, accepting | `server.c` 47-84, 241-244 | children, `recv_buf`, client address | `process_server` (receive, `fork`), `handleZombie` |
| server process, file name | `server.c` 86-141, 212-216 | `file`, window size, its own socket | `process_client`, `open_file`, `filename` |
| server process, data phase | `server.c` 143-209 | `seq_num`, `highest_seq`, the window, the file | `recv_data`, `recover_packet`, `loop_window` |
| window | `window.c` | `lower`, `current`, `upper`, slots with packet and validity | `slide_window`, `insert_packet`, `read_packet`, `get/set_valid`, the three tests |
| packets | `packet.c` | none | build and take apart DATA, RR, SREJ, EOF, file-name packets |
| error injection | `libcpe464/PacketManager.cpp`, `MsgEvents/` | error rate, event lists, message number | `sendto_Err`, `processEvents`, drop, flip |
| its settings | `SettingsManager.cpp`, `network-hooks.c` | options from arguments and environment, the next seed | `loadEnvData`, `sendtoErr_init`, `forkMod` |
| poll set | `pollLib.c` | array of descriptors, its size, the highest | add, remove, grow, `pollCall` |
| checksum | `checksum.c` | none | `in_cksum` |
| socket set-up, names, wrappers | `networks.c`, `gethostbyname.c`, `safeUtil.c` | none | system calls, exit on failure |

How they interact. The server's parent process receives a file-name packet and
forks a child for it; the child opens the file, answers from a socket of its
own, and from then on talks to one rcopy. Both sides are single threads that
block in `pollCall`. They share nothing but the datagrams. rcopy sends DATA
packets while its window is open, keeps them in its window's buffer, and slides
the window to the number of every RR it receives; an SREJ it answers with the
packet asked for; when nothing arrives for a second it sends its lowest packet
again, and gives up after more than nine such timeouts in a row. The server
writes packets in order, buffers early ones, sends an RR after every packet it
writes or has already written, and SREJs for the gap an early packet reveals. At
the end rcopy sends one EOF packet, which nobody acknowledges, and exits; the
server exits on EOF or after ten silent seconds.

What is hard: two processes interleaved with a network that loses, corrupts,
delays and (off the loopback interface) reorders and duplicates; timers that
race late answers and each other; two circular buffers that are indexed by number modulo size
and never check what a slot holds; state that is read when an answer arrives but
belongs to when the question was asked; an exit decision taken from
acknowledgements alone; retries of the file name that fork processes sharing one
file; processes that end at the same time, a `fork` or a look-up that fails. `PROJECT.json` lists these as hazards, each at its line.

What makes each part correct:

- the pair rcopy/server process: the copy is the file, front to back; success is
  reported only over a complete copy; both end; a bounded number of errors is
  survived, and the server process does not leave while rcopy may still be helped;
- window: no packet still needed is overwritten; what is sent again is what was
  asked for; the edges never move back;
- server recovery: SREJs for everything that is missing, once each, and for nothing else;
- accepting: attempts that failed leave nothing behind that harms the copy; both
  ends use the same name and window size; rcopy enters its data phase only with a
  child that waits for its first block, and always gets there or gives up; every
  process forked ends and is waited for;
- error injection: listed packets, and no others, suffer; the environment has
  precedence over the programs' options; forked processes differ in their errors;
- poll set: no socket that was added is lost when the set grows or when rcopy replaces
  its socket, and the answer names one that is ready;
- packets and checksum: the receiver reads what the sender wrote; intact packets
  pass, every single inverted byte is noticed and none turns a flag into another.

## 2. Modules

| module | models | extends |
|---|---|---|
| `Packets` | packets and what an inverted byte makes of them | |
| `Window` | the slots of `window.c` | `Packets` |
| `Channel` | the datagrams under way, `sendtoErr`, `CsafeRecvfrom` | `Window` |
| `Rcopy` | `send_data`, `check_flag`, the data-phase part of `processFile` | `Channel` |
| `Server` | `recv_data`, `recover_packet`, `loop_window`, the data-phase part of `process_client` | `Channel` |
| `FileCopy` | abstract: what a copy promises its user | |
| `Transfer` | rcopy and server process composed; fairness, properties | `Rcopy`, `Server` |
| `Timing` | the same with the two timers, of one second and of ten | `Transfer` |
| `TransferInv` | the inductive invariants, on any network and where order is kept | `Transfer` |
| `TransferLemmas`, `TransferProofs` | the proofs, with the refinement of `FileCopy` | `TransferInv` |
| `OrderProofs` | the proofs for networks that keep order | `TransferProofs` |
| `TimingInv`, `TimingProofs` | the invariants and proofs about the timers | `Timing`, `OrderProofs` |
| `MCTransfer` | what TLC runs | `TransferInv` |
| `Session` | START and FILENAME of rcopy, the accepting server and all the processes it forks, the file they share | |
| `FileSession` | abstract: what a session, attempts and all, promises | |
| `SessionInv`, `SessionProofs` | its inductive invariant and the proofs | `Session` |
| `PollSet`, `PollSetProofs` | `pollLib.c` and a program that uses it; the proofs | |
| `Checksum` | `in_cksum` and a reference for it | |
| `PacketBytes`, `MCPacketBytes` | `packet.c` byte by byte, one inverted byte; values for TLC | `Checksum` |
| `PacketBytesProofs` | the proofs, with induction over the words of a packet | `PacketBytes` |
| `Events` | settings, forks and events of `libcpe464` | |
| `EventsInv`, `EventsProofs`, `MCEvents` | its inductive invariant, the proofs; lists for TLC | `Events` |

State. `cstate`, `count`, `readEOF`, `lower`, `current`, `upper`, `cbuf` are
rcopy's variables of nearly the same names; `status` is the process's exit
status. `sstate`, `expected` (`seq_num`), `highest` (`highest_seq`), `sbuf` are
the server's; `written` is the file as a list of blocks with lengths, and `asked`
the one history variable: the packets asked for and not written yet. `dataCh`
and `ackCh` hold the datagrams each way, in socket buffers or in flight.

Steps. A step runs from one point where a program can wait, or where the other
process can act on something it did, to the next:

- a call of `send_data` with an open window is `SendBlock` or `ReadEOF`, then
  one `Drain` per datagram of the `pollCall(0)` loop, then `DrainDone`, which is
  always possible because a datagram may not have arrived yet;
- with a full window, or after the end of the file, it is `AwaitAck` or
  `ResendLowest`; `SendEOF` at the end; `Spin` when none of the branches applies;
  `GiveUp` is the `count > 9` test;
- `recv_data` is one of `RecvEOF`, `RecvCorrupt`, `RecvExpected`,
  `RecvDuplicate`, `RecvOutOfOrder`, or `ServerTimeout`; `recover_packet` sends
  its SREJs one by one (`SendSREJ`, `RecoverDone`) because rcopy may receive the
  first before the last is sent.

Abstractions. A packet is its flag, its one number, its payload length and
whether its checksum holds; the payload of DATA packet n is block n of the file.
A corrupt packet keeps only its flag, since receivers look no further. Sequence
numbers do not wrap (a file of 2^32 blocks is out of scope). The number 9 of
`count > 9` is `MaxCount`.

`Timing`. Datagrams and the programs' own work take no time; what takes time is
waiting, so it passes only while both programs wait and nothing is under way. It is
counted in rcopy's timeouts: `SecondPasses` is one of them, `silence` says how many
of them the server process has heard nothing for, and in the last of its ten seconds
either timer may be the first (`PatienceEnds`, `LastSecond`). Once rcopy has ended, or
spins in `send_data` without polling (`Spinning`), the process always runs out of
patience. Every packet it receives, also a corrupt one, starts its wait over (`StartOver`). A step of
`Timing` is a step of `Transfer` (`TimedIsTransfer`), so everything proved of `Transfer`
holds of it.

`Session`. `cstate` is rcopy's state with one more, `AWAIT`, for the `pollCall` in
`send_filename`: `Connect`, `HostNotFound`, `SendFilename`, `FileAck`, `NoFileAck`,
`GiveUp` are the pieces of START and FILENAME between waits. Each server process is a
record in `child`, forked by `Accept` with the datagram the parent holds, then
`OpenFile`, `Filename`, and in RECV_DATA `RecvName` for SEND_FILE packets that reach
it. A process that exits is one of the parent's `zombies` until `HandleZombie`; any
number of SIGCHLDs that have not been handled is one (`sigchld`), and the parent
handles it before it goes on. `ForkFails` ends the parent alone. The file is one
variable, `disk`, which every process opens, truncates and writes at its own offset
(`WriteAt`; a skipped block is a hole; `fflush` follows every `fwrite`, so nothing
stays in buffers). The data phase is one step per block (`CopyBlock`, `EndCopy`);
`StartsClean` is the condition on which module Transfer starts, so that what is shown
there may be used here. Every attempt has a socket and at most one process of its
own, which are never reused; a datagram for a closed socket or a process that has
ended is lost. A damaged request may have another name, a wrong window size or a
name too long for its buffer: the process opens another file, or ends.

`PollSet`. The array is a function from descriptors to entries, `Revents` is what
poll() reports, closed descriptors and hangups included; `Open`, `Arrive`, `Read`,
`HangUp` are the environment, `Reconnect` is `connect_server`, which closes a socket
without removing it. What `socket()` returns then is the lowest descriptor that is not
`open`. That it is the one just closed is not assumed but follows, since the programs
close nothing else and so leave no gap (`NoGap`); the variant that opens the new socket
first leaves the entry of a closed one behind, and `AnswerRight` fails.

`PacketBytes`. A packet is the sequence of its bytes, a `uint32_t` the sequence of its
four bytes as they lie in memory, so that `htonl` and `ntohl` are a reversal and
forgetting one shows. `content` is what the sender wants to say, `Encoded` what the
functions of `packet.c` make of it, `ReadsAs` what the getters find. Module `Packets`
is instantiated to compare: `Flipped` there must foresee whatever an inverted byte
does here. The programs bound neither
the buffer size (`atoi` of an argument, rcopy.c:46) nor the names: a payload that does not
fit into create_packet's MAXBUF bytes with its header, and a name that does not fit into
get_filename's MAXFILE with its NUL, are copied past the end of a buffer, with effects
that no model has. So `Content` has payloads with `PayloadFits` only, and `ReadAsSent` is
about names with `NameFits` only; names of every length are sent and summed up, cut to
their length modulo 256 as `create_file_data` does it. The accumulator of `in_cksum` is a natural number: `int` does not overflow
below 32768 words, and packets have at most MAXBUF bytes.

`Events`. `proc` holds for each process what `PacketManager` and `network-hooks.c`
keep: the two event lists, the error rate, seed and next seed, the packets sent,
dropped and flipped. Process 0 is rcopy, or the server's parent, whose state a
fork copies. An unset variable is the empty set, a set one the set of its value, and
`Text` is a value without a number, which `loadEnvData` takes for unset. There is no port:
`server.c` includes `cpe464.h`, by which its `fork` is `forkMod`, but `networks.c` does
not, so that its `bind` is the C library's and nobody reads `CPE464_OVERRIDE_PORT`.

The variants next to some definitions ("Variant: ...") are slips one could make
in the code; each is used to show that a property can fail. `PROJECT.json` pairs
them with properties.

## 3. What is checked

| run | network and timers | instance | result |
|---|---|---|---|
| `Udp.cfg` | loss, corruption, reordering, duplication; any timeout at any time | window 2, 4 blocks, 2 datagrams a channel | `TypeOK`, `WrittenInOrder`, `WindowBounds`, `NothingClobbered`, `CopyPaddedAtMost`, `CopiesFile` hold; `IInv` too |
| `Loopback.cfg` | the same but order kept, with fairness | window 3, 5 blocks, 3 datagrams | `UnackedHeld`, `SREJAnswered`, `NeverSlidesBack`, `BothExit` hold; `AsksForMissing`, `GapsAskedForOnce` (with several gaps, which takes a window of 3); `OrderInv` too |
| `Retries.cfg` | order kept, both timers, at most 10 errors, with fairness | window 3, 5 blocks, 6 datagrams, 9 timeouts survived, a wait of 10 | `GivesUpOnlyAfterErrors`, `ServerOutlivesRcopy`, `EnoughRetries` hold; `TimedInv`, `LossCounted` too |
| `ShortLast.cfg` | order kept, errors | window 2, 2 blocks, short last block | `CopyIdentical` fails |
| `Reordered.cfg` | reordering and duplication, no errors | window 2, 4 blocks | `ClosedWindowWaits` fails |
| `Session.cfg` | loss, corrupted requests and answers, host not found, failing fork, any timeout at any time, fairness | 2 blocks, 3 attempts | `TypeOK`, `StartsClean`, `CopyIntact`, `NoZombieLeft`, `PeerKept`, `SessionEnds`, `KeepsPromise` hold; `IInv` too |
| `GarbledAck.cfg` | corrupted answers, fairness | 2 blocks, 3 attempts | `NamePhaseEnds` fails |
| `CorruptRequest.cfg` | corrupted requests | 2 blocks, 3 attempts | `ServedAsAsked` fails |
| `PollSet.cfg` | standard input may hang up | 2 entries at first, descriptors up to 7 | `TypeOK`, `AddedPolled`, `AnswerRight` hold; `PollInv` too |
| `PacketBytes.cfg` | one inverted byte | every kind of packet, 11 numbers, payloads of up to 4 bytes, names of up to 258 | `ReadAsSent`, `FlippedAsModelled`, `SumsLikeReference` hold |
| `Events.cfg` | every environment | 2 forks, 3 packets a process | `ExactlyListedDropped`, `SeedsDiffer`, `EnvironmentWins` hold; `IInv` too |
| `Uncounted.cfg` | every environment | as Events | `AllStandardPerformed` fails |

Bounds. `Blocks > WindowSize` in every passing run, so that slots are reused on both sides, and
the last block is shorter than the others. `Capacity` bounds the datagrams each
way; what exceeds it is dropped as by a full socket buffer. Two or three suffice
for a request, its repetition and an answer to be under way together with an
older one; the proofs need no bound at all. `ErrorsUnbounded` lets every send
fail (then `errors` does not count, which keeps the state space finite);
otherwise `ErrorBudget` limits them, one more than `MaxCount` in `Retries.cfg` so
that giving up is possible. `MaxCount` stands for 9, which it is in `Retries.cfg`,
where it meets the server's ten seconds; a smaller one gives the same control flow,
with at least one timeout survived.

In `Session` three attempts allow a first that is late, a second that is lost and a
third that succeeds, all three with a living process; two blocks tell a block in
its place from a name, a hole and old contents. `PollSet` starts with 2 entries
instead of 10 so that the array grows several times. `PacketBytes` has numbers with a
single byte set in each place, so that no two orders or offsets look alike, and
payload bytes with which carries, double carries and odd lengths all occur, and names
just short enough, just too long, and longer than a `uint8_t` says. `Events`
has two forks, so that children of the same parent can be compared, and lists
without a usable number, of several numbers, and with text among them.
`CHECK_DEADLOCK FALSE` is set only where the model ends: a packet sent and damaged
(`PacketBytes`), all packets of the bound sent (`Events`,
`Uncounted`), rcopy gone and the server
waiting for the next one (`Session`, where `SessionEnds` says that this is the only
end).

Fairness. `FairSpec` asks weak fairness of each process as a whole: the operating
system runs each thread, and each of its waits ends, by a datagram or by its
timeout. The network gets none: it may lose everything for ever. In `Session` the
server's parent, which waits without a timeout but not while a datagram or a signal is
there, gets the same, and so do the processes it forks, taken together.

Timers. In `Transfer` a timeout may fire whenever its wait is on, however late or early
that is; safety and the proofs need no more. No number of retries is enough then, so
`Retries.cfg` runs `Timing`, where answers take less than a second. `Session` lets
every timeout fire at any time and remembers in `late` whether one fired too early, so
that `CopyIntact` can say what holds while none does.

What the runs say beyond "it holds":

- `ShortLast.cfg`: `loop_window` (server.c:202) gives every block it writes the
  length of the packet that has just arrived. Lose the next-to-last packet once:
  the short last block waits in the buffer and is written too long. That is all that can
  go wrong with a copy reported complete (`CopyPaddedAtMost` in `Udp.cfg`), and nothing
  does if the last block is as long as the others (`WholeBlocksCopied`).
- `Reordered.cfg`: `slide_window` takes an older RR that arrives late. Then
  `current` lies above `upper`, and no branch of `send_data` applies: rcopy spins
  (`Spin`) instead of waiting a second and sending again. Order-preserving
  networks exclude it (`NeverSlidesBack`); safety is not affected
  (`Udp.cfg`, and the proofs).
- `Retries.cfg`: ten seconds of the server are just enough for rcopy's ten timeouts of
  one second, because the process's wait starts over with every packet it receives, also
  with a corrupt or a repeated one. With a second less, or if only new blocks started the
  wait over, it would leave an rcopy that has a packet to send again. In the very last
  second either may go first: rcopy gives up then anyway.
- `Session.cfg`: the data phase always starts clean, although answers of processes
  forked for earlier attempts may still be on their way and the name may have been
  sent to a process that is past it. What saves it is that a timeout takes a new
  socket: the variant that keeps the old one breaks it. The file itself is less
  safe: `CopyIntact` needs `~late`. If a process forked for an earlier attempt is
  scheduled only after the next one has begun to write, its `fopen` truncates the
  file. Without such delays the copy is intact, even when a SEND_FILE packet was
  taken for block 0 by a process whose answer was damaged, because the next attempt
  truncates that file. Everything ends as long as answers are not misread for ever,
  also when the server or the host's name is gone between two attempts.
- `GarbledAck.cfg`: an answer whose flag is corrupted leaves rcopy in FILENAME; it
  sends the name to the process, which takes it for data and answers with an RR,
  and so on. Every answer comes in time, so `count` never moves. Losing one of
  these packets ends it; a low error rate makes that a long wait.
- `CorruptRequest.cfg`: `process_server` compares a length with `CRC_ERROR`, which
  no function returns, so requests with checksum errors are served.
- `PollSet.cfg`: unused entries of the poll set have descriptor 0; a hangup of
  standard input makes `pollCall` return 0, which its callers read from as if it
  were a socket. `AnswerRight` says that this is the only wrong answer: the entry of
  the socket that `connect_server` closes is that of its successor again.
- `Uncounted.cfg`: PacketManager.h:5 says "When each packet is sent, all "Standard"
  MsgEvents will be performed". A packet dropped by list skips the events after
  `errorDrop`, so `infoSeqNo`'s report omits it, while a packet dropped at random is
  counted. Without such a list the promise is kept (`PerformedUnlessListed`).
- `Events.cfg`: `EnvironmentWins` says nothing of a list in `CPE464_OVERRIDE_ERR_FLIP`.
  SettingsManager.h:15-20 has lists for both variables, but this one makes no event, as
  a TODO in SettingsManager.cpp:240 admits, and it suppresses the program's FLIP_ON, so
  that nothing is flipped.

Seen while modelling, with no run of their own:

- rcopy returns 1 over a complete copy (rcopy.c:28) and 0 when it gives up
  (rcopy.c:58), the opposite of what `testRandError.sh` takes for granted;
- `CPE464_OVERRIDE_PORT` has no effect, since the `bind` of networks.c:162 is not
  `bindMod`. SettingsManager.h:10 says "Override the port of first "bind(x)"", and
  `testRandError.sh` sets it for the server (line 53) before it gives the same port to
  its client (line 70), which then sends where nobody listens;
- nothing limits the buffer size or the length of a name (see `PacketBytes` above).

## 4. What is proved

For every value of the constants: every window size, file, buffer size, channel
capacity, error budget, number of retries, forks, list of packets. The assumptions
`PacketsAssumption`, `ChannelAssumption`, `RcopyAssumption`, `TimingAssumption`,
`SessionAssumption`, `EventsAssumption`, `PollSetAssumption` and `PacketBytesAssumption`
only give the constants their types; what a theorem assumes beyond them is in the table.

| theorem | says |
|---|---|
| `TransferProofs!Invariance` | `IInv` is an invariant |
| `TypeCorrect`, `CopyInOrder`, `WithinOneWindow`, `NoPacketClobbered`, `OnlyMissingAskedFor` | `TypeOK`, `WrittenInOrder`, `WindowBounds`, `NothingClobbered`, `AsksForMissing` |
| `EveryGapAskedForOnce` | `GapsAskedForOnce`; on any network |
| `CopyAlmostRight` | `CopyPaddedAtMost` |
| `WholeBlocksCopied` | `CopyIdentical`, if `LastLen = BufferSize`; on any network |
| `Refinement` | `Spec => CopiesFile`: the programs implement `FileCopy` |
| `OrderProofs!OrderKept` | `OrderInv`, where order is kept (`~Unordered`) |
| `NothingUnackedLost`, `RequestsAnswered`, `WindowMovesForward` | `UnackedHeld`, `SREJAnswered`, `NeverSlidesBack`, where order is kept |
| `ClosedWindowPolls` | `ClosedWindowWaits`, where order is kept |
| `TimingProofs!TimedIsTransfer` | `TimedSpec => Spec`: with its timers, the data phase is `Transfer` with less freedom |
| `TimersInStep` | `TimedInv`, if `Patience > MaxCount` |
| `ServerWaitsForRcopy` | `ServerOutlivesRcopy`, unless rcopy is `Spinning`, if `Patience > MaxCount`; on any network |
| `ServerOutlives` | `ServerOutlivesRcopy`, if `Patience > MaxCount`, where order is kept |
| `TimeoutsExplained`, `GivesUpLate` | `LossCounted`, `GivesUpOnlyAfterErrors`, if also `Capacity >= WindowSize` and the bound on the count of errors does not hide any (`ErrorsUnbounded => ErrorBudget > MaxCount`) |
| `SessionProofs!SessionInvariance` | `IInv` of `SessionInv` |
| `SessionTypeCorrect`, `DataPhaseClean`, `NoTraceOfAttempts`, `NoZombieStays`, `PeerStays` | `TypeOK`, `StartsClean`, `CopyIntact`, `NoZombieLeft`, `PeerKept` |
| `SessionRefinement` | `Spec => KeepsPromise`: rcopy and all its server processes implement `FileSession` |
| `OnlyFlipsMislead` | `ServedAsAsked`, if `"flip request" \notin Faults` |
| `EventsProofs!SettingsKept` | `IInv` of `EventsInv` |
| `ListIsDropped`, `SeedsStayApart`, `EnvironmentHasPrecedence` | `ExactlyListedDropped`, `SeedsDiffer`, `EnvironmentWins` |
| `PerformedUnlessListed` | `AllStandardPerformed`, if `Listed(env.drop) = {}` |
| `PollSetProofs!PollTypeCorrect`, `NoSocketLost`, `PollAnswerRight` | `TypeOK`, `AddedPolled`, `AnswerRight` of `PollSet` |
| `PollInvariance` | `PollInv` and `AnswerRight` |
| `PacketBytesProofs!ReadingRight`, `FlipsAreModelled`, `SumsRight` | `ReadAsSent`, `FlippedAsModelled`, `SumsLikeReference`: of payloads with `PayloadFits`, and of what is read as the name, if `NameFits` |
| `BytesInvariant` | `BytesInv`, from which these follow |
| `CarriesAdded` | `in_cksum`, which folds its carries in twice, is the complement of the sum with end-around carry, for every packet of up to 65534 bytes |

Four of the properties that a run finds violated have a theorem too: `CopyIdentical`,
`ClosedWindowWaits`, `ServedAsAsked` and `AllStandardPerformed` hold under the condition
in the table. The run shows that the code can break what it promises, the theorem that
nothing but the one circumstance named does it: a short last block, answers that overtake
one another, a corrupted request, a list of packets to drop.

The inductive invariants `IInv` (three of them), `OrderInv`, `TimedInv` and `PollInv` are
also invariants of a run, so that TLC would show a counterexample to one that a change of
the code breaks. `AskedInv`, `LengthsInv`, `Undamaged` and `BytesInv` are only proved.

### The data phase

None of the properties is inductive by itself. `WrittenInOrder` needs that the
slot `loop_window` writes holds the packet whose turn it is; that needs that all
buffered packets lie within one window above `expected`, so that two different
ones never share a slot (`SlotUnique`); that needs rcopy's window bound, and so
that no RR under way exceeds what is written. `IInv` says all of this: what may
be in each channel (`RcopySent`, `ServerSent`, sets that grow with `current` and
`expected`), the window's edges (`WindowInv`), that every slot rcopy reads holds
a block it has sent (`RcopyBufferInv`), that a valid slot of the server holds an
early block in its place (`ServerBufferInv`), that what is buffered lies below
`highest` (`RecoverInv`), and that success means everything is written
(`StatusInv`). The proof has one lemma per action; `ServerUnmoved` and
`RcopyUnmoved` say once what a step of the other process leaves alone.
`LoopWindowEffect` is the heart of it.

`CopyPaddedAtMost` leaves open what `WrittenInOrder` does not say, the length of the last
block. `LengthsInv`, which is inductive together with `IInv`, is enough: whatever
`loop_window` writes has the length of some block of the file.

`GapsAskedForOnce` is about `asked`. The loop of `recover_packet` starts at `highest` or
`expected`, whichever is greater, so what it depends on is that `highest` never falls and
lies above everything asked for, also after gaps have been filled in another order.
`AskedInv` has it for every step of the loop: below `Reached` (where the loop stands, or
would start) each packet has been written, buffered or asked for, and no packet above has
been asked for.

Where order is kept, more holds, and `OrderInv` says why: nothing in `ackCh` asks for
less than an RR before it acknowledges, nor for less than `lower` (`AcksInOrder`). So an
RR that arrives never moves the window back, `current` never passes `upper`, and every
number from `lower` on has a slot of its own in rcopy's buffer (`UnackedHeld`). It is
preserved because an RR takes the newest `expected`, which never falls, and an SREJ asks
for something from `expected` on. These proofs cite `IInv` for both states.

### The timers

`TimedInv` says that every second of the server process's silence is one that rcopy has
counted (`SilenceCounted`): while there is silence rcopy listens with nothing under way,
so that nothing can set `count` back without something having been received. It also
needs that no EOF is under way before rcopy is done (`EOFLast`). It follows that a
process that leaves first leaves an rcopy that is at its last timeout, or spins
(`GoneLate`). Spinning takes a window that was moved back, so `ServerOutlives` needs the
order of the network and `ServerWaitsForRcopy` does not.

`GivesUpOnlyAfterErrors` needs to know that each timeout has an error of its own behind
it, also when answers reset `count` in between (`LossCounted`). As long as there are no
errors at all, the two channels hold exactly the window: the packets from `expected` to
`current`, in this order, and the RRs from `lower` to `expected` (`Unharmed`), so no
timeout can happen; this is where a window must fit into the channels, for what a full
channel drops is an error. After a first timeout at most one datagram is under way: the
packet sent again or its answer. If there have been no more errors than timeouts it is
intact, so that the next timeout takes another error (`Retrying`). Once there were more
errors than `MaxCount` nothing is claimed. The instance of `Retries.cfg` satisfies every
assumption, with the code's numbers for the two timers.

### Session

What `Session` is safe by is one socket, one request, one process: every timeout
takes a new socket, so at most one request is under way for the present one, and no
process serves it while it is (`OneProcess`, with `Asking`, `Serves` and `Known`); a
process answers with OK_FILENAME before anything else (`FirstAnswer`), and is known to
rcopy only once it waits for data (`ProcessInv`). `CopyInv` carries this through the
data phase: the peer waits for block `sent` with an empty inbox, or has ended. For
`CopyIntact`, `FileInv` says what is true until a wait ends too early: requests are all
for the present socket, processes of earlier attempts have nothing to read and never
open the file again, it is empty when OK_FILENAME is under way, and holds what has been
sent once the copying has begun. `AttemptInv` and `ZombieInv` bound sockets and children
by the number of attempts.

`CopyIntact` speaks of the end only. `KeepsPromise` speaks of every step: `FileSession`
has no sockets and no processes, only attempts, a file and what has become of the
session. An attempt is a socket (`attempts <- sock`), `Phase` is what rcopy's user would
say of `cstate`, and `Trusted` is lost for good when a wait has ended too early, or when
the peer turns out to have been asked for something else. While it lasts, no process
truncates or writes the file behind the back of the one that copies: the file is empty
when the copying begins, grows by its next block only, is the whole file when success is
reported, and stays so whatever the processes of earlier attempts still do. The proof
has one lemma for rcopy's steps and one for the server's, and takes `IInv` for both
states.

`OnlyFlipsMislead` has an invariant of its own, `Undamaged`: without a flipped request
none that is damaged is in the server's socket, and a process is forked for nothing else
(`SocketUndamaged`, `ProcessUndamaged`).

### Error injection

`EventsInv` says what the two event lists, the settings and the seed of a process are,
in terms of the environment, the options and the number of the process: a child has the
parent's lists before it adds its own options (`SettingsInv`), and processes are forked
in the order of their numbers, each of which advances the parent's seed by one
(`ForksInv`). `StandardRun` says what the standard events do to one packet,
`ChanceEvents` that with a list in the environment no random event can drop one, and
`HistoryInv` that without one `infoSeqNo` has counted every packet.

(`SendErrInit` and `SendtoErr` name the record they change instead of writing `@` for it:
within `[@ EXCEPT !.f = ... @ ...]` inside another EXCEPT, version 1.4.5 of the proof
system takes the inner `@` for a field of the field.)

### The poll set

`AddedPolled` says nothing of entries nobody added, and `AnswerRight`
needs that those report nothing but hangups of standard input: `PollInv` adds that
every such entry is zeroed, which is what the loop in `growPollSet` and
`removeFromPollSet` are for, and that the open descriptors have no gap and sockets are
above 2 (`NoGap`), from which the new socket of `Reconnect` gets the old one's place.
`ReportedIs` says what poll() then reports.

### Packets and checksum

That a getter reads what was put in is a matter of offsets and of two reversals. What
takes an argument is the checksum, a recursive function over words. The library's
induction takes an operator, so `LeastNumber` proves that a set of numbers has a least
one, `InductionTo` gets induction over a set of numbers from it, and `RecursionExists`
that the function `in_cksum` computes exists and satisfies its equation.

`EndAround(s, r)` says that r is s modulo 65535, with 65535 in the place of 0 unless s
itself is 0. It holds of a sum of words and what end-around carry makes of it
(`EndAroundAdd`), and of a sum and what folding its carries in twice makes of it, as
long as the sum has a high word below 65535 (`CarriesFolded`), which up to 65534 bytes
ensure (`SumBound`). There is only one such r, so `in_cksum` computes the complement of
the reference's sum (`CarriesAdded`). It is 0, and a packet passes, exactly if the sum of
its words is a positive multiple of 65535: its sender put the complement of the rest's sum
into it (`ChecksumPasses`). Inverting byte b changes the sum by 255 - 2b, times 256 if
the byte is the high one of its word (`OneByteChanged`). The change is not 0 and smaller
than 65535, so it leads from no multiple to another (`NoMultiple`): every inverted byte is
noticed (`FlipFails`). As no flag is the complement of another, `Packets` foresees all
that can arrive (`FlipsAreModelled`).
`BytesInv` says what a packet is between being encoded and being read.

### Left to TLC

Liveness under fairness is out of the prover's reach: `BothExit`, `EnoughRetries` and
`SessionEnds`, and `NamePhaseEnds`, which a run finds violated. Every other property of
every run is stated by a theorem, four that a run finds violated under their condition.

## 5. Plan

Done: the data phase with its refinement and proofs, what it is all for; its timers;
`Session` with its processes and failures; `PollSet`; `PacketBytes`; `Events`. Proved:
every invariant and every action property of a passing run, that the data phase
implements `FileCopy` and `Session` implements `FileSession`, and under which conditions
four of the promises that the code breaks are kept.

Left: the data phase of `Session` replaced by `Transfer` on a small instance instead
of by the condition `StartsClean`; two rcopies copying to two files and to one;
requests that the network duplicates.

## 6. Not modelled

System calls that fail, but for `fork` and the look-up of the host's name: they end the
program that made them, at once. The results of `fread`, `fwrite` and `fflush`: a read
error counts as the end of the file and a full disk is not noticed, so the models take a
disk without either. The TCP half of `networks.c`, `send_Err`, `recv_Mod`,
`remove_packet`, `checkArgs` and `bindMod`, which nothing calls, and with `bindMod` the
ports. What a copy past the end of a buffer does. `selectMod`, AUTOGRADER and
`recvfrom_Mod`, which only print, and printing in general; `check_file`, which may end
rcopy before anything is sent. Wrapping of sequence numbers (a file of 2^32 blocks); a
window or buffer size of 0; standard input becoming readable in `pollCall`. `Session` has one
rcopy, and its datagrams are neither duplicated nor reordered.
