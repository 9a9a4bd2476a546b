------------------------------- MODULE Timing --------------------------------
(***************************************************************************)
(* The data phase with its two timers: rcopy waits a second for an answer  *)
(* (pollCall(1000) in rcopy.c), a server process ten seconds for a packet  *)
(* (pollCall(10000) in server.c).  Neither program knows of the other's    *)
(* timer.                                                                  *)
(*                                                                         *)
(* Datagrams and the programs' own work take no time, so time passes only  *)
(* while both wait and nothing is under way.  It is counted in rcopy's     *)
(* timeouts, each of which takes its second and a little more.             *)
(***************************************************************************)
EXTENDS Transfer

CONSTANT Patience   \* the seconds a server process waits: 10

ASSUME TimingAssumption == Patience \in Nat

VARIABLE silence    \* rcopy's timeouts since the server process began its wait

timedVars == <<vars, silence>>

TimedInit == Init /\ silence = 0

\* Datagrams to a process that has exited, or reads no more, do not count.
NothingUnderWay ==
  /\ dataCh = <<>> \/ sstate = "DONE"
  /\ ackCh = <<>> \/ cstate = "DONE" \/ Spinning
  /\ sstate # "RECOVER"

(* rcopy's second is over, and one of the server process's.                *)
SecondPasses ==
  /\ NothingUnderWay
  /\ RcopyTimeout
  /\ silence' = IF sstate = "DONE" THEN silence ELSE silence + 1

\* Variant: the server process waits a second less.
LastSecondEarly == silence + 2 >= Patience

(* The last of the seconds the server process waits has begun; it is over  *)
(* a little before rcopy's timeout, or a little after.                     *)
LastSecond == silence + 1 >= Patience

(* The server process hears nothing for ten seconds: rcopy has ended or    *)
(* spins, or all it has sent in that time was lost.                        *)
PatienceEnds ==
  /\ NothingUnderWay
  /\ \/ cstate = "DONE" \/ Spinning
     \/ InSendData /\ MustWait /\ LastSecond
  /\ ServerQuits
  /\ UNCHANGED silence

\* Variant: the ten seconds are counted from the last new block.
WaitStartsOver == ServerReceives /\ silence' = IF expected' > expected THEN 0 ELSE silence

(* Whatever the server process receives, its next pollCall has the full    *)
(* ten seconds again.                                                      *)
StartOver == ServerReceives /\ silence' = 0

TimedRcopy == SecondPasses \/ (RcopyMoves /\ UNCHANGED silence)

TimedServer == PatienceEnds \/ StartOver \/ (ServerRecovers /\ UNCHANGED silence)

TimedNext ==
  TimedRcopy \/ TimedServer \/ (Exited /\ UNCHANGED silence)

TimedSpec == TimedInit /\ [][TimedNext]_timedVars

(* The fairness of Transfer: both threads are scheduled, both waits end.   *)
FairTimedSpec ==
  /\ TimedSpec
  /\ WF_timedVars(TimedRcopy)
  /\ WF_timedVars(TimedServer)

-----------------------------------------------------------------------------
(* rcopy gives up only after more errors than the timeouts it survives:    *)
(* every further timeout in a row takes another lost or corrupted packet.  *)
GivesUpOnlyAfterErrors == status = "0" => errors > MaxCount

Copied == status = "1" /\ Len(written) = Blocks

(* As long as there are no more errors than that, the copy is completed.   *)
EnoughRetries == [](errors <= MaxCount) => <>Copied

(* Ten seconds are enough for nine of one second: the server process does  *)
(* not leave an rcopy that still has a packet to send again.  (The tenth   *)
(* timeout ends rcopy, so that in the second before it nothing can be      *)
(* saved.)                                                                 *)
ServerOutlivesRcopy ==
  sstate = "DONE" => cstate = "DONE" \/ count >= MaxCount
=============================================================================
