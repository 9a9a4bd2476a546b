------------------------------- MODULE Events --------------------------------
(***************************************************************************)
(* The error injection of libcpe464: its settings, from the environment    *)
(* and from sendtoErr_init (SettingsManager.cpp, network-hooks.c), and     *)
(* what they make of each packet sent (PacketManager.cpp, MsgEvents/).     *)
(*                                                                         *)
(* rcopy is one process that calls sendtoErr_init and sends.  The server   *)
(* forks processes that do; it never sends itself.  Both programs pass     *)
(* DROP_ON, FLIP_ON, DEBUG_ON and RSEED_OFF.  fork is forkMod in server.c, *)
(* which includes cpe464.h; bind is libc's in networks.c, which does not,  *)
(* so that CPE464_OVERRIDE_PORT is read by nobody.                         *)
(***************************************************************************)
EXTENDS Naturals, Integers, Sequences, FiniteSets

CONSTANTS
  Forks,        \* bound: processes the server forks
  MaxMsgNo,     \* bound: packets a process sends
  DropLists,    \* values of CPE464_OVERRIDE_ERR_DROP: sequences of numbers
                \* and Text
  FlipLists     \* values of CPE464_OVERRIDE_ERR_FLIP

ASSUME EventsAssumption ==
  /\ Forks \in Nat
  /\ MaxMsgNo \in Nat
  /\ DropLists \subseteq Seq(Int)
  /\ FlipLists \subseteq Seq(Int)

RANDOM_SEED == 10

\* What strtol, strtof or atol finds no number in.
Text == -2

\* An environment variable that is set has one value, one that is not none.
Setting(S) == {{}} \union { {v} : v \in S }

(* Error rates and what drand48 returns, as far as they are compared: 0    *)
(* (no errors, the lowest random number), 1, and 2 for numbers above.      *)
Rates   == {0, 1}
Randoms == 0 .. 2

\* How much is printed.
Levels   == {0, 1, 2}
DEBUG_ON == 1

Procs == 0 .. Forks

Event == [kind : {"errorDrop", "errorFlipBits", "infoSeqNo"},
          all : BOOLEAN, list : SUBSET Nat]

DropAll   == [kind |-> "errorDrop", all |-> TRUE, list |-> {}]
DropOn(l) == [kind |-> "errorDrop", all |-> FALSE, list |-> l]
FlipBits  == [kind |-> "errorFlipBits", all |-> TRUE, list |-> {}]
InfoSeqNo == [kind |-> "infoSeqNo", all |-> TRUE, list |-> {}]

VARIABLES
  program,  \* rcopy or server
  env,      \* the environment variables
  proc      \* the processes

vars == <<program, env, proc>>

-----------------------------------------------------------------------------
(* SettingsManager *)

Elements(l) == { l[i] : i \in DOMAIN l }

(* parser2ListLong stops at what is no number.                             *)
Parsed(l) == { l[i] : i \in { k \in DOMAIN l : \A j \in 1 .. k : l[j] # Text } }

(* parserLong2Uint32 keeps what is not negative.                           *)
Listed(setting) == UNION { Parsed(l) \cap Nat : l \in setting }

(* loadEnvData: a variable that holds no number is not set.                *)
Number(setting) == setting \ {Text}

(* loadEnvData_ErrDrop, loadEnvData_ErrFlip: a list is a standard event, a *)
(* variable without numbers (or with -1) a random one.  A list of packets  *)
(* to flip is not implemented: it makes no event at all.                   *)
EnvStandard(e) ==
  IF Listed(e.drop) # {} THEN <<DropOn(Listed(e.drop))>> ELSE <<>>

EnvChance(e) ==
  (IF e.drop # {} /\ Listed(e.drop) = {} THEN <<DropAll>> ELSE <<>>)
    \o (IF e.flip # {} /\ Listed(e.flip) = {} THEN <<FlipBits>> ELSE <<>>)

\* Variant: the program's option counts in any case.
UserModeAlways(setting, value) == value

(* setUserMode_*: an option of the program counts only where the           *)
(* environment does not set it.                                            *)
UserMode(setting, value) ==
  IF setting = {} THEN value ELSE CHOOSE v \in setting : TRUE

\* Variant: setUserMode_ErrDrop does not look at the environment.
UserChanceAlways(e) == <<DropAll>> \o (IF e.flip = {} THEN <<FlipBits>> ELSE <<>>)

UserChance(e) ==
  (IF e.drop = {} THEN <<DropAll>> ELSE <<>>)
    \o (IF e.flip = {} THEN <<FlipBits>> ELSE <<>>)

-----------------------------------------------------------------------------
NotStarted ==
  [state |-> "NONE", standard |-> <<>>, chance |-> <<>>, rate |-> 0,
   seed |-> 0, nextSeed |-> RANDOM_SEED, debug |-> 0, msgNo |-> 0,
   history |-> 0, dropped |-> {}, flipped |-> {}]

(* The static constructors of PacketManager and SettingsManager; the seed  *)
(* is the time until something else is set.                                *)
Init ==
  /\ program \in {"rcopy", "server"}
  /\ env \in [rate : Setting(Rates \union {Text}), seed : Setting({2, Text}),
              drop : Setting(DropLists), flip : Setting(FlipLists),
              debug : Setting(Levels \ {0, DEBUG_ON})]
  /\ proc = [p \in Procs |->
       IF p = 0 THEN [NotStarted EXCEPT !.state = "STARTED",
                        !.standard = EnvStandard(env),
                        !.chance = EnvChance(env),
                        !.rate = UserMode(Number(env.rate), 0),
                        !.seed = UserMode(Number(env.seed), 0),
                        !.debug = UserMode(Number(env.debug), 0)]
       ELSE NotStarted]

\* Variant: nextSeed is incremented after the fork, in the child.
ForkModLate(c) ==
  /\ program = "server"
  /\ proc[c].state = "NONE"
  /\ \A d \in 0 .. c - 1 : proc[d].state # "NONE"
  /\ proc' = [proc EXCEPT ![c] =
       [proc[0] EXCEPT !.seed = UserMode(Number(env.seed), proc[0].nextSeed),
                       !.nextSeed = @ + 1]]
  /\ UNCHANGED <<program, env>>

(* forkMod: the child gets a seed of its own.                              *)
ForkMod(c) ==
  /\ program = "server"
  /\ proc[c].state = "NONE"
  /\ \A d \in 0 .. c - 1 : proc[d].state # "NONE"
  /\ LET parent == [proc[0] EXCEPT !.nextSeed = @ + 1] IN
       proc' = [proc EXCEPT ![0] = parent,
                  ![c] = [parent EXCEPT !.seed = UserMode(Number(env.seed), proc[0].nextSeed)]]
  /\ UNCHANGED <<program, env>>

(* sendErr_init, with the options of rcopy.c and server.c.                 *)
SendErrInit(p) ==
  /\ proc[p].state = "STARTED"
  /\ program = "server" => p # 0
  /\ \E rate \in Rates :
       proc' = [proc EXCEPT ![p] =
         [proc[p] EXCEPT !.state = "READY",
                         !.standard = Append(@, InfoSeqNo),
                         !.chance = @ \o UserChance(env),
                         !.rate = UserMode(Number(env.rate), rate),
                         !.seed = UserMode(Number(env.seed), proc[p].nextSeed),
                         !.nextSeed = @ + 1,
                         !.debug = UserMode(Number(env.debug), DEBUG_ON)]]
  /\ UNCHANGED <<program, env>>

-----------------------------------------------------------------------------
(* PacketManager *)

(* Event e drops packet n: its result is 2.                                *)
Drops(e, n) == e.kind = "errorDrop" /\ (e.all \/ n \in e.list)

(* runMsgEvents stops at the first event that drops the packet.            *)
EventsRun(events, n) ==
  { i \in DOMAIN events : \A j \in 1 .. i - 1 : ~Drops(events[j], n) }

(* sendto_Err and processEvents: all standard events, up to one that drops *)
(* the packet; then, with the probability of the error rate, one of the    *)
(* random events.                                                          *)
SendtoErr(p) ==
  /\ proc[p].state = "READY"
  /\ proc[p].msgNo < MaxMsgNo
  /\ LET me == proc[p]
         n == me.msgNo + 1
         ran == EventsRun(me.standard, n)
         seen == Cardinality({ i \in ran : me.standard[i].kind = "infoSeqNo" })
         listed == \E i \in ran : Drops(me.standard[i], n) IN
       \E random \in Randoms :
         \E chosen \in IF me.chance # <<>> /\ random <= me.rate
                       THEN { {e} : e \in Elements(me.chance) } ELSE {{}} :
           proc' = [proc EXCEPT ![p] =
             [me EXCEPT !.msgNo = n,
                        !.history = @ + seen,
                        !.dropped = IF listed \/ \E e \in chosen : Drops(e, n)
                                    THEN @ \union {n} ELSE @,
                        !.flipped = IF FlipBits \in chosen
                                    THEN @ \union {n} ELSE @]]
  /\ UNCHANGED <<program, env>>

Next ==
  \/ \E c \in Procs : ForkMod(c)
  \/ \E p \in Procs : SendErrInit(p) \/ SendtoErr(p)

Spec == Init /\ [][Next]_vars

-----------------------------------------------------------------------------
(* CPE464_OVERRIDE_ERR_DROP with a list: each process that sends drops     *)
(* exactly the listed ones of its own packets, counted from 1, forked or   *)
(* not, although DROP_ON asks for random drops.                            *)
ExactlyListedDropped ==
  Listed(env.drop) # {} =>
    \A p \in Procs : proc[p].dropped = Listed(env.drop) \cap (1 .. proc[p].msgNo)

(* "so any child forked will have a different seed value": no two          *)
(* processes that send have the same sequence of random errors, unless     *)
(* the environment asks for it.                                            *)
SeedsDiffer ==
  Number(env.seed) = {} =>
    \A p, q \in Procs :
      p # q /\ proc[p].state = "READY" /\ proc[q].state = "READY"
        => proc[p].seed # proc[q].seed

(* The environment has precedence over the programs' options, in forked    *)
(* processes that call sendtoErr_init once more, too; and an option the    *)
(* environment does not set is the program's: DROP_ON gives one random     *)
(* drop where no packets are listed, FLIP_ON one random flip where the     *)
(* variable lists none, and neither gives any twice.                       *)
EnvironmentWins ==
  \A p \in Procs : proc[p].state = "READY" =>
    /\ Number(env.rate) # {} => env.rate = {proc[p].rate}
    /\ Number(env.seed) # {} => env.seed = {proc[p].seed}
    /\ Number(env.debug) # {} => env.debug = {proc[p].debug}
    /\ DropAll \in Elements(proc[p].chance) <=> Listed(env.drop) = {}
    /\ Listed(env.flip) = {} => FlipBits \in Elements(proc[p].chance)
    /\ Len(proc[p].chance) <= 2

-----------------------------------------------------------------------------
(* What the repository says of the library. *)

(* "When each packet is sent, all "Standard" MsgEvents will be performed": *)
(* infoSeqNo, which is one, sees every packet a process sends.  (A packet  *)
(* that is dropped by list ends runMsgEvents' loop before.)                *)
AllStandardPerformed == \A p \in Procs : proc[p].history = proc[p].msgNo
=============================================================================
