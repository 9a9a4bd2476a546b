----------------------------- MODULE EventsInv -------------------------------
(***************************************************************************)
(* The inductive invariant of Events: how the settings and events of every *)
(* process follow from the environment and from its place in the order of  *)
(* the forks.                                                              *)
(***************************************************************************)
EXTENDS Events

\* The events of a process that has called sendtoErr_init.
Standard(e) == Append(EnvStandard(e), InfoSeqNo)
Chance(e)   == EnvChance(e) \o UserChance(e)

Proc == [state : {"NONE", "STARTED", "READY"}, standard : Seq(Event), chance : Seq(Event),
         rate : Int, seed : Int, nextSeed : Nat, debug : Int, msgNo : Nat,
         history : Nat, dropped : SUBSET Nat, flipped : SUBSET Nat]

Environment == [rate : Setting(Rates \union {Text}), seed : Setting({2, Text}),
                drop : Setting(DropLists), flip : Setting(FlipLists),
                debug : Setting(Levels \ {0, DEBUG_ON})]

\* Every variable has its type.
TypeOK ==
  /\ program \in {"rcopy", "server"}
  /\ env \in Environment
  /\ proc \in [Procs -> Proc]

\* Each process has the events and settings of the environment and of its
\* options, and the seed that its number in the order of the forks gives it.
SettingsInv ==
  \A p \in Procs :
    /\ proc[p].state = "STARTED" =>
         proc[p].standard = EnvStandard(env) /\ proc[p].chance = EnvChance(env)
    /\ proc[p].state = "READY" =>
         /\ proc[p].standard = Standard(env) /\ proc[p].chance = Chance(env)
         /\ \E r \in Rates : proc[p].rate = UserMode(Number(env.rate), r)
         /\ proc[p].seed = UserMode(Number(env.seed), RANDOM_SEED + p)
         /\ proc[p].debug = UserMode(Number(env.debug), DEBUG_ON)
    /\ proc[p].state = "STARTED" /\ p # 0 => proc[p].nextSeed = RANDOM_SEED + p
    /\ proc[p].state # "READY" =>
         proc[p].msgNo = 0 /\ proc[p].history = 0 /\ proc[p].dropped = {}

\* Processes are forked in the order of their numbers.
ForksInv ==
  /\ program = "rcopy" =>
       /\ \A c \in Procs \ {0} : proc[c].state = "NONE"
       /\ proc[0].state = "STARTED" => proc[0].nextSeed = RANDOM_SEED
       /\ proc[0].state # "NONE"
  /\ program = "server" =>
       /\ proc[0].state = "STARTED"
       /\ \E k \in 0 .. Forks :
            /\ proc[0].nextSeed = RANDOM_SEED + k
            /\ \A c \in Procs \ {0} : proc[c].state = "NONE" <=> c > k

\* Without a list no event keeps another from being performed.
HistoryInv == Listed(env.drop) = {} => AllStandardPerformed

(* At every point of a run of sendtoErr_init, forkMod and sendto_Err: what  *)
(* a process has follows from the environment, the options and its number,  *)
(* and what it has dropped and counted from its events.                     *)
IInv ==
  /\ TypeOK
  /\ SettingsInv
  /\ ForksInv
  /\ ExactlyListedDropped
  /\ HistoryInv
==============================================================================
