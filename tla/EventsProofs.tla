---------------------------- MODULE EventsProofs -----------------------------
(***************************************************************************)
(* The properties of Events for any number of processes and packets, and   *)
(* any lists in the environment: what sendtoErr injects is what the        *)
(* environment and the programs' options ask for.                          *)
(***************************************************************************)
EXTENDS EventsInv, FiniteSetTheorems, SequenceTheorems, TLAPS

-----------------------------------------------------------------------------
(* Settings. *)

(* A setting of the environment is used if it holds a number, and is what   *)
(* the setting is then.                                                     *)
LEMMA UserModeValue ==
  ASSUME NEW S, NEW setting \in Setting(S), NEW v
  PROVE  /\ Number(setting) = {} => UserMode(Number(setting), v) = v
         /\ Number(setting) # {} =>
              /\ setting = {UserMode(Number(setting), v)}
              /\ UserMode(Number(setting), v) \in S
<1>1. Number(setting) = {} => UserMode(Number(setting), v) = v
  BY DEF UserMode
<1>2. ASSUME Number(setting) # {}
      PROVE  /\ setting = {UserMode(Number(setting), v)}
             /\ UserMode(Number(setting), v) \in S
  <2>1. PICK w \in S : setting = {w} /\ Number(setting) = {w}
    BY <1>2 DEF Setting, Number
  <2>2. (CHOOSE x \in {w} : TRUE) = w
    OBVIOUS
  <2> QED BY <2>1, <2>2 DEF UserMode
<1> QED BY <1>1, <1>2

(* Whatever the environment, the settings are numbers.                      *)
LEMMA SettingTypes ==
  ASSUME NEW e \in Environment
  PROVE  /\ \A r \in Int : UserMode(Number(e.rate), r) \in Int
         /\ \A s \in Int : UserMode(Number(e.seed), s) \in Int
         /\ \A d \in Int : UserMode(Number(e.debug), d) \in Int
<1>1. /\ e.rate \in Setting(Rates \union {Text}) /\ e.seed \in Setting({2, Text})
      /\ e.debug \in Setting(Levels \ {0, DEBUG_ON})
  BY DEF Environment
<1>2. Rates \union {Text} \subseteq Int /\ {2, Text} \subseteq Int /\ Levels \ {0, DEBUG_ON} \subseteq Int
  BY DEF Rates, Text, Levels
<1> QED BY <1>1, <1>2, UserModeValue

(* The packets to drop are numbers; a variable that is not set lists none.  *)
LEMMA ListedType ==
  ASSUME NEW setting
  PROVE  Listed(setting) \subseteq Nat /\ (setting = {} => Listed(setting) = {})
  BY DEF Listed

-----------------------------------------------------------------------------
(* Events. *)

LEMMA EventTypes ==
  /\ DropAll \in Event /\ FlipBits \in Event /\ InfoSeqNo \in Event
  /\ \A l \in SUBSET Nat : DropOn(l) \in Event
  /\ DropAll # FlipBits
  BY DEF DropAll, FlipBits, InfoSeqNo, DropOn, Event

(* A list of one event and a list of two.                                   *)
LEMMA TwoEvents ==
  ASSUME NEW a \in Event, NEW b \in Event
  PROVE  /\ <<a>> \in Seq(Event) /\ <<a, b>> \in Seq(Event)
         /\ Append(<<a>>, b) = <<a, b>> /\ <<a>> \o <<b>> = <<a, b>>
<1>1. <<a>> \in Seq(Event) /\ <<a, b>> \in Seq(Event) /\ Append(<<a>>, b) = <<a, b>>
  <2>1. <<a>> \in Seq(Event)
    OBVIOUS
  <2>2. <<a, b>> \in Seq(Event)
    OBVIOUS
  <2>3. Append(<<a>>, b) = <<a, b>>
    <3> DEFINE s == <<a>>
               t == Append(<<a>>, b)
               u == <<a, b>>
    <3>1. Len(s) = 1 /\ s[1] = a /\ s \in Seq(Event)
      BY <2>1
    <3>2. Len(u) = 2 /\ u[1] = a /\ u[2] = b
      OBVIOUS
    <3>3. t \in Seq(Event) /\ Len(t) = 2 /\ t[1] = a /\ t[2] = b
      BY <3>1, AppendProperties
    <3> HIDE DEF s, t, u
    <3>4. \A i \in 1 .. Len(t) : t[i] = u[i]
      BY <3>2, <3>3
    <3>5. t = u
      BY <2>2, <3>2, <3>3, <3>4, SeqEqual DEF u
    <3> QED BY <3>5 DEF t, u
  <2> QED BY <2>1, <2>2, <2>3
<1>2. <<a>> \o <<b>> = Append(<<a>>, b)
  BY <1>1, AppendIsConcat
<1> QED BY <1>1, <1>2

(* The standard events: the drops that are listed, then the counting.       *)
LEMMA StandardEvents ==
  ASSUME NEW e
  PROVE  /\ EnvStandard(e) \in Seq(Event) /\ Standard(e) \in Seq(Event)
         /\ Listed(e.drop) = {} => Standard(e) = <<InfoSeqNo>>
         /\ Listed(e.drop) # {} => Standard(e) = <<DropOn(Listed(e.drop)), InfoSeqNo>>
<1>1. Listed(e.drop) \in SUBSET Nat
  BY ListedType
<1>2. CASE Listed(e.drop) = {}
  BY <1>2, EventTypes DEF EnvStandard, Standard
<1>3. CASE Listed(e.drop) # {}
  <2>1. EnvStandard(e) = <<DropOn(Listed(e.drop))>> /\ DropOn(Listed(e.drop)) \in Event
    BY <1>1, <1>3, EventTypes DEF EnvStandard
  <2>2. Standard(e) = Append(EnvStandard(e), InfoSeqNo) /\ InfoSeqNo \in Event
    BY EventTypes DEF Standard
  <2> QED BY <1>3, <2>1, <2>2, TwoEvents
<1> QED BY <1>2, <1>3

(* The random events: drops and flips, each once, from the environment or   *)
(* from the program's options, and each unless packets are listed for it.   *)
LEMMA ChanceEvents ==
  ASSUME NEW e
  PROVE  /\ EnvChance(e) \in Seq(Event) /\ Chance(e) \in Seq(Event)
         /\ Elements(Chance(e)) \subseteq {DropAll, FlipBits}
         /\ DropAll \in Elements(Chance(e)) <=> Listed(e.drop) = {}
         /\ FlipBits \in Elements(Chance(e)) <=> Listed(e.flip) = {}
         /\ Len(Chance(e)) <= 2
<1> DEFINE x == IF e.drop # {} /\ Listed(e.drop) = {} THEN <<DropAll>> ELSE <<>>
           y == IF e.flip # {} /\ Listed(e.flip) = {} THEN <<FlipBits>> ELSE <<>>
           z == IF e.drop = {} THEN <<DropAll>> ELSE <<>>
           w == IF e.flip = {} THEN <<FlipBits>> ELSE <<>>
<1>1. EnvChance(e) = x \o y /\ UserChance(e) = z \o w
  BY DEF EnvChance, UserChance
<1>2. \/ x = <<DropAll>> /\ z = <<>> /\ Listed(e.drop) = {}
      \/ x = <<>> /\ z = <<DropAll>> /\ Listed(e.drop) = {}
      \/ x = <<>> /\ z = <<>> /\ Listed(e.drop) # {}
  BY ListedType
<1>3. \/ y = <<FlipBits>> /\ w = <<>> /\ Listed(e.flip) = {}
      \/ y = <<>> /\ w = <<FlipBits>> /\ Listed(e.flip) = {}
      \/ y = <<>> /\ w = <<>> /\ Listed(e.flip) # {}
  BY ListedType
<1> HIDE DEF x, y, z, w
<1>4. /\ <<DropAll>> \in Seq(Event) /\ <<FlipBits>> \in Seq(Event) /\ <<>> \in Seq(Event)
  BY EventTypes
<1>5. \A s \in Seq(Event) : <<>> \o s = s /\ s \o <<>> = s
  BY ConcatEmptySeq
<1>6. <<DropAll>> \o <<FlipBits>> = <<DropAll, FlipBits>>
      /\ <<FlipBits>> \o <<DropAll>> = <<FlipBits, DropAll>>
  BY EventTypes, TwoEvents
<1>7. /\ x \in Seq(Event) /\ y \in Seq(Event) /\ z \in Seq(Event) /\ w \in Seq(Event)
      /\ x \o y \in Seq(Event) /\ z \o w \in Seq(Event) /\ (x \o y) \o (z \o w) \in Seq(Event)
  BY <1>2, <1>3, <1>4, ConcatProperties
<1>8. \/ /\ Chance(e) = <<>> /\ Listed(e.drop) # {} /\ Listed(e.flip) # {}
      \/ /\ Chance(e) = <<DropAll>> /\ Listed(e.drop) = {} /\ Listed(e.flip) # {}
      \/ /\ Chance(e) = <<FlipBits>> /\ Listed(e.drop) # {} /\ Listed(e.flip) = {}
      \/ /\ Chance(e) \in {<<DropAll, FlipBits>>, <<FlipBits, DropAll>>}
         /\ Listed(e.drop) = {} /\ Listed(e.flip) = {}
  <2>1. Chance(e) = (x \o y) \o (z \o w)
    BY <1>1 DEF Chance
  <2>2. <<DropAll, FlipBits>> \in Seq(Event) /\ <<FlipBits, DropAll>> \in Seq(Event)
    BY EventTypes
  <2> QED BY <1>2, <1>3, <1>4, <1>5, <1>6, <2>1, <2>2
<1>9. /\ Elements(<<>>) = {} /\ Elements(<<DropAll>>) = {DropAll}
      /\ Elements(<<FlipBits>>) = {FlipBits}
      /\ Elements(<<DropAll, FlipBits>>) = {DropAll, FlipBits}
      /\ Elements(<<FlipBits, DropAll>>) = {DropAll, FlipBits}
  BY DEF Elements
<1>10. /\ Len(<<>>) = 0 /\ Len(<<DropAll>>) = 1 /\ Len(<<FlipBits>>) = 1
       /\ Len(<<DropAll, FlipBits>>) = 2 /\ Len(<<FlipBits, DropAll>>) = 2
  OBVIOUS
<1>11. EnvChance(e) \in Seq(Event) /\ Chance(e) \in Seq(Event)
  BY <1>1, <1>7 DEF Chance
<1>12. Len(Chance(e)) <= 2
  <2>1. Len(Chance(e)) \in {0, 1, 2}
    BY <1>8, <1>10
  <2>2. \A m \in {0, 1, 2} : m <= 2
    OBVIOUS
  <2> QED BY <2>1, <2>2
<1> QED BY <1>8, <1>9, <1>11, <1>12, EventTypes

(* Of the standard events a listed packet meets only the one that drops it. *)
LEMMA StandardRun ==
  ASSUME NEW e, NEW s, s = Standard(e), NEW n \in Nat
  PROVE  /\ (\E i \in EventsRun(s, n) : Drops(s[i], n)) <=> n \in Listed(e.drop)
         /\ Cardinality({ i \in EventsRun(s, n) : s[i].kind = "infoSeqNo" })
              = IF n \in Listed(e.drop) THEN 0 ELSE 1
<1> DEFINE seen == { i \in EventsRun(s, n) : s[i].kind = "infoSeqNo" }
<1>1. ~Drops(InfoSeqNo, n) /\ InfoSeqNo.kind = "infoSeqNo"
      /\ \A l : (Drops(DropOn(l), n) <=> n \in l) /\ DropOn(l).kind # "infoSeqNo"
  BY DEF Drops, InfoSeqNo, DropOn
<1>2. Cardinality({}) = 0 /\ Cardinality({1}) = 1 /\ Cardinality({2}) = 1
  BY FS_EmptySet, FS_Singleton
<1>3. CASE Listed(e.drop) = {}
  <2>1. s = <<InfoSeqNo>>
    BY <1>3, StandardEvents
  <2>2. DOMAIN s = {1} /\ s[1] = InfoSeqNo
    BY <2>1
  <2>3. EventsRun(s, n) = {1}
    BY <2>2 DEF EventsRun
  <2>4. seen = {1}
    BY <1>1, <2>2, <2>3
  <2> QED BY <1>1, <1>2, <1>3, <2>2, <2>3, <2>4
<1>4. CASE Listed(e.drop) # {}
  <2>1. s = <<DropOn(Listed(e.drop)), InfoSeqNo>>
    BY <1>4, StandardEvents
  <2>2. DOMAIN s = {1, 2} /\ s[1] = DropOn(Listed(e.drop)) /\ s[2] = InfoSeqNo
    BY <2>1
  <2>3. CASE n \in Listed(e.drop)
    <3>1. EventsRun(s, n) = {1}
      <4>1. 1 \in EventsRun(s, n)
        BY <2>2 DEF EventsRun
      <4>2. 2 \notin EventsRun(s, n)
        BY <1>1, <2>2, <2>3 DEF EventsRun
      <4> QED BY <2>2, <4>1, <4>2 DEF EventsRun
    <3>2. seen = {}
      BY <1>1, <2>2, <3>1
    <3>3. \E i \in EventsRun(s, n) : Drops(s[i], n)
      BY <1>1, <2>2, <2>3, <3>1
    <3> HIDE DEF seen
    <3> QED BY <1>2, <2>3, <3>2, <3>3 DEF seen
  <2>4. CASE n \notin Listed(e.drop)
    <3>1. EventsRun(s, n) = {1, 2}
      BY <1>1, <2>2, <2>4 DEF EventsRun
    <3>2. seen = {2}
      BY <1>1, <2>2, <3>1
    <3>3. \A i \in EventsRun(s, n) : ~Drops(s[i], n)
      BY <1>1, <2>2, <2>4, <3>1
    <3> HIDE DEF seen
    <3> QED BY <1>2, <2>4, <3>2, <3>3 DEF seen
  <2> QED BY <2>3, <2>4
<1> QED BY <1>3, <1>4

-----------------------------------------------------------------------------
(* The invariant. *)

LEMMA InitEvents == Init => IInv
<1> SUFFICES ASSUME Init
             PROVE  IInv
  OBVIOUS
<1> DEFINE started == [NotStarted EXCEPT !.state = "STARTED",
                         !.standard = EnvStandard(env),
                         !.chance = EnvChance(env),
                         !.rate = UserMode(Number(env.rate), 0),
                         !.seed = UserMode(Number(env.seed), 0),
                         !.debug = UserMode(Number(env.debug), 0)]
<1>1. /\ program \in {"rcopy", "server"} /\ env \in Environment
      /\ proc = [p \in Procs |-> IF p = 0 THEN started ELSE NotStarted]
  BY DEF Init, Environment
<1>2. 0 \in Procs
  BY EventsAssumption DEF Procs
<1>3. UserMode(Number(env.rate), 0) \in Int /\ UserMode(Number(env.seed), 0) \in Int
      /\ UserMode(Number(env.debug), 0) \in Int
  <2>1. /\ \A r \in Int : UserMode(Number(env.rate), r) \in Int
        /\ \A s \in Int : UserMode(Number(env.seed), s) \in Int
        /\ \A d \in Int : UserMode(Number(env.debug), d) \in Int
    BY <1>1, SettingTypes
  <2>2. 0 \in Int
    OBVIOUS
  <2> QED BY <2>1, <2>2
<1>4. EnvStandard(env) \in Seq(Event) /\ EnvChance(env) \in Seq(Event) /\ <<>> \in Seq(Event)
  BY StandardEvents, ChanceEvents, EventTypes
<1>5. NotStarted \in Proc
  BY <1>4 DEF NotStarted, Proc, RANDOM_SEED
<1>6. started \in Proc
  BY <1>3, <1>4 DEF NotStarted, Proc, RANDOM_SEED
<1>7. /\ started.state = "STARTED" /\ started.standard = EnvStandard(env)
      /\ started.chance = EnvChance(env) /\ started.nextSeed = RANDOM_SEED
      /\ started.msgNo = 0 /\ started.history = 0 /\ started.dropped = {}
  BY DEF NotStarted
<1>8. /\ NotStarted.state = "NONE" /\ NotStarted.msgNo = 0 /\ NotStarted.history = 0
      /\ NotStarted.dropped = {}
  BY DEF NotStarted
<1> HIDE DEF started
<1>9. /\ proc[0] = started
      /\ \A p \in Procs \ {0} : proc[p] = NotStarted
  BY <1>1, <1>2
<1>10. \A p \in Procs : proc[p].msgNo = 0 /\ proc[p].history = 0 /\ proc[p].dropped = {}
  BY <1>7, <1>8, <1>9
<1>11. TypeOK
  BY <1>1, <1>5, <1>6 DEF TypeOK
<1>12. SettingsInv
  BY <1>7, <1>8, <1>9 DEF SettingsInv
<1>13. ForksInv
  <2>1. program = "server" =>
          \E k \in 0 .. Forks :
            /\ proc[0].nextSeed = RANDOM_SEED + k
            /\ \A c \in Procs \ {0} : proc[c].state = "NONE" <=> c > k
    <3>1. 0 \in 0 .. Forks /\ RANDOM_SEED + 0 = RANDOM_SEED /\ \A c \in Procs \ {0} : c > 0
      BY EventsAssumption DEF RANDOM_SEED, Procs
    <3>2. proc[0].nextSeed = RANDOM_SEED + 0
      BY <1>7, <1>9, <3>1
    <3>3. \A c \in Procs \ {0} : proc[c].state = "NONE" <=> c > 0
      BY <1>8, <1>9, <3>1
    <3> QED BY <3>1, <3>2, <3>3
  <2>2. /\ \A c \in Procs \ {0} : proc[c].state = "NONE"
        /\ proc[0].state = "STARTED" /\ proc[0].nextSeed = RANDOM_SEED
    BY <1>7, <1>8, <1>9
  <2>3. proc[0].state # "NONE"
    BY <2>2
  <2> QED BY <2>1, <2>2, <2>3 DEF ForksInv
<1>14. ExactlyListedDropped
  <2>1. 1 .. 0 = {}
    OBVIOUS
  <2> QED BY <1>10, <2>1 DEF ExactlyListedDropped
<1>15. HistoryInv
  BY <1>10 DEF HistoryInv, AllStandardPerformed
<1> QED BY <1>11, <1>12, <1>13, <1>14, <1>15 DEF IInv

(* The child is the next process, has the settings of the server and the    *)
(* seed of its number.                                                      *)
LEMMA ForkKeeps ==
  ASSUME IInv, NEW c \in Procs, ForkMod(c)
  PROVE  IInv'
<1> DEFINE parent == [proc[0] EXCEPT !.nextSeed = @ + 1]
           child  == [parent EXCEPT !.seed = UserMode(Number(env.seed), proc[0].nextSeed)]
<1>1. /\ program = "server" /\ proc[c].state = "NONE"
      /\ \A d \in 0 .. c - 1 : proc[d].state # "NONE"
      /\ proc' = [proc EXCEPT ![0] = parent, ![c] = child]
      /\ program' = program /\ env' = env
  BY DEF ForkMod
<1>2. proc \in [Procs -> Proc] /\ env \in Environment
  BY DEF IInv, TypeOK
<1>3. 0 \in Procs /\ proc[0] \in Proc
  BY <1>2, EventsAssumption DEF Procs
<1>4. proc[0].state = "STARTED" /\ c # 0
  BY <1>1 DEF IInv, ForksInv
<1>5. PICK k \in 0 .. Forks :
        /\ proc[0].nextSeed = RANDOM_SEED + k
        /\ \A d \in Procs \ {0} : proc[d].state = "NONE" <=> d > k
  BY <1>1 DEF IInv, ForksInv
<1>6. c = k + 1 /\ c \in 0 .. Forks
  <2>1. c > k /\ c \in 0 .. Forks
    BY <1>1, <1>4, <1>5 DEF Procs
  <2>2. CASE c > k + 1
    <3>1. c - 1 \in Procs \ {0} /\ c - 1 \in 0 .. c - 1 /\ c - 1 > k
      BY <2>1, <2>2, EventsAssumption DEF Procs
    <3> QED BY <1>1, <1>5, <3>1
  <2> QED BY <2>1, <2>2, EventsAssumption
<1>7. RANDOM_SEED + k \in Nat /\ RANDOM_SEED + k \in Int /\ RANDOM_SEED + k + 1 = RANDOM_SEED + c
      /\ RANDOM_SEED + c \in Nat
  BY <1>6 DEF RANDOM_SEED
<1>8. UserMode(Number(env.seed), proc[0].nextSeed) \in Int
  BY <1>2, <1>5, <1>7, SettingTypes
<1>9. parent \in Proc
  BY <1>3, <1>5, <1>7 DEF Proc
<1>10. child \in Proc
  BY <1>8, <1>9 DEF Proc
<1>11. /\ parent.state = "STARTED" /\ parent.standard = proc[0].standard
       /\ parent.chance = proc[0].chance /\ parent.nextSeed = RANDOM_SEED + c
       /\ parent.msgNo = proc[0].msgNo /\ parent.history = proc[0].history
       /\ parent.dropped = proc[0].dropped
  BY <1>3, <1>4, <1>5, <1>7 DEF Proc
<1>12. /\ child.state = "STARTED" /\ child.standard = proc[0].standard
       /\ child.chance = proc[0].chance /\ child.nextSeed = RANDOM_SEED + c
       /\ child.msgNo = proc[0].msgNo /\ child.history = proc[0].history
       /\ child.dropped = proc[0].dropped
  BY <1>9, <1>11 DEF Proc
<1> HIDE DEF parent, child
<1>13. /\ proc'[0] = parent /\ proc'[c] = child
       /\ \A p \in Procs \ {0, c} : proc'[p] = proc[p]
  BY <1>1, <1>2, <1>3, <1>4
<1>14. TypeOK'
  BY <1>1, <1>2, <1>9, <1>10 DEF IInv, TypeOK
<1>15. SettingsInv'
  <2>1. /\ proc[0].standard = EnvStandard(env) /\ proc[0].chance = EnvChance(env)
        /\ proc[0].msgNo = 0 /\ proc[0].history = 0 /\ proc[0].dropped = {}
    BY <1>3, <1>4 DEF IInv, SettingsInv
  <2> SUFFICES ASSUME NEW p \in Procs
               PROVE  /\ proc'[p].state = "STARTED" =>
                           proc'[p].standard = EnvStandard(env) /\ proc'[p].chance = EnvChance(env)
                      /\ proc'[p].state = "READY" =>
                           /\ proc'[p].standard = Standard(env) /\ proc'[p].chance = Chance(env)
                           /\ \E r \in Rates : proc'[p].rate = UserMode(Number(env.rate), r)
                           /\ proc'[p].seed = UserMode(Number(env.seed), RANDOM_SEED + p)
                           /\ proc'[p].debug = UserMode(Number(env.debug), DEBUG_ON)
                      /\ proc'[p].state = "STARTED" /\ p # 0 =>
                           proc'[p].nextSeed = RANDOM_SEED + p
                      /\ proc'[p].state # "READY" =>
                           proc'[p].msgNo = 0 /\ proc'[p].history = 0 /\ proc'[p].dropped = {}
    BY <1>1, ZenonT(60) DEF SettingsInv
  <2>2. CASE p = 0
    BY <1>11, <1>13, <2>1, <2>2
  <2>3. CASE p = c
    BY <1>12, <1>13, <2>1, <2>3
  <2>4. CASE p \notin {0, c}
    <3>1. proc'[p] = proc[p]
      BY <1>13, <2>4
    <3> QED BY <3>1 DEF IInv, SettingsInv
  <2> QED BY <2>2, <2>3, <2>4
<1>16. ForksInv'
  <2>1. \A d \in Procs \ {0} : proc'[d].state = "NONE" <=> d > c
    <3> SUFFICES ASSUME NEW d \in Procs \ {0}
                 PROVE  proc'[d].state = "NONE" <=> d > c
      OBVIOUS
    <3>1. d \in Int /\ c \in Int /\ k \in Int
      BY DEF Procs
    <3>2. CASE d = c
      BY <1>12, <1>13, <3>1, <3>2
    <3>3. CASE d # c
      <4>1. proc'[d] = proc[d] /\ (proc[d].state = "NONE" <=> d > k)
        BY <1>5, <1>13, <3>3
      <4>2. d > k <=> d > c
        BY <1>6, <3>1, <3>3
      <4> QED BY <4>1, <4>2
    <3> QED BY <3>2, <3>3
  <2>2. proc'[0].state = "STARTED" /\ proc'[0].nextSeed = RANDOM_SEED + c
    BY <1>11, <1>13
  <2>3. program' # "rcopy"
    BY <1>1
  <2> QED BY <1>6, <2>1, <2>2, <2>3 DEF ForksInv
<1>17. \A p \in Procs : \E q \in Procs :
         /\ proc'[p].msgNo = proc[q].msgNo /\ proc'[p].history = proc[q].history
         /\ proc'[p].dropped = proc[q].dropped
  <2> SUFFICES ASSUME NEW p \in Procs
               PROVE  \E q \in Procs :
                        /\ proc'[p].msgNo = proc[q].msgNo /\ proc'[p].history = proc[q].history
                        /\ proc'[p].dropped = proc[q].dropped
    OBVIOUS
  <2>1. CASE p \in {0, c}
    BY <1>3, <1>11, <1>12, <1>13, <2>1
  <2>2. CASE p \notin {0, c}
    BY <1>13, <2>2
  <2> QED BY <2>1, <2>2
<1>18. ExactlyListedDropped'
  <2> SUFFICES ASSUME Listed(env.drop) # {}, NEW p \in Procs
               PROVE  proc'[p].dropped = Listed(env.drop) \cap (1 .. proc'[p].msgNo)
    BY <1>1 DEF ExactlyListedDropped
  <2> QED BY <1>17 DEF IInv, ExactlyListedDropped
<1>19. HistoryInv'
  <2> SUFFICES ASSUME Listed(env.drop) = {}, NEW p \in Procs
               PROVE  proc'[p].history = proc'[p].msgNo
    BY <1>1 DEF HistoryInv, AllStandardPerformed
  <2> QED BY <1>17 DEF IInv, HistoryInv, AllStandardPerformed
<1> QED BY <1>14, <1>15, <1>16, <1>18, <1>19 DEF IInv

(* The program's options complete the settings of the environment.          *)
LEMMA InitKeeps ==
  ASSUME IInv, NEW p \in Procs, SendErrInit(p)
  PROVE  IInv'
<1>1. PICK rate \in Rates :
        proc' = [proc EXCEPT ![p] =
          [proc[p] EXCEPT !.state = "READY",
                          !.standard = Append(@, InfoSeqNo),
                          !.chance = @ \o UserChance(env),
                          !.rate = UserMode(Number(env.rate), rate),
                          !.seed = UserMode(Number(env.seed), proc[p].nextSeed),
                          !.nextSeed = @ + 1,
                          !.debug = UserMode(Number(env.debug), DEBUG_ON)]]
  BY DEF SendErrInit
<1>2. /\ proc[p].state = "STARTED" /\ (program = "server" => p # 0)
      /\ program' = program /\ env' = env
  BY DEF SendErrInit
<1>3. proc \in [Procs -> Proc] /\ env \in Environment /\ program \in {"rcopy", "server"}
      /\ proc[p] \in Proc
  BY DEF IInv, TypeOK
<1>4. proc[p].nextSeed = RANDOM_SEED + p
  <2>1. CASE p # 0
    BY <1>2, <2>1 DEF IInv, SettingsInv
  <2>2. CASE p = 0
    BY <1>2, <1>3, <2>2 DEF IInv, ForksInv, RANDOM_SEED
  <2> QED BY <2>1, <2>2
<1>5. /\ proc[p].standard = EnvStandard(env) /\ proc[p].chance = EnvChance(env)
      /\ proc[p].msgNo = 0 /\ proc[p].history = 0 /\ proc[p].dropped = {}
  BY <1>2 DEF IInv, SettingsInv
<1> DEFINE seed   == UserMode(Number(env.seed), RANDOM_SEED + p)
           debug  == UserMode(Number(env.debug), DEBUG_ON)
           chosen == UserMode(Number(env.rate), rate)
           me     == [proc[p] EXCEPT !.state = "READY", !.standard = Standard(env),
                        !.chance = Chance(env), !.rate = chosen, !.seed = seed,
                        !.nextSeed = @ + 1, !.debug = debug]
<1>6. proc' = [proc EXCEPT ![p] = me]
  <2>1. /\ Append(proc[p].standard, InfoSeqNo) = Standard(env)
        /\ proc[p].chance \o UserChance(env) = Chance(env)
        /\ UserMode(Number(env.seed), proc[p].nextSeed) = seed
    BY <1>4, <1>5 DEF Standard, Chance
  <2> HIDE DEF seed
  <2> QED BY <1>1, <2>1
<1>7. seed \in Int /\ debug \in Int /\ chosen \in Int
  <2>1. RANDOM_SEED + p \in Int /\ DEBUG_ON \in Int /\ rate \in Int
    BY DEF RANDOM_SEED, DEBUG_ON, Rates, Procs
  <2> QED BY <1>3, <2>1, SettingTypes
<1>8. Standard(env) \in Seq(Event) /\ Chance(env) \in Seq(Event)
  BY StandardEvents, ChanceEvents
<1> HIDE DEF seed, debug, chosen
<1>9. me \in Proc
  <2>1. proc[p].nextSeed + 1 \in Nat
    BY <1>3 DEF Proc
  <2> QED BY <1>3, <1>7, <1>8, <2>1 DEF Proc
<1>10. /\ me.state = "READY" /\ me.standard = Standard(env) /\ me.chance = Chance(env)
       /\ me.rate = chosen /\ me.seed = seed /\ me.debug = debug
       /\ me.msgNo = proc[p].msgNo /\ me.history = proc[p].history /\ me.dropped = proc[p].dropped
  BY <1>3 DEF Proc
<1> HIDE DEF me
<1>11. proc'[p] = me /\ \A q \in Procs \ {p} : proc'[q] = proc[q]
  BY <1>3, <1>6
<1>12. TypeOK'
  BY <1>2, <1>3, <1>6, <1>9 DEF IInv, TypeOK
<1>13. SettingsInv'
  <2>1. \E r \in Rates : me.rate = UserMode(Number(env.rate), r)
    BY <1>10 DEF chosen
  <2>2. me.seed = UserMode(Number(env.seed), RANDOM_SEED + p)
        /\ me.debug = UserMode(Number(env.debug), DEBUG_ON)
    BY <1>10 DEF seed, debug
  <2> QED BY <1>2, <1>10, <1>11, <2>1, <2>2 DEF IInv, SettingsInv
<1>14. ForksInv'
  <2>1. CASE program = "rcopy"
    <3>1. p = 0
      BY <1>2, <2>1 DEF IInv, ForksInv
    <3> QED BY <1>2, <1>10, <1>11, <2>1, <3>1 DEF IInv, ForksInv
  <2>2. CASE program = "server"
    <3>1. 0 \in Procs \ {p}
      BY <1>2, <2>2, EventsAssumption DEF Procs
    <3>2. proc'[0] = proc[0] /\ \A c \in Procs : proc'[c].state = "NONE" <=> proc[c].state = "NONE"
      BY <1>2, <1>10, <1>11, <3>1
    <3> QED BY <1>2, <2>2, <3>2 DEF IInv, ForksInv
  <2> QED BY <1>3, <2>1, <2>2
<1>15. \A q \in Procs : /\ proc'[q].msgNo = proc[q].msgNo /\ proc'[q].history = proc[q].history
                        /\ proc'[q].dropped = proc[q].dropped
  BY <1>10, <1>11
<1>16. ExactlyListedDropped' /\ HistoryInv'
  BY <1>2, <1>15 DEF IInv, ExactlyListedDropped, HistoryInv, AllStandardPerformed
<1> QED BY <1>12, <1>13, <1>14, <1>16 DEF IInv

(* A packet more: dropped if it is listed, and counted if not.              *)
LEMMA SendKeeps ==
  ASSUME IInv, NEW p \in Procs, SendtoErr(p)
  PROVE  IInv'
<1> DEFINE me     == proc[p]
           n      == me.msgNo + 1
           ran    == EventsRun(me.standard, n)
           seen   == Cardinality({ i \in ran : me.standard[i].kind = "infoSeqNo" })
           listed == \E i \in ran : Drops(me.standard[i], n)
<1>1. PICK random \in Randoms :
        \E chosen \in IF me.chance # <<>> /\ random <= me.rate
                      THEN { {e} : e \in Elements(me.chance) } ELSE {{}} :
          proc' = [proc EXCEPT ![p] =
            [me EXCEPT !.msgNo = n,
                       !.history = @ + seen,
                       !.dropped = IF listed \/ \E e \in chosen : Drops(e, n)
                                   THEN @ \union {n} ELSE @,
                       !.flipped = IF FlipBits \in chosen
                                   THEN @ \union {n} ELSE @]]
  BY DEF SendtoErr
<1> HIDE DEF n, ran, seen, listed
<1>2. PICK chosen \in IF me.chance # <<>> /\ random <= me.rate
                      THEN { {e} : e \in Elements(me.chance) } ELSE {{}} :
          proc' = [proc EXCEPT ![p] =
            [me EXCEPT !.msgNo = n,
                       !.history = @ + seen,
                       !.dropped = IF listed \/ \E e \in chosen : Drops(e, n)
                                   THEN @ \union {n} ELSE @,
                       !.flipped = IF FlipBits \in chosen
                                   THEN @ \union {n} ELSE @]]
  BY <1>1
<1>3. /\ me.state = "READY"
      /\ program' = program /\ env' = env
  BY DEF SendtoErr
<1>4. proc \in [Procs -> Proc] /\ me \in Proc
  BY DEF IInv, TypeOK
<1>5. me.standard = Standard(env) /\ me.chance = Chance(env)
  BY <1>3 DEF IInv, SettingsInv
<1>6. n \in Nat /\ me.msgNo \in Nat /\ me.history \in Nat /\ me.dropped \in SUBSET Nat
      /\ me.flipped \in SUBSET Nat
  BY <1>4 DEF Proc, n
<1>7. (listed <=> n \in Listed(env.drop)) /\ seen = IF n \in Listed(env.drop) THEN 0 ELSE 1
  BY <1>5, <1>6, StandardRun DEF listed, seen, ran
<1> DEFINE droppedNow == listed \/ \E e \in chosen : Drops(e, n)
           flippedNow == FlipBits \in chosen
           next == [me EXCEPT !.msgNo = n,
                      !.history = me.history + seen,
                      !.dropped = IF droppedNow THEN me.dropped \union {n} ELSE me.dropped,
                      !.flipped = IF flippedNow THEN me.flipped \union {n} ELSE me.flipped]
<1>8. proc' = [proc EXCEPT ![p] = next]
  BY <1>2
<1>9. Listed(env.drop) # {} => (droppedNow <=> n \in Listed(env.drop))
  <2> SUFFICES ASSUME Listed(env.drop) # {}, NEW e \in chosen, Drops(e, n)
               PROVE  FALSE
    BY <1>7
  <2>1. e \in Elements(Chance(env))
    BY <1>5
  <2>2. e = FlipBits
    BY <2>1, ChanceEvents
  <2> QED BY <2>2 DEF Drops, FlipBits
<1> HIDE DEF droppedNow, flippedNow
<1>10. seen \in Nat /\ me.history + seen \in Nat
  BY <1>6, <1>7
<1>11. next \in Proc
  <2>1. /\ (IF droppedNow THEN me.dropped \union {n} ELSE me.dropped) \in SUBSET Nat
        /\ (IF flippedNow THEN me.flipped \union {n} ELSE me.flipped) \in SUBSET Nat
    BY <1>6
  <2> QED BY <1>4, <1>6, <1>10, <2>1 DEF Proc
<1>12. /\ next.state = "READY" /\ next.standard = me.standard /\ next.chance = me.chance
       /\ next.rate = me.rate /\ next.seed = me.seed /\ next.debug = me.debug
       /\ next.nextSeed = me.nextSeed /\ next.msgNo = n /\ next.history = me.history + seen
       /\ next.dropped = IF droppedNow THEN me.dropped \union {n} ELSE me.dropped
  BY <1>3, <1>4 DEF Proc
<1> HIDE DEF next
<1>13. proc'[p] = next /\ \A q \in Procs \ {p} : proc'[q] = proc[q]
  BY <1>4, <1>8
<1>14. TypeOK'
  BY <1>3, <1>4, <1>8, <1>11 DEF IInv, TypeOK
<1>15. SettingsInv'
  BY <1>3, <1>12, <1>13 DEF IInv, SettingsInv
<1>16. ForksInv'
  <2>1. 0 \in Procs
    BY EventsAssumption DEF Procs
  <2>2. \A q \in Procs : proc'[q].state = proc[q].state /\ proc'[q].nextSeed = proc[q].nextSeed
    BY <1>3, <1>12, <1>13
  <2> QED BY <1>3, <2>1, <2>2 DEF IInv, ForksInv
<1>17. ExactlyListedDropped'
  <2> SUFFICES ASSUME Listed(env.drop) # {}, NEW q \in Procs
               PROVE  proc'[q].dropped = Listed(env.drop) \cap (1 .. proc'[q].msgNo)
    BY <1>3 DEF ExactlyListedDropped
  <2>1. proc[q].dropped = Listed(env.drop) \cap (1 .. proc[q].msgNo)
    BY DEF IInv, ExactlyListedDropped
  <2>2. CASE q = p
    <3>1. 1 .. n = (1 .. me.msgNo) \union {n}
      BY <1>6 DEF n
    <3> QED BY <1>9, <1>12, <1>13, <2>1, <2>2, <3>1
  <2>3. CASE q # p
    BY <1>13, <2>1, <2>3
  <2> QED BY <2>2, <2>3
<1>18. HistoryInv'
  <2> SUFFICES ASSUME Listed(env.drop) = {}, NEW q \in Procs
               PROVE  proc'[q].history = proc'[q].msgNo
    BY <1>3 DEF HistoryInv, AllStandardPerformed
  <2>1. proc[q].history = proc[q].msgNo
    BY DEF IInv, HistoryInv, AllStandardPerformed
  <2>2. seen = 1
    BY <1>7
  <2>3. CASE q = p
    BY <1>12, <1>13, <2>1, <2>2, <2>3 DEF n
  <2>4. CASE q # p
    BY <1>13, <2>1, <2>4
  <2> QED BY <2>3, <2>4
<1> QED BY <1>14, <1>15, <1>16, <1>17, <1>18 DEF IInv

LEMMA NextEvents == IInv /\ [Next]_vars => IInv'
<1> SUFFICES ASSUME IInv, [Next]_vars
             PROVE  IInv'
  OBVIOUS
<1>1. ASSUME NEW c \in Procs, ForkMod(c) PROVE IInv'
  BY <1>1, ForkKeeps
<1>2. ASSUME NEW p \in Procs, SendErrInit(p) PROVE IInv'
  BY <1>2, InitKeeps
<1>3. ASSUME NEW p \in Procs, SendtoErr(p) PROVE IInv'
  BY <1>3, SendKeeps
<1>4. CASE UNCHANGED vars
  BY <1>4 DEF vars, IInv, TypeOK, SettingsInv, ForksInv,
       ExactlyListedDropped, HistoryInv, AllStandardPerformed
<1> QED BY <1>1, <1>2, <1>3, <1>4 DEF Next

(* The invariant of the settings, of the forks and of what is injected.     *)
THEOREM SettingsKept == Spec => []IInv
<1> QED BY InitEvents, NextEvents, PTL DEF Spec

-----------------------------------------------------------------------------
(* What it gives. *)

(* With a list in the environment every process that sends drops exactly    *)
(* the listed ones of its packets, counted from 1, whatever the programs    *)
(* ask for, however many processes there are.                               *)
THEOREM ListIsDropped == Spec => []ExactlyListedDropped
<1>1. IInv => ExactlyListedDropped
  BY DEF IInv
<1> QED BY <1>1, SettingsKept, PTL

(* Without a list of packets to drop the library does what its header       *)
(* says: every packet sent is seen by the standard event, dropped at random *)
(* or not.  Nothing else breaks AllStandardPerformed.                       *)
THEOREM PerformedUnlessListed == Spec => [](Listed(env.drop) = {} => AllStandardPerformed)
<1>1. IInv => (Listed(env.drop) = {} => AllStandardPerformed)
  BY DEF IInv, HistoryInv
<1> QED BY <1>1, SettingsKept, PTL

(* No two processes that send have the same seed, however many the server   *)
(* has forked, unless the environment sets one.                             *)
THEOREM SeedsStayApart == Spec => []SeedsDiffer
<1>1. IInv => SeedsDiffer
  <2> SUFFICES ASSUME IInv, Number(env.seed) = {}, NEW p \in Procs, NEW q \in Procs, p # q,
                      proc[p].state = "READY", proc[q].state = "READY"
               PROVE  proc[p].seed # proc[q].seed
    BY DEF SeedsDiffer
  <2>1. /\ proc[p].seed = UserMode(Number(env.seed), RANDOM_SEED + p)
        /\ proc[q].seed = UserMode(Number(env.seed), RANDOM_SEED + q)
    BY DEF IInv, SettingsInv
  <2>2. proc[p].seed = RANDOM_SEED + p /\ proc[q].seed = RANDOM_SEED + q
    BY <2>1 DEF UserMode
  <2>3. RANDOM_SEED + p # RANDOM_SEED + q
    BY DEF RANDOM_SEED, Procs
  <2> QED BY <2>2, <2>3
<1> QED BY <1>1, SettingsKept, PTL

(* What the environment sets is what every process that sends has, and the  *)
(* options of the programs are all that is left to the rest.                *)
THEOREM EnvironmentHasPrecedence == Spec => []EnvironmentWins
<1>1. IInv => EnvironmentWins
  <2> SUFFICES ASSUME IInv
               PROVE  EnvironmentWins
    OBVIOUS
  <2>1. ASSUME NEW p \in Procs, proc[p].state = "READY"
        PROVE  /\ Number(env.rate) # {} => env.rate = {proc[p].rate}
               /\ Number(env.seed) # {} => env.seed = {proc[p].seed}
               /\ Number(env.debug) # {} => env.debug = {proc[p].debug}
               /\ DropAll \in Elements(proc[p].chance) <=> Listed(env.drop) = {}
               /\ Listed(env.flip) = {} => FlipBits \in Elements(proc[p].chance)
               /\ Len(proc[p].chance) <= 2
    <3>1. /\ env.rate \in Setting(Rates \union {Text}) /\ env.seed \in Setting({2, Text})
          /\ env.debug \in Setting(Levels \ {0, DEBUG_ON})
      BY DEF IInv, TypeOK, Environment
    <3>2. /\ proc[p].chance = Chance(env)
          /\ proc[p].seed = UserMode(Number(env.seed), RANDOM_SEED + p)
          /\ proc[p].debug = UserMode(Number(env.debug), DEBUG_ON)
      BY <2>1 DEF IInv, SettingsInv
    <3>3. PICK r \in Rates : proc[p].rate = UserMode(Number(env.rate), r)
      BY <2>1 DEF IInv, SettingsInv
    <3>4. Number(env.rate) # {} => env.rate = {proc[p].rate}
      BY <3>1, <3>3, UserModeValue
    <3>5. Number(env.seed) # {} => env.seed = {proc[p].seed}
      BY <3>1, <3>2, UserModeValue
    <3>6. Number(env.debug) # {} => env.debug = {proc[p].debug}
      BY <3>1, <3>2, UserModeValue
    <3> QED BY <3>2, <3>4, <3>5, <3>6, ChanceEvents
  <2> QED BY <2>1 DEF EnvironmentWins
<1> QED BY <1>1, SettingsKept, PTL
==============================================================================
