----------------------------- MODULE TsnConfig -----------------------------
(***************************************************************************)
(* From the configuration file to the driver: normalise_tas (src/src/tas.rs) *)
(* and normalise_cbs (src/src/cbs.rs) number the traffic classes and choose *)
(* the gate masks and credits, setup_tas and setup_cbs (src/src/vlan.rs)    *)
(* install them by tc commands, one after the other, and the driver (TsnQos) *)
(* sends its frames by what has arrived so far.                             *)
(*                                                                         *)
(* A file is [kind, entries]: for "tas" the schedule, entries [dur, prio]   *)
(* with prio a list of priorities, -1 standing for all that no entry lists;  *)
(* for "cbs" the priorities in the order of the file, [prio, class,         *)
(* bandwidth, frame].                                                       *)
(***************************************************************************)
EXTENDS TsnQos

CONSTANTS
  Files,       \* configuration files
  Prios,       \* the priorities of a frame, 0 .. 7
  LinkSpeed    \* what get_linkspeed finds, in bit/s

VARIABLES
  file,   \* the file of the interface
  todo    \* the commands of setup_tas or setup_cbs still to be run

configFileVars == <<file, todo>>

----------------------------------------------------------------------------
(* Normalisation.                                                           *)

\* The priorities in the order of the file.
Listing(f) ==
  LET prios == [i \in DOMAIN f.entries |-> f.entries[i].prio]
  IN  IF f.kind = "cbs" THEN prios ELSE FlattenSeq(prios)

\* Where a priority is met for the first time and gets a class of its own.
Firsts(f) ==
  LET all == Listing(f)
  IN  {i \in DOMAIN all : /\ f.kind = "tas" => all[i] > 0
                          /\ \A j \in 1..(i - 1) : all[j] # all[i]}

\* The priorities that get one.
Named(f) == {Listing(f)[i] : i \in Firsts(f)}

\* tc_map: a new priority gets the number of those before it as its class; all others,
\* and -1, share the last one.
TcNumber(f, p) ==
  Cardinality({i \in Firsts(f) : \A j \in Firsts(f) : Listing(f)[j] = p => i < j})

\* Mutant: priorities that are not in the file get the first class.
PrioMapOthersFirst(f) == [p \in Prios |-> IF p \in Named(f) THEN TcNumber(f, p) ELSE 0]

\* ret_map, the `map` of the command
PrioMap(f) == [p \in Prios |-> TcNumber(f, p)]

\* tc_map[pri] panics for a priority that was not put into the map: 0, or below -1.
Accepted(f) ==
  f.kind = "tas" =>
    \A i \in DOMAIN f.entries : \A p \in ToSet(f.entries[i].prio) : p > 0 \/ p = -1

\* 1 << n
Bit(n) ==
  LET bit[i \in 0..n] == IF i = 0 THEN 1 ELSE 2 * bit[i - 1] IN bit[n]

\* The gate mask of an entry: a priority that is listed twice is added twice.
GateMask(f, e) ==
  LET sum[i \in 0..Len(e.prio)] ==
        IF i = 0 THEN 0 ELSE sum[i - 1] + Bit(TcNumber(f, e.prio[i]))
  IN  sum[Len(e.prio)]

\* The entries of the command, as tsn_set_qbv takes them up.
SchedEntries(f) ==
  [i \in DOMAIN f.entries |->
     [dur |-> f.entries[i].dur,
      open |-> {tc \in TCs : (GateMask(f, f.entries[i]) \div Bit(tc)) % 2 = 1}]]

\* streams, by class, and the sums calc_credits takes over them.
Total(f, class, amount) ==
  LET sum[i \in 0..Len(f.entries)] ==
        IF i = 0 THEN 0
        ELSE sum[i - 1] + IF f.entries[i].class = class THEN amount[i] ELSE 0
  IN  sum[Len(f.entries)]

Bandwidth(f, class) == Total(f, class, [i \in DOMAIN f.entries |-> f.entries[i].bandwidth])
MaxFrame(f, class) == Total(f, class, [i \in DOMAIN f.entries |-> f.entries[i].frame])

\* Mutant: child 1 gets the credits of class b.
ChildrenSwapped(f, qid) ==
  IF qid = 2 THEN CalcCredits(Bandwidth(f, "a"), MaxFrame(f, "a"), LinkSpeed)
  ELSE CalcCreditsB(Bandwidth(f, "a"), MaxFrame(f, "a"),
                    Bandwidth(f, "b"), MaxFrame(f, "b"), LinkSpeed)

\* children: 1 is class a, and 2 is class b.
Children(f, qid) ==
  IF qid = 1 THEN CalcCredits(Bandwidth(f, "a"), MaxFrame(f, "a"), LinkSpeed)
  ELSE CalcCreditsB(Bandwidth(f, "a"), MaxFrame(f, "a"),
                    Bandwidth(f, "b"), MaxFrame(f, "b"), LinkSpeed)

----------------------------------------------------------------------------
(* The commands.                                                            *)

Child == <<"child1", "child2">>

\* The files of a kind that normalisation does not stop at.
Loaded(kind) == {f \in Files : f.kind = kind /\ Accepted(f)}

\* The entries of a file.
TasEntries == [dur : Nat \ {0}, prio : Seq(Int)]
CbsEntries == [prio : Prios, class : {"a", "b"}, bandwidth : Nat, frame : Nat]

\* What tc hands to the driver, of its CONSTANTS, are the files: their maps, schedules and
\* credits.  A YAML mapping has each key once, no priority gets a class the driver does
\* not have, and no stream (nothing checks that) asks for more than the link.
ASSUME ConfigAssumption ==
  /\ 0 \in Prios /\ Prios \subseteq Nat /\ TCs \subseteq Nat /\ 0 \in Starts
  /\ \A f \in Frames : f.prio \in Prios
  /\ [p \in Prios |-> p] \in TcMaps
  /\ LinkSpeed \in Nat \ {0}
  /\ \A f \in Loaded("tas") : f.entries \in Seq(TasEntries)
  /\ \A f \in Loaded("cbs") :
       /\ f.entries \in Seq(CbsEntries)
       /\ \A i \in DOMAIN f.entries : f.entries[i].bandwidth <= LinkSpeed
       /\ \A i, j \in DOMAIN f.entries : f.entries[i].prio = f.entries[j].prio => i = j
  /\ {PrioMap(f) : f \in Loaded("tas") \cup Loaded("cbs")} \subseteq TcMaps \cap [Prios -> TCs]
  /\ {SchedEntries(f) : f \in Loaded("tas")} \subseteq Schedules
  /\ {Children(f, qid) : f \in Loaded("cbs"), qid \in {1, 2}} \subseteq Offloads
  /\ Loaded("cbs") # {} => {0, 1} \subseteq TCs

\* read_config, and create_vlan up to the tc commands; a panic runs none.  A device
\* without traffic classes takes the priority for the class.
ConfigInit ==
  /\ Init
  /\ tcMap = [p \in Prios |-> p]
  /\ file \in Loaded("tas") \cup Loaded("cbs")
  /\ todo = {"map"} \cup (IF file.kind = "tas" THEN {"taprio"} ELSE ToSet(Child))

\* The qdisc (taprio or mqprio) gives the interface its map; when it is the same as
\* before nothing happens.
RunMap ==
  /\ "map" \in todo
  /\ todo' = todo \ {"map"}
  /\ \/ SetMqprio(PrioMap(file))
     \/ PrioMap(file) = tcMap /\ UNCHANGED vars
  /\ UNCHANGED file

\* ... and taprio then its schedule (base_time is 0).
RunTaprio ==
  /\ "map" \notin todo /\ "taprio" \in todo
  /\ todo' = todo \ {"taprio"}
  /\ SetQbv(SchedEntries(file), 0)
  /\ UNCHANGED file

\* One cbs command: parent 100:qid is queue qid - 1.  The children are a HashMap and
\* come in any order.
RunChild(qid) ==
  /\ "map" \notin todo /\ Child[qid] \in todo
  /\ todo' = todo \ {Child[qid]}
  /\ SetQav(qid - 1, TRUE, Children(file, qid))
  /\ UNCHANGED file

\* The driver's own steps.  What becomes of a frame in the hardware is left to TsnQos:
\* here it matters only which times the frame gets.
Drive ==
  /\ \/ Xmit
     \/ TxIsr
     \/ \E d \in Deltas : Tick(d)
  /\ UNCHANGED configFileVars

ConfigNext ==
  \/ RunMap
  \/ RunTaprio
  \/ \E qid \in {1, 2} : RunChild(qid)
  \/ Drive

ConfigSpec == ConfigInit /\ [][ConfigNext]_<<vars, configFileVars>>

----------------------------------------------------------------------------
(* Properties: what the file says, read without classes, masks and slots.   *)

Lists(e, p) == Contains(e.prio, p)

\* A frame of priority p may be on the wire at time t.
FileOpens(f, p, t) ==
  LET rem == t % CycleNs(f.entries)
      alone == p > 0 /\ \E i \in DOMAIN f.entries : Lists(f.entries[i], p)
  IN  \E i \in DOMAIN f.entries :
        /\ Begin(f.entries, i) <= rem /\ rem < Begin(f.entries, i + 1)
        /\ Lists(f.entries[i], IF alone THEN p ELSE -1)

\* At time t the file closes priority p, or starts over.
FileEnds(f, p, t) == ~FileOpens(f, p, t) \/ t % CycleNs(f.entries) = 0

NoRepeats(f) == \A i \in DOMAIN f.entries : IsInjective(f.entries[i].prio)

\* A frame is on the wire only while the file opens its priority: whenever the hardware
\* starts the frame between from and to, until the last bit is sent (to = from - 1
\* marks a gate that is always open).  The way goes through the numbering of classes,
\* the mask, the driver's map by VLAN priority, and the baked slots.  The window ends
\* only where the file closes the priority or starts over: it is a single moment
\* (from = to) only for a frame that fills the rest of the opening.
WindowFollowsFile ==
  file.kind = "tas" /\ todo = {} /\ NoRepeats(file) /\ Usable =>
    IF out.ts.to = out.ts.from - 1
    THEN \A t \in 0 .. (CycleNs(file.entries) - 1) : FileOpens(file, out.prio, t)
    ELSE /\ out.ts.from <= out.ts.to
         /\ \A t \in out.ts.from .. (out.ts.to + out.sending - 1) :
              FileOpens(file, out.prio, t)
         /\ FileEnds(file, out.prio, out.ts.to + out.sending)

\* value is rate in units of Kilo * Kilo bit/s, up to the rounding to whole units.
Rounded(value, rate) ==
  /\ value * (Kilo * Kilo) < rate + Kilo
  /\ rate < (value + 1) * (Kilo * Kilo)

\* One priority of each class, the one of class a first, as in config.yaml.
InOrder(f) ==
  Len(f.entries) = 2 /\ f.entries[1].class = "a" /\ f.entries[2].class = "b"

\* Every priority of such a file is shaped by the bandwidth of its own class, in
\* whatever order the commands ran, and the others are not shaped.
CreditFollowsFile ==
  file.kind = "cbs" /\ todo = {} /\ InOrder(file) =>
    \A p \in Prios :
      LET q == qav[tcMap[p]]
          mine == {i \in DOMAIN file.entries : file.entries[i].prio = p}
      IN  /\ q.enabled <=> mine # {}
          /\ \A i \in mine :
               /\ Rounded(q.idle, file.entries[i].bandwidth)
               /\ Rounded(-q.send, LinkSpeed - file.entries[i].bandwidth)
============================================================================
