-------------------------- MODULE PairRadios_proofs --------------------------
(***************************************************************************)
(* A peer that roaming-steer takes for ready is in hostapd's neighbour     *)
(* list, for any channels, scans, settings and faults.                     *)
(*                                                                         *)
(* The property says what the list holds between two rounds, so it is not  *)
(* inductive: a round removes and sets the entry of one band after the     *)
(* other, publishes the file at its end, and may stop at any entry.        *)
(* Behind has what every band holds meanwhile, and that the radios stay up *)
(* as long as the round and the file count on them.                        *)
(* Both are about one access point, and a step of one leaves the other as  *)
(* it is; what one learns of the other is of the right type, no more.      *)
(*                                                                         *)
(* And what channel-select prints after a scan is not the channel of the   *)
(* peer, whatever the scores, when there is another one.                   *)
(***************************************************************************)
EXTENDS PairRadios, WellFoundedInduction, TLAPS

Svcs == [pc : {"asking", "choosing", "starting", "up", "failed"}, tries : Nat,
         known : ChannelMaps \cup {Unknown}, chosen : ChannelMaps \cup {Unknown}]
Rounds == [pc : {"starting", "sleep", "look", "install", "set", "repair"}, own : States \cup {Nothing},
           peer : States \cup {Nothing}, next : 1..3]
Entries == {e \in [Bands -> Nat] : \A b \in Bands : e[b] \in Channels[b] \cup {0}}

Installs(n) == round[n].pc \in {"install", "set"}
(* The round has not come to the band, or none is under way.               *)
Untouched(n, b) == Installs(n) => b >= round[n].next /\ ~Replacing(n, b)

Ranged(n) ==
    /\ config[n] \in Configs /\ before[n] \in Configs
    /\ svc[n] \in Svcs /\ svc[n].tries \in 0..Attempts[n]
    /\ svc[n].pc = "asking" => svc[n].tries < Attempts[n]
    /\ svc[n].pc = "starting" => svc[n].chosen \in ChannelMaps
    /\ radio[n] \in States \cup {Nothing} /\ (radio[n] # Nothing <=> svc[n].pc = "up")
    /\ cmd[n] \in {"none", "first", "again", "roaming", "stopped"}
    /\ entry[n] \in Entries
    /\ round[n] \in Rounds /\ (Installs(n) => round[n].peer \in States)
    /\ round[n].pc = "set" => round[n].next \in Bands
    /\ file[n] \in States \cup {Nothing}
    /\ marker[n] \in BOOLEAN /\ refused[n] \in SUBSET Bands

Behind(n) ==
    cmd[n] \in {"none", "roaming"} /\ round[n].pc # "starting" =>
        /\ Installs(n) \/ round[n].pc = "look" \/ file[n] # Nothing => svc[n].pc = "up"
        /\ Installs(n) => \A b \in Bands : b < round[n].next =>
               entry[n][b] = round[n].peer.channel[b] /\ b \notin refused[n]
        /\ file[n] # Nothing => \A b \in Bands : Untouched(n, b) =>
               /\ entry[n][b] = 0 => b \in refused[n]
               /\ (\A d \in refused[n] : d < b) => entry[n][b] = file[n].channel[b]

Common == link \in BOOLEAN /\ faults \in 0..MaxFaults /\ commands \in 0..MaxCommands
Shape ==
    /\ DOMAIN config = Nodes /\ DOMAIN before = Nodes /\ DOMAIN svc = Nodes /\ DOMAIN radio = Nodes
    /\ DOMAIN cmd = Nodes /\ DOMAIN entry = Nodes /\ DOMAIN round = Nodes /\ DOMAIN file = Nodes
    /\ DOMAIN marker = Nodes /\ DOMAIN refused = Nodes
    /\ config = [n \in Nodes |-> config[n]] /\ before = [n \in Nodes |-> before[n]]
    /\ svc = [n \in Nodes |-> svc[n]] /\ radio = [n \in Nodes |-> radio[n]]
    /\ cmd = [n \in Nodes |-> cmd[n]] /\ entry = [n \in Nodes |-> entry[n]]
    /\ round = [n \in Nodes |-> round[n]] /\ file = [n \in Nodes |-> file[n]]
    /\ marker = [n \in Nodes |-> marker[n]] /\ refused = [n \in Nodes |-> refused[n]]
IInv == Common /\ Shape /\ \A n \in Nodes : Ranged(n) /\ Behind(n)

-----------------------------------------------------------------------------
(* The values the program begins with, and those it falls back to.         *)
LEMMA Values ==
    /\ Asking \in Svcs /\ Asking.pc = "asking" /\ Asking.tries = 0
    /\ Asleep \in Rounds /\ Asleep.pc = "sleep"
    /\ Starting \in Rounds /\ Starting.pc = "starting"
    /\ Unknown \in Entries
    /\ Nothing \notin States /\ \A s \in States : s # Nothing
<1>1. Unknown \in Entries
  BY DEF Unknown, Entries
<1>2. Nothing.config = "none"
  BY DEF Nothing
<1>3. Nothing \notin States
  BY <1>2, PairAssumption DEF States
<1>4. ASSUME NEW a \in Rounds
      PROVE  [a EXCEPT !.pc = "starting"] \in Rounds /\ [a EXCEPT !.pc = "starting"].pc = "starting"
  BY DEF Rounds
<1>5. Asleep \in Rounds /\ Asleep.pc = "sleep"
  BY DEF Asleep, Rounds
<1>6. Starting \in Rounds /\ Starting.pc = "starting"
  BY <1>4, <1>5 DEF Starting
<1> QED
  BY <1>1, <1>3, <1>5, <1>6 DEF Asking, Svcs

LEMMA Peers == \A n \in Nodes : Peer(n) \in Nodes /\ Peer(n) # n
BY DEF Nodes, Peer

(* A state of the other access point has a channel on every band.          *)
LEMMA Channelled ==
    ASSUME NEW s \in States
    PROVE  /\ s.channel \in ChannelMaps /\ s.channel \in Entries
           /\ \A b \in Bands : s.channel[b] \in Channels[b] /\ s.channel[b] # 0
<1>1. s.channel \in ChannelMaps
  BY DEF States
<1>2. \A b \in Bands : s.channel[b] \in Channels[b] /\ s.channel[b] \in Nat \ {0}
  BY <1>1, ChannelsAssumption DEF ChannelMaps
<1>3. s.channel \in [Bands -> Nat]
  BY <1>1, <1>2 DEF ChannelMaps
<1> QED
  BY <1>1, <1>2, <1>3 DEF Entries

(* The first state.                                                        *)
LEMMA InitInv == Init => IInv
<1> SUFFICES ASSUME Init PROVE IInv
  OBVIOUS
<1>1. Common
  BY PairAssumption DEF Init, Common
<1>2. Shape
  BY DEF Init, Shape
<1>3. ASSUME NEW n \in Nodes PROVE Ranged(n) /\ Behind(n)
  <2>1. /\ config[n] = Shipped /\ before[n] = Shipped /\ svc[n] = Asking /\ radio[n] = Nothing
        /\ cmd[n] = "none" /\ entry[n] = Unknown /\ round[n] = Starting /\ file[n] = Nothing
        /\ marker[n] = FALSE /\ refused[n] = {}
    BY DEF Init
  <2>2. 0 \in 0..Attempts[n] /\ 0 < Attempts[n]
    BY PairAssumption
  <2> QED
    BY <2>1, <2>2, Values, PairAssumption DEF Ranged, Behind, Installs
<1> QED
  BY <1>1, <1>2, <1>3 DEF IInv

-----------------------------------------------------------------------------
(* A step of one access point changes its own part of every variable.      *)
Local(n) ==
    /\ config' = [config EXCEPT ![n] = config'[n]] /\ before' = [before EXCEPT ![n] = before'[n]]
    /\ svc' = [svc EXCEPT ![n] = svc'[n]] /\ radio' = [radio EXCEPT ![n] = radio'[n]]
    /\ cmd' = [cmd EXCEPT ![n] = cmd'[n]] /\ entry' = [entry EXCEPT ![n] = entry'[n]]
    /\ round' = [round EXCEPT ![n] = round'[n]] /\ file' = [file EXCEPT ![n] = file'[n]]
    /\ marker' = [marker EXCEPT ![n] = marker'[n]] /\ refused' = [refused EXCEPT ![n] = refused'[n]]

LEMMA OneNode ==
    ASSUME IInv, NEW n \in Nodes, Local(n), Common', Ranged(n)', Behind(n)'
    PROVE  IInv'
<1>1. Shape'
  BY DEF IInv, Shape, Local
<1>2. ASSUME NEW m \in Nodes, m # n PROVE Ranged(m)' /\ Behind(m)'
  <2>1. /\ config'[m] = config[m] /\ before'[m] = before[m] /\ svc'[m] = svc[m] /\ radio'[m] = radio[m]
        /\ cmd'[m] = cmd[m] /\ entry'[m] = entry[m] /\ round'[m] = round[m] /\ file'[m] = file[m]
        /\ marker'[m] = marker[m] /\ refused'[m] = refused[m]
    BY <1>2 DEF IInv, Shape, Local
  <2>2. Ranged(m) /\ Behind(m)
    BY DEF IInv
  <2> QED
    BY <2>1, <2>2 DEF Ranged, Behind, Installs, Untouched, Replacing
<1> QED
  BY <1>1, <1>2 DEF IInv

(* The part of one access point, as it is.                                 *)
LEMMA Own ==
    ASSUME IInv, NEW n \in Nodes
    PROVE  /\ Ranged(n) /\ Behind(n) /\ config[n] \in Configs /\ before[n] \in Configs
           /\ round[n] \in Rounds /\ (Installs(n) => round[n].peer \in States)
           /\ round[n].pc = "set" => round[n].next \in Bands
           /\ cmd[n] \in {"none", "first", "again", "roaming", "stopped"}
           /\ file[n] \in States \cup {Nothing} /\ marker[n] \in BOOLEAN /\ refused[n] \in SUBSET Bands
           /\ config = [config EXCEPT ![n] = config[n]] /\ before = [before EXCEPT ![n] = before[n]]
           /\ svc = [svc EXCEPT ![n] = svc[n]] /\ radio = [radio EXCEPT ![n] = radio[n]]
           /\ cmd = [cmd EXCEPT ![n] = cmd[n]] /\ entry = [entry EXCEPT ![n] = entry[n]]
           /\ round = [round EXCEPT ![n] = round[n]] /\ file = [file EXCEPT ![n] = file[n]]
           /\ marker = [marker EXCEPT ![n] = marker[n]] /\ refused = [refused EXCEPT ![n] = refused[n]]
<1>1. Ranged(n) /\ Behind(n) /\ Shape
  BY DEF IInv
<1> QED
  BY <1>1 DEF Ranged, Shape

(* A fault that the bound allows.                                          *)
LEMMA Faults ==
    ASSUME Common, link' \in BOOLEAN, commands' = commands, Fault \/ NoFault
    PROVE  Common'
BY PairAssumption DEF Common, Fault, NoFault

(* The same state again.                                                   *)
LEMMA Same ==
    ASSUME IInv, Common', UNCHANGED <<config, before, svc, radio, cmd, entry, round, file, marker, refused>>
    PROVE  IInv'
BY DEF IInv, Shape, Ranged, Behind, Installs, Untouched, Replacing

-----------------------------------------------------------------------------
(* The Wi-Fi service.                                                      *)

(* A start goes on; radios that were not up may come up.                   *)
LEMMA ServiceMove ==
    ASSUME IInv, NEW n \in Nodes, NEW x \in Svcs, NEW r \in States \cup {Nothing},
           svc' = [svc EXCEPT ![n] = x], radio' = [radio EXCEPT ![n] = r],
           svc[n].pc # "up", x.tries \in 0..Attempts[n], r # Nothing <=> x.pc = "up",
           x.pc = "asking" => x.tries < Attempts[n],
           x.pc = "starting" => x.chosen \in ChannelMaps,
           ServiceOnly, Fault \/ NoFault
    PROVE  IInv'
<1>1. /\ svc'[n] = x /\ radio'[n] = r
      /\ UNCHANGED <<config, before, cmd, entry, round, file, marker, refused, link, commands>>
  BY DEF IInv, Shape, ServiceOnly, Settings, Knowledge
<1>2. Local(n)
  BY <1>1 DEF IInv, Shape, Local
<1>3. Common'
  BY <1>1, Faults DEF IInv, Common
<1>4. Ranged(n) /\ Behind(n)
  BY DEF IInv
<1>5. Ranged(n)'
  BY <1>1, <1>4 DEF Ranged, Installs
<1>6. Behind(n)'
  BY <1>1, <1>4 DEF Behind, Installs, Untouched, Replacing
<1> QED
  BY <1>2, <1>3, <1>5, <1>6, OneNode

LEMMA ServiceSteps == ASSUME IInv, NEW n \in Nodes, Service(n) PROVE IInv'
<1> DEFINE me == svc[n]
<1>1. /\ svc = [k \in Nodes |-> svc[k]] /\ radio = [k \in Nodes |-> radio[k]]
      /\ me \in Svcs /\ me.tries \in 0..Attempts[n] /\ Attempts[n] \in Nat
      /\ radio[n] \in States \cup {Nothing} /\ (radio[n] # Nothing <=> me.pc = "up")
      /\ me.pc = "asking" => me.tries < Attempts[n]
      /\ me.pc = "starting" => me.chosen \in ChannelMaps
      /\ config[n] \in Configs
  BY PairAssumption DEF IInv, Shape, Ranged
<1>2. CASE AskPeer(n)
  <2>0. me.pc = "asking" /\ UNCHANGED radio /\ ServiceOnly /\ radio' = [radio EXCEPT ![n] = radio[n]]
    BY <1>1, <1>2 DEF AskPeer
  <2>a. ASSUME NEW x \in Svcs, x.pc \in {"asking", "choosing"}, x.tries \in 0..Attempts[n],
               x.pc = "asking" => x.tries < Attempts[n], svc' = [svc EXCEPT ![n] = x], Fault \/ NoFault
        PROVE  IInv'
    <3>1. radio[n] # Nothing <=> x.pc = "up"
      BY <1>1, <2>0, <2>a
    <3>2. me.pc # "up" /\ (x.pc = "starting" => x.chosen \in ChannelMaps)
      BY <2>0, <2>a
    <3> QED
      BY <1>1, <2>0, <2>a, <3>1, <3>2, ServiceMove
  <2>1. CASE /\ Answers(n) /\ NoFault
             /\ svc' = [svc EXCEPT ![n].known = radio[Peer(n)].channel, ![n].pc = "choosing"]
    <3> DEFINE x == [me EXCEPT !.known = radio[Peer(n)].channel, !.pc = "choosing"]
    <3>1. radio[Peer(n)] \in States
      BY <2>1, Peers DEF Answers, IInv, Ranged
    <3>2. radio[Peer(n)].channel \in ChannelMaps
      BY <3>1, Channelled
    <3>3. x \in Svcs /\ x.pc = "choosing" /\ x.tries = me.tries
      BY <1>1, <3>2 DEF Svcs
    <3>4. svc' = [svc EXCEPT ![n] = x]
      BY <1>1, <2>1
    <3> HIDE DEF x
    <3> QED
      BY <1>1, <2>1, <2>a, <3>3, <3>4
  <2>2. CASE /\ Fault \/ NoFault
             /\ svc' = [svc EXCEPT ![n].tries = @ + 1,
                           ![n].pc = IF me.tries + 1 = Attempts[n] THEN "choosing" ELSE @]
    <3> DEFINE pc == IF me.tries + 1 = Attempts[n] THEN "choosing" ELSE "asking"
               x == [me EXCEPT !.tries = me.tries + 1, !.pc = pc]
    <3>1. me.tries + 1 \in 0..Attempts[n] /\ (pc = "asking" => me.tries + 1 < Attempts[n])
      BY <1>1, <2>0
    <3>2. svc' = [svc EXCEPT ![n] = x]
      BY <1>1, <2>0, <2>2
    <3>3. pc \in {"asking", "choosing"} /\ me.tries + 1 \in Nat
      BY <1>1
    <3> HIDE DEF pc
    <3>4. x \in Svcs /\ x.pc = pc /\ x.tries = me.tries + 1
      BY <1>1, <3>3 DEF Svcs
    <3> HIDE DEF x
    <3> QED
      BY <2>2, <2>a, <3>1, <3>2, <3>3, <3>4
  <2>3. CASE Fault /\ svc' = [svc EXCEPT ![n].pc = "choosing"]
    <3> DEFINE x == [me EXCEPT !.pc = "choosing"]
    <3>1. x \in Svcs /\ x.pc = "choosing" /\ x.tries = me.tries
      BY <1>1 DEF Svcs
    <3>2. svc' = [svc EXCEPT ![n] = x]
      BY <1>1, <2>3
    <3> HIDE DEF x
    <3> QED
      BY <1>1, <2>3, <2>a, <3>1, <3>2
  <2> QED
    BY <1>2, <2>1, <2>2, <2>3 DEF AskPeer
<1>3. CASE SelectChannels(n)
  <2>1. PICK chosen \in ChannelMaps : svc' = [svc EXCEPT ![n] = [Asking EXCEPT !.pc = "starting", !.chosen = chosen]]
    BY <1>3 DEF SelectChannels
  <2> DEFINE x == [Asking EXCEPT !.pc = "starting", !.chosen = chosen]
  <2>2. x \in Svcs /\ x.pc = "starting" /\ x.tries = 0 /\ x.chosen = chosen
    BY DEF Asking, Svcs
  <2>3. me.pc = "choosing" /\ NoFault /\ ServiceOnly /\ radio' = [radio EXCEPT ![n] = radio[n]]
    BY <1>1, <1>3 DEF SelectChannels
  <2>4. svc' = [svc EXCEPT ![n] = x]
    BY <2>1
  <2>5. 0 \in 0..Attempts[n]
    BY <1>1
  <2> HIDE DEF x
  <2> QED
    BY <1>1, <2>2, <2>3, <2>4, <2>5, ServiceMove
<1>4. CASE StartRadios(n)
  <2>0. /\ me.pc = "starting" /\ ServiceOnly /\ (Fault \/ NoFault) /\ 0 \in 0..Attempts[n]
    BY <1>1, <1>4 DEF StartRadios
  <2>1. CASE /\ svc' = [svc EXCEPT ![n] = [Asking EXCEPT !.pc = "up"]]
             /\ radio' = [radio EXCEPT ![n] = [channel |-> me.chosen, config |-> config[n]]]
    <3> DEFINE x == [Asking EXCEPT !.pc = "up"]  r == [channel |-> me.chosen, config |-> config[n]]
    <3>1. x \in Svcs /\ x.pc = "up" /\ x.tries = 0
      BY DEF Asking, Svcs
    <3>2. r \in States
      BY <1>1, <2>0 DEF States
    <3>3. svc' = [svc EXCEPT ![n] = x] /\ radio' = [radio EXCEPT ![n] = r]
      BY <2>1
    <3> HIDE DEF x, r
    <3> QED
      BY <2>0, <3>1, <3>2, <3>3, Values, ServiceMove
  <2>2. CASE svc' = [svc EXCEPT ![n] = [Asking EXCEPT !.pc = "failed"]] /\ UNCHANGED radio
    <3> DEFINE x == [Asking EXCEPT !.pc = "failed"]
    <3>1. x \in Svcs /\ x.pc = "failed" /\ x.tries = 0
      BY DEF Asking, Svcs
    <3>2. svc' = [svc EXCEPT ![n] = x] /\ radio' = [radio EXCEPT ![n] = radio[n]]
      BY <1>1, <2>2
    <3> HIDE DEF x
    <3> QED
      BY <1>1, <2>0, <3>1, <3>2, ServiceMove
  <2> QED
    BY <1>4, <2>1, <2>2 DEF StartRadios
<1> QED
  BY <1>2, <1>3, <1>4 DEF Service

-----------------------------------------------------------------------------
(* The rounds of neighbor-sync.                                            *)

(* A round reads, ends or prepares the installation.                       *)
LEMMA RoundMove ==
    ASSUME IInv, NEW n \in Nodes, NEW x \in Rounds, NEW mark \in BOOLEAN,
           round' = [round EXCEPT ![n] = x], marker' = [marker EXCEPT ![n] = mark],
           \/ x.pc = "sleep"
           \/ x.pc = "look" /\ svc[n].pc = "up"
           \/ x.pc = "install" /\ x.next = 1 /\ x.peer \in States /\ round[n].pc = "look",
           round[n].pc \in {"sleep", "look", "repair"},
           UNCHANGED <<Radios, file, refused>>, RoundOnly, Fault \/ NoFault
    PROVE  IInv'
<1>1. /\ round'[n] = x /\ marker'[n] = mark
      /\ UNCHANGED <<config, before, svc, radio, cmd, entry, file, refused, link, commands>>
  BY DEF IInv, Shape, RoundOnly, Settings, Radios
<1>2. Local(n)
  BY <1>1 DEF IInv, Shape, Local
<1>3. Common'
  BY <1>1, Faults DEF IInv, Common
<1>4. Ranged(n) /\ Behind(n)
  BY DEF IInv
<1>5. Ranged(n)'
  BY <1>1, <1>4 DEF Ranged, Installs
<1>6. Behind(n)'
  BY <1>1, <1>4 DEF Behind, Bands, Installs, Untouched, Replacing
<1> QED
  BY <1>2, <1>3, <1>5, <1>6, OneNode

(* What a round finds out.                                                 *)
LEMMA LookSteps ==
    ASSUME IInv, NEW n \in Nodes,
           ReadOwn(n) \/ LookFails(n) \/ LookStuck(n) \/ LookAgrees(n) \/ RepairEnds(n)
    PROVE  IInv'
<1> DEFINE me == round[n]
<1>1. /\ round = [k \in Nodes |-> round[k]] /\ marker = [k \in Nodes |-> marker[k]]
      /\ me \in Rounds /\ marker[n] \in BOOLEAN
      /\ radio[n] \in States \cup {Nothing} /\ (radio[n] # Nothing <=> svc[n].pc = "up")
  BY DEF IInv, Shape, Ranged
<1>2. CASE ReadOwn(n)
  <2> DEFINE x == [me EXCEPT !.pc = "look", !.own = radio[n]]
  <2>1. x \in Rounds /\ x.pc = "look"
    BY <1>1 DEF Rounds
  <2>2. /\ round' = [round EXCEPT ![n] = x] /\ marker' = [marker EXCEPT ![n] = marker[n]]
        /\ svc[n].pc = "up" /\ me.pc = "sleep"
        /\ UNCHANGED <<Radios, file, refused>> /\ RoundOnly /\ NoFault
    BY <1>1, <1>2 DEF ReadOwn, Knowledge
  <2> HIDE DEF x
  <2> QED
    BY <1>1, <2>1, <2>2, RoundMove
<1>3. CASE LookFails(n) \/ LookStuck(n) \/ RepairEnds(n)
  <2>1. /\ round' = [round EXCEPT ![n] = Asleep] /\ marker' = [marker EXCEPT ![n] = marker[n]]
        /\ me.pc \in {"look", "repair"}
        /\ UNCHANGED <<Radios, file, refused>> /\ RoundOnly /\ (Fault \/ NoFault)
    BY <1>1, <1>3 DEF LookFails, LookStuck, RepairEnds, ReturnFrom, Knowledge
  <2> QED
    BY <1>1, <2>1, Values, RoundMove
<1>4. CASE LookAgrees(n)
  <2> DEFINE x == [Asleep EXCEPT !.pc = "install", !.peer = radio[Peer(n)]]
  <2>1. radio[Peer(n)] \in States
    BY <1>4, Peers DEF LookAgrees, Comparable, Answers, IInv, Ranged
  <2>2. x \in Rounds /\ x.pc = "install" /\ x.next = 1 /\ x.peer = radio[Peer(n)]
    <3>1. ASSUME NEW a \in Rounds, a.next = 1, NEW peer \in States
          PROVE  LET y == [a EXCEPT !.pc = "install", !.peer = peer] IN
                 y \in Rounds /\ y.pc = "install" /\ y.next = 1 /\ y.peer = peer
      BY <3>1 DEF Rounds
    <3>2. Asleep \in Rounds /\ Asleep.next = 1
      BY Values DEF Asleep
    <3> QED
      BY <2>1, <3>1, <3>2
  <2>3. /\ round' = [round EXCEPT ![n] = x] /\ marker' = [marker EXCEPT ![n] = FALSE]
        /\ me.pc = "look"
        /\ UNCHANGED <<Radios, file, refused>> /\ RoundOnly /\ NoFault
    BY <1>4 DEF LookAgrees
  <2> HIDE DEF x
  <2> QED
    BY <2>1, <2>2, <2>3, RoundMove
<1> QED
  BY <1>2, <1>3, <1>4

(* Each band in turn, and the file before and after them.                  *)
LEMMA InstallMove ==
    ASSUME IInv, NEW n \in Nodes, NEW e \in Entries, NEW x \in Rounds,
           NEW f \in States \cup {Nothing}, NEW r \in SUBSET Bands,
           entry' = [entry EXCEPT ![n] = e], round' = [round EXCEPT ![n] = x],
           file' = [file EXCEPT ![n] = f], refused' = [refused EXCEPT ![n] = r],
           x.pc = "install" \/ x.pc = "set" => x.peer \in States,
           x.pc = "set" => x.next \in Bands,
           Behind(n)',
           UNCHANGED <<svc, radio, marker>>, RoundOnly, Fault \/ NoFault
    PROVE  IInv'
<1>1. UNCHANGED <<config, before, svc, radio, cmd, marker, link, commands>>
  BY DEF RoundOnly, Settings
<1>2. Common'
  BY <1>1, Faults DEF IInv, Common
<1>3. entry'[n] = e /\ round'[n] = x /\ file'[n] = f /\ refused'[n] = r
  BY DEF IInv, Shape
<1>4. Local(n)
  BY <1>1, <1>3, Own DEF Local
<1>5. Ranged(n)'
  BY <1>1, <1>3, Own DEF Ranged, Installs
<1> QED
  BY <1>2, <1>4, <1>5, OneNode

(* What Behind says of a round that has come to band b.                    *)
LEMMA Installing ==
    ASSUME IInv, NEW n \in Nodes, Installs(n), cmd[n] \in {"none", "roaming"}
    PROVE  LET b == round[n].next IN
           /\ b \in 1..3 /\ svc[n].pc = "up" /\ round[n].peer \in States
           /\ \A c \in Bands : c < b => entry[n][c] = round[n].peer.channel[c] /\ c \notin refused[n]
           /\ file[n] # Nothing => \A c \in Bands : c >= b /\ ~Replacing(n, c) =>
                  /\ entry[n][c] = 0 => c \in refused[n]
                  /\ (\A d \in refused[n] : d < c) => entry[n][c] = file[n].channel[c]
BY Own DEF Rounds, Behind, Installs, Untouched

LEMMA RemoveStep == ASSUME IInv, NEW n \in Nodes, RemoveNeighbor(n) PROVE IInv'
<1> DEFINE me == round[n]  b == me.next
<1>1. /\ me.pc = "install" /\ b \in Bands /\ Installs(n) /\ me \in Rounds /\ me.peer \in States
      /\ entry[n] \in Entries /\ file[n] \in States \cup {Nothing} /\ refused[n] \in SUBSET Bands
      /\ file' = [file EXCEPT ![n] = file[n]] /\ refused' = [refused EXCEPT ![n] = refused[n]]
      /\ UNCHANGED <<svc, radio, file, refused, cmd, marker>> /\ RoundOnly /\ (Fault \/ NoFault)
  BY Own DEF RemoveNeighbor, Installs, Knowledge, Ranged, RoundOnly
<1>2. /\ round = [k \in Nodes |-> round[k]] /\ entry = [k \in Nodes |-> entry[k]]
  BY DEF IInv, Shape
<1>3. ASSUME NEW e \in Entries, \A c \in Bands : c # b => e[c] = entry[n][c],
             entry' = [entry EXCEPT ![n] = e], round' = [round EXCEPT ![n].pc = "set"]
      PROVE  IInv'
  <2> DEFINE x == [me EXCEPT !.pc = "set"]
  <2>1. x \in Rounds /\ x.pc = "set" /\ x.peer = me.peer /\ x.next = b
    BY <1>1 DEF Rounds
  <2>2. round' = [round EXCEPT ![n] = x]
    BY <1>2, <1>3
  <2> HIDE DEF x
  <2>3. entry'[n] = e /\ round'[n] = x
    BY <1>2, <1>3, <2>2
  <2>4. Behind(n)'
    <3> SUFFICES ASSUME cmd[n] \in {"none", "roaming"}
                 PROVE  /\ svc[n].pc = "up"
                        /\ \A c \in Bands : c < b => e[c] = me.peer.channel[c] /\ c \notin refused[n]
                        /\ file[n] # Nothing => \A c \in Bands : c >= b /\ c # b =>
                               /\ e[c] = 0 => c \in refused[n]
                               /\ (\A d \in refused[n] : d < c) => e[c] = file[n].channel[c]
      BY <1>1, <2>1, <2>3 DEF Behind, Installs, Untouched, Replacing
    <3>1. \A c \in Bands : ~Replacing(n, c)
      BY <1>1 DEF Replacing
    <3>2. \A c \in Bands : c < b => c # b
      BY <1>1 DEF Bands
    <3> QED
      BY <1>1, <1>3, <3>1, <3>2, Installing
  <2> QED
    BY <1>1, <1>3, <2>1, <2>2, <2>4, InstallMove
<1>4. CASE entry' = [entry EXCEPT ![n][b] = 0] /\ round' = [round EXCEPT ![n].pc = "set"]
  <2> DEFINE e == [entry[n] EXCEPT ![b] = 0]
  <2>1. e \in Entries /\ \A c \in Bands : c # b => e[c] = entry[n][c]
    BY <1>1 DEF Entries
  <2>2. entry' = [entry EXCEPT ![n] = e]
    BY <1>2, <1>4
  <2> HIDE DEF e
  <2> QED
    BY <1>3, <1>4, <2>1, <2>2
<1>5. CASE UNCHANGED entry /\ round' = [round EXCEPT ![n].pc = "set"]
  BY <1>1, <1>2, <1>3, <1>5
<1>6. CASE svc[n].pc # "up" /\ ReturnFrom(n) /\ UNCHANGED entry
  <2>1. round' = [round EXCEPT ![n] = Asleep] /\ entry' = [entry EXCEPT ![n] = entry[n]]
    BY <1>2, <1>6 DEF ReturnFrom
  <2>2. ~(cmd[n] \in {"none", "roaming"})
    BY <1>1, <1>6, Installing
  <2>3. Behind(n)'
    BY <1>1, <2>2 DEF Behind
  <2> QED
    BY <1>1, <2>1, <2>3, Values, InstallMove
<1> QED
  BY <1>4, <1>5, <1>6 DEF RemoveNeighbor

LEMMA SetStep == ASSUME IInv, NEW n \in Nodes, SetNeighbor(n) PROVE IInv'
<1> DEFINE me == round[n]  b == me.next
<1>1. /\ me.pc = "set" /\ b \in Bands /\ Installs(n) /\ me \in Rounds /\ me.peer \in States
      /\ entry[n] \in Entries /\ file[n] \in States \cup {Nothing} /\ refused[n] \in SUBSET Bands
      /\ file' = [file EXCEPT ![n] = file[n]]
      /\ UNCHANGED <<svc, radio, file, cmd, marker>> /\ RoundOnly /\ (Fault \/ NoFault)
  BY Own DEF SetNeighbor, Installs, Ranged, RoundOnly
<1>2. /\ round = [k \in Nodes |-> round[k]] /\ entry = [k \in Nodes |-> entry[k]]
      /\ refused = [k \in Nodes |-> refused[k]]
  BY DEF IInv, Shape
<1>3. CASE /\ svc[n].pc = "up"
           /\ entry' = [entry EXCEPT ![n][b] = me.peer.channel[b]]
           /\ round' = [round EXCEPT ![n].pc = "install", ![n].next = b + 1]
           /\ refused' = [refused EXCEPT ![n] = @ \ {b}]
  <2> DEFINE e == [entry[n] EXCEPT ![b] = me.peer.channel[b]]
             x == [me EXCEPT !.pc = "install", !.next = b + 1]
             r == refused[n] \ {b}
  <2>1. e \in Entries
    BY <1>1, Channelled DEF Entries
  <2>2. e[b] = me.peer.channel[b] /\ \A c \in Bands : c # b => e[c] = entry[n][c]
    BY <1>1 DEF Entries
  <2>3. b + 1 \in 1..3
    BY <1>1 DEF Bands
  <2>4. x \in Rounds /\ x.pc = "install" /\ x.peer = me.peer /\ x.next = b + 1
    BY <1>1, <2>3 DEF Rounds
  <2>5. entry' = [entry EXCEPT ![n] = e] /\ round' = [round EXCEPT ![n] = x]
        /\ refused' = [refused EXCEPT ![n] = r] /\ r \in SUBSET Bands
    BY <1>1, <1>2, <1>3
  <2> HIDE DEF e, x
  <2>6. entry'[n] = e /\ round'[n] = x /\ refused'[n] = r
    BY <1>2, <2>5
  <2>7. Behind(n)'
    <3> SUFFICES ASSUME cmd[n] \in {"none", "roaming"}
                 PROVE  /\ svc[n].pc = "up"
                        /\ \A c \in Bands : c < b + 1 => e[c] = me.peer.channel[c] /\ c \notin r
                        /\ file[n] # Nothing => \A c \in Bands : c >= b + 1 =>
                               /\ e[c] = 0 => c \in r
                               /\ (\A d \in r : d < c) => e[c] = file[n].channel[c]
      BY <1>1, <2>4, <2>6 DEF Behind, Installs, Untouched, Replacing
    <3>1. \A c \in Bands : /\ (c < b + 1 => c = b \/ (c < b /\ c # b))
                           /\ (c >= b + 1 => c >= b /\ c # b /\ b < c /\ ~Replacing(n, c))
      BY <1>1 DEF Bands, Replacing
    <3>2. \A c \in Bands : c < b => entry[n][c] = me.peer.channel[c] /\ c \notin refused[n]
      BY <1>1, Installing
    <3>3. file[n] # Nothing => \A c \in Bands : c >= b /\ ~Replacing(n, c) =>
              /\ entry[n][c] = 0 => c \in refused[n]
              /\ (\A d \in refused[n] : d < c) => entry[n][c] = file[n].channel[c]
      BY <1>1, Installing
    <3>4. ASSUME file[n] # Nothing, NEW c \in Bands, c >= b + 1
          PROVE  /\ e[c] = 0 => c \in r
                 /\ (\A d \in r : d < c) => e[c] = file[n].channel[c]
      <4>1. e[c] = entry[n][c] /\ c # b /\ b < c
        BY <2>2, <3>1, <3>4
      <4>2. (\A d \in r : d < c) => \A d \in refused[n] : d < c
        BY <4>1
      <4> QED
        BY <3>1, <3>3, <3>4, <4>1, <4>2
    <3> QED
      BY <1>3, <2>2, <3>1, <3>2, <3>4
  <2> QED
    BY <1>1, <2>1, <2>4, <2>5, <2>7, InstallMove
<1>4. CASE /\ ReturnFrom(n) /\ UNCHANGED entry
           /\ refused' = [refused EXCEPT ![n] = @ \cup {b}]
  <2> DEFINE r == refused[n] \cup {b}
  <2>1. /\ round' = [round EXCEPT ![n] = Asleep] /\ entry' = [entry EXCEPT ![n] = entry[n]]
        /\ refused' = [refused EXCEPT ![n] = r] /\ r \in SUBSET Bands
    BY <1>1, <1>2, <1>4 DEF ReturnFrom
  <2>2. entry'[n] = entry[n] /\ round'[n] = Asleep /\ refused'[n] = r
    BY <1>2, <1>4, <2>1
  <2>3. Behind(n)'
    <3> SUFFICES ASSUME cmd[n] \in {"none", "roaming"}
                 PROVE  /\ svc[n].pc = "up"
                        /\ file[n] # Nothing => \A c \in Bands :
                               /\ entry[n][c] = 0 => c \in r
                               /\ (\A d \in r : d < c) => entry[n][c] = file[n].channel[c]
      BY <1>1, <2>2, Values DEF Behind, Installs, Untouched, Replacing
    <3>1. \A c \in Bands : /\ c < b \/ c = b \/ (c >= b /\ c # b)
                           /\ (c <= b => ~(b < c)) /\ (c # b => ~Replacing(n, c)) /\ (c < b => c <= b)
      BY <1>1 DEF Bands, Replacing
    <3>2. /\ svc[n].pc = "up" /\ \A c \in Bands : c < b => entry[n][c] = me.peer.channel[c]
      BY <1>1, Installing
    <3>3. file[n] # Nothing => \A c \in Bands : c >= b /\ ~Replacing(n, c) =>
              /\ entry[n][c] = 0 => c \in refused[n]
              /\ (\A d \in refused[n] : d < c) => entry[n][c] = file[n].channel[c]
      BY <1>1, Installing
    <3>4. \A c \in Bands : me.peer.channel[c] # 0
      BY <1>1, Channelled
    <3>5. ASSUME file[n] # Nothing, NEW c \in Bands
          PROVE  /\ entry[n][c] = 0 => c \in r
                 /\ (\A d \in r : d < c) => entry[n][c] = file[n].channel[c]
      <4>1. CASE c < b
        BY <3>1, <3>2, <3>4, <4>1
      <4>2. CASE c = b
        BY <1>1, <3>1, <4>2 DEF Bands
      <4>3. CASE c >= b /\ c # b
        BY <3>1, <3>3, <3>5, <4>3
      <4> QED
        BY <3>1, <4>1, <4>2, <4>3
    <3> QED
      BY <3>2, <3>5
  <2> QED
    BY <1>1, <2>1, <2>3, Values, InstallMove
<1> QED
  BY <1>3, <1>4 DEF SetNeighbor

LEMMA FileSteps == ASSUME IInv, NEW n \in Nodes, Publish(n) \/ SyncStarts(n) PROVE IInv'
<1> DEFINE me == round[n]
<1>1. /\ entry[n] \in Entries /\ refused[n] \in SUBSET Bands
      /\ entry' = [entry EXCEPT ![n] = entry[n]] /\ entry'[n] = entry[n]
      /\ round' = [round EXCEPT ![n] = Asleep] /\ round'[n] = Asleep
      /\ UNCHANGED <<svc, radio, cmd, marker>> /\ RoundOnly /\ (Fault \/ NoFault)
  BY Own DEF Publish, SyncStarts, ReturnFrom, Radios, RoundOnly, Ranged, IInv, Shape
<1>2. CASE Publish(n)
  <2>1. /\ me.pc = "install" /\ me.next \notin Bands /\ Installs(n)
        /\ file' = [file EXCEPT ![n] = me.peer] /\ UNCHANGED refused
    BY <1>2 DEF Publish, Installs
  <2>2. me.peer \in States /\ me \in Rounds /\ file'[n] = me.peer /\ refused'[n] = refused[n]
        /\ refused' = [refused EXCEPT ![n] = refused[n]]
    BY <2>1, Own DEF IInv, Shape
  <2>3. \A c \in Bands : c < me.next
    BY <2>1, <2>2 DEF Rounds, Bands
  <2>4. \A c \in Bands : me.peer.channel[c] # 0
    BY <2>2, Channelled
  <2>5. Behind(n)'
    <3> SUFFICES ASSUME cmd[n] \in {"none", "roaming"}
                 PROVE  svc[n].pc = "up" /\ \A c \in Bands : entry[n][c] = me.peer.channel[c]
      BY <1>1, <2>2, <2>4, Values DEF Behind, Installs, Untouched, Replacing
    <3> QED
      BY <2>1, <2>3, Installing
  <2> QED
    BY <1>1, <2>1, <2>2, <2>5, Values, InstallMove
<1>3. CASE SyncStarts(n)
  <2>1. /\ file' = [file EXCEPT ![n] = Nothing] /\ refused' = [refused EXCEPT ![n] = {}]
        /\ file'[n] = Nothing
    BY <1>3 DEF SyncStarts, IInv, Shape
  <2>2. Behind(n)'
    BY <1>1, <2>1, Values DEF Behind, Installs
  <2>3. /\ Asleep \in Rounds /\ Asleep.pc \notin {"install", "set"} /\ {} \in SUBSET Bands
        /\ Nothing \in States \cup {Nothing}
    BY Values
  <2> QED
    BY <1>1, <2>1, <2>2, <2>3, InstallMove
<1> QED
  BY <1>2, <1>3

-----------------------------------------------------------------------------
(* Restarts of the radios: hostapd has lost its list.                      *)

(* The round ends, unless roaming is stopped anyway; no file says that the *)
(* peer is ready while roaming runs.                                       *)
LEMMA RestartMove ==
    ASSUME IInv, NEW n \in Nodes, NEW c \in Configs, NEW d \in Configs,
           NEW command \in {"none", "first", "again", "roaming", "stopped"}, NEW x \in Rounds,
           NEW f \in States \cup {Nothing}, NEW mark \in BOOLEAN, NEW lost \in SUBSET Bands,
           Restart(n),
           config' = [config EXCEPT ![n] = c], before' = [before EXCEPT ![n] = d],
           cmd' = [cmd EXCEPT ![n] = command], round' = [round EXCEPT ![n] = x],
           file' = [file EXCEPT ![n] = f], marker' = [marker EXCEPT ![n] = mark],
           refused' = [refused EXCEPT ![n] = lost],
           x.pc \in {"install", "set"} => x.peer \in States, x.pc = "set" => x.next \in Bands,
           command \in {"none", "roaming"} => x.pc \in {"starting", "repair"} /\ f = Nothing,
           Common'
    PROVE  IInv'
<1>1. /\ config'[n] = c /\ before'[n] = d /\ cmd'[n] = command /\ round'[n] = x
      /\ file'[n] = f /\ marker'[n] = mark /\ refused'[n] = lost
      /\ svc'[n] = Asking /\ radio'[n] = Nothing /\ entry'[n] = Unknown
  BY DEF IInv, Shape, Restart
<1>2. Local(n)
  BY <1>1 DEF Restart, Local
<1>3. Ranged(n)'
  <2>1. Attempts[n] \in Nat \ {0}
    BY PairAssumption
  <2>2. svc'[n] \in Svcs /\ svc'[n].tries \in 0..Attempts[n] /\ svc'[n].tries < Attempts[n]
        /\ svc'[n].pc = "asking"
    BY <1>1, <2>1, Values
  <2> QED
    BY <1>1, <2>2, Values DEF Ranged, Installs
<1>4. Behind(n)'
  BY <1>1 DEF Behind, Installs
<1> QED
  BY <1>2, <1>3, <1>4, OneNode

LEMMA RepairStep == ASSUME IInv, NEW n \in Nodes, Repair(n) PROVE IInv'
<1> DEFINE x == [Asleep EXCEPT !.pc = "repair"]
<1>1. x \in Rounds /\ x.pc = "repair"
  <2>1. ASSUME NEW a \in Rounds
        PROVE  [a EXCEPT !.pc = "repair"] \in Rounds /\ [a EXCEPT !.pc = "repair"].pc = "repair"
    BY DEF Rounds
  <2> QED
    BY <2>1, Values
<1>2. /\ round' = [round EXCEPT ![n] = x] /\ marker' = [marker EXCEPT ![n] = TRUE]
      /\ file' = [file EXCEPT ![n] = Nothing] /\ refused' = [refused EXCEPT ![n] = {}]
      /\ Restart(n) /\ NoFault /\ UNCHANGED <<cmd, config, before, commands, link>>
  BY DEF Repair, RoundOnly, Settings
<1> HIDE DEF x
<1>3. Common'
  BY <1>2, Faults DEF IInv, Common
<1>4. /\ cmd' = [cmd EXCEPT ![n] = cmd[n]]
      /\ config' = [config EXCEPT ![n] = config[n]] /\ before' = [before EXCEPT ![n] = before[n]]
  BY <1>2, Own
<1>5. cmd[n] \in {"none", "first", "again", "roaming", "stopped"} /\ config[n] \in Configs /\ before[n] \in Configs
  BY Own
<1>6. /\ x.pc \notin {"install", "set"} /\ x.pc # "set" /\ x.pc \in {"starting", "repair"}
      /\ Nothing \in States \cup {Nothing} /\ TRUE \in BOOLEAN /\ {} \in SUBSET Bands
  BY <1>1
<1> QED
  BY <1>1, <1>2, <1>3, <1>4, <1>5, <1>6, RestartMove

LEMMA SetWifiStep == ASSUME IInv, NEW n \in Nodes, SetWifi(n) PROVE IInv'
<1>1. PICK c \in Configs : config' = [config EXCEPT ![n] = c]
  BY DEF SetWifi
<1>2. /\ commands < MaxCommands /\ commands' = commands + 1
      /\ before' = [before EXCEPT ![n] = config[n]] /\ cmd' = [cmd EXCEPT ![n] = "first"]
      /\ Restart(n) /\ UNCHANGED <<faults, round, link, file, marker, refused>>
  BY DEF SetWifi, NoFault, Knowledge
<1>3. Common'
  BY <1>2, PairAssumption DEF IInv, Common
<1>4. /\ round' = [round EXCEPT ![n] = round[n]] /\ file' = [file EXCEPT ![n] = file[n]]
      /\ marker' = [marker EXCEPT ![n] = marker[n]] /\ refused' = [refused EXCEPT ![n] = refused[n]]
  BY <1>2, Own
<1>5. /\ config[n] \in Configs /\ round[n] \in Rounds /\ file[n] \in States \cup {Nothing}
      /\ marker[n] \in BOOLEAN /\ refused[n] \in SUBSET Bands
      /\ (round[n].pc \in {"install", "set"} => round[n].peer \in States)
      /\ (round[n].pc = "set" => round[n].next \in Bands)
  BY Own DEF Installs
<1>6. "first" \in {"none", "first", "again", "roaming", "stopped"} /\ "first" \notin {"none", "roaming"}
  OBVIOUS
<1> DEFINE d == config[n]  x == round[n]  f == file[n]  mark == marker[n]  lost == refused[n]
<1>7. /\ d \in Configs /\ x \in Rounds /\ f \in States \cup {Nothing} /\ mark \in BOOLEAN
      /\ lost \in SUBSET Bands
      /\ (x.pc \in {"install", "set"} => x.peer \in States) /\ (x.pc = "set" => x.next \in Bands)
      /\ before' = [before EXCEPT ![n] = d] /\ round' = [round EXCEPT ![n] = x] /\ file' = [file EXCEPT ![n] = f]
      /\ marker' = [marker EXCEPT ![n] = mark] /\ refused' = [refused EXCEPT ![n] = lost]
      /\ cmd' = [cmd EXCEPT ![n] = "first"] /\ Restart(n)
  BY <1>2, <1>4, <1>5
<1> HIDE DEF d, x, f, mark, lost
<1> QED
  BY <1>1, <1>3, <1>6, <1>7, RestartMove

LEMMA PowerLossStep == ASSUME IInv, NEW n \in Nodes, PowerLoss(n) PROVE IInv'
<1>1. /\ cmd' = [cmd EXCEPT ![n] = "none"] /\ round' = [round EXCEPT ![n] = Starting]
      /\ file' = [file EXCEPT ![n] = Nothing] /\ marker' = [marker EXCEPT ![n] = FALSE]
      /\ refused' = [refused EXCEPT ![n] = {}] /\ before' = [before EXCEPT ![n] = config[n]]
      /\ Restart(n) /\ Fault /\ UNCHANGED <<link, config, commands>>
  BY DEF PowerLoss, ReturnFrom
<1>2. Common'
  BY <1>1, Faults DEF IInv, Common
<1>3. config' = [config EXCEPT ![n] = config[n]] /\ config[n] \in Configs
  BY <1>1, Own
<1>4. /\ Starting \in Rounds /\ Starting.pc = "starting" /\ Starting.pc \notin {"install", "set"}
      /\ Nothing \in States \cup {Nothing} /\ FALSE \in BOOLEAN /\ {} \in SUBSET Bands
      /\ "none" \in {"none", "first", "again", "roaming", "stopped"}
  BY Values
<1> QED
  BY <1>1, <1>2, <1>3, <1>4, RestartMove

(* set-wifi, once the radios have come up or failed.                       *)
LEMMA CommandSteps == ASSUME IInv, NEW n \in Nodes, Command(n) PROVE IInv'
<1>1. CASE RestartSync(n)
  <2>1. /\ cmd' = [cmd EXCEPT ![n] = "roaming"] /\ round' = [round EXCEPT ![n] = Starting]
        /\ before' = [before EXCEPT ![n] = config[n]]
        /\ UNCHANGED <<faults, svc, radio, entry, file, marker, refused, link, config, commands>>
    BY <1>1 DEF RestartSync, NoFault, Radios, Knowledge
  <2>2. Common'
    BY <2>1 DEF IInv, Common
  <2>3. cmd'[n] = "roaming" /\ round'[n] = Starting /\ before'[n] = config[n]
    BY <2>1 DEF IInv, Shape
  <2>4. Local(n)
    BY <2>1, <2>3, Own DEF Local
  <2>5. Ranged(n)'
    BY <2>1, <2>3, Own, Values DEF Ranged, Installs
  <2>6. Behind(n)'
    BY <2>1, <2>3, Values DEF Behind
  <2> QED
    BY <2>2, <2>4, <2>5, <2>6, OneNode
<1>3. CASE RestartRoaming(n)
  <2>1. /\ cmd[n] = "roaming" /\ cmd' = [cmd EXCEPT ![n] = "none"]
        /\ UNCHANGED <<faults, config, before, svc, radio, entry, round, file, marker, refused, link, commands>>
    BY <1>3 DEF RestartRoaming, NoFault, Radios, Knowledge, Settings
  <2>2. Common'
    BY <2>1 DEF IInv, Common
  <2>3. cmd'[n] = "none"
    BY <2>1 DEF IInv, Shape
  <2>4. Local(n)
    BY <2>1, <2>3, Own DEF Local
  <2>5. Ranged(n)'
    BY <2>1, <2>3, Own DEF Ranged, Installs
  <2>6. Behind(n)'
    BY <2>1, <2>3, Own DEF Behind, Installs, Untouched, Replacing
  <2> QED
    BY <2>2, <2>4, <2>5, <2>6, OneNode
<1>2. CASE RadiosFailed(n)
  <2>0. /\ svc[n].pc = "failed"
        /\ UNCHANGED <<faults, before, commands, round, link, file, marker, refused>>
    BY <1>2 DEF RadiosFailed, NoFault, Knowledge
  <2>1. Common'
    BY <2>0, <1>2 DEF IInv, Common
  <2>2. CASE /\ cmd' = [cmd EXCEPT ![n] = "again"] /\ config' = [config EXCEPT ![n] = before[n]]
             /\ Restart(n)
    <3>1. /\ round' = [round EXCEPT ![n] = round[n]] /\ file' = [file EXCEPT ![n] = file[n]]
          /\ marker' = [marker EXCEPT ![n] = marker[n]] /\ refused' = [refused EXCEPT ![n] = refused[n]]
          /\ before' = [before EXCEPT ![n] = before[n]]
      BY <2>0, Own
    <3>2. /\ config[n] \in Configs /\ before[n] \in Configs /\ round[n] \in Rounds
          /\ file[n] \in States \cup {Nothing} /\ marker[n] \in BOOLEAN /\ refused[n] \in SUBSET Bands
          /\ (round[n].pc \in {"install", "set"} => round[n].peer \in States)
          /\ (round[n].pc = "set" => round[n].next \in Bands)
          /\ "again" \in {"none", "first", "again", "roaming", "stopped"} /\ "again" \notin {"none", "roaming"}
      BY Own DEF Installs
    <3> DEFINE c == before[n]  x == round[n]  f == file[n]  mark == marker[n]  lost == refused[n]
    <3>3. /\ c \in Configs /\ x \in Rounds /\ f \in States \cup {Nothing} /\ mark \in BOOLEAN
          /\ lost \in SUBSET Bands
          /\ (x.pc \in {"install", "set"} => x.peer \in States) /\ (x.pc = "set" => x.next \in Bands)
          /\ config' = [config EXCEPT ![n] = c] /\ before' = [before EXCEPT ![n] = c]
          /\ round' = [round EXCEPT ![n] = x] /\ file' = [file EXCEPT ![n] = f]
          /\ marker' = [marker EXCEPT ![n] = mark] /\ refused' = [refused EXCEPT ![n] = lost]
      BY <2>2, <3>1, <3>2
    <3> HIDE DEF c, x, f, mark, lost
    <3> QED
      BY <2>1, <2>2, <3>2, <3>3, RestartMove
  <2>3. CASE cmd' = [cmd EXCEPT ![n] = "stopped"] /\ UNCHANGED <<svc, radio, entry, config>>
    <3>1. cmd'[n] = "stopped"
      BY <2>3 DEF IInv, Shape
    <3>2. Local(n)
      BY <2>0, <2>3, <3>1, Own DEF Local
    <3>3. Ranged(n)'
      BY <2>0, <2>3, <3>1, Own DEF Ranged, Installs
    <3>4. Behind(n)'
      BY <3>1 DEF Behind
    <3> QED
      BY <2>1, <3>2, <3>3, <3>4, OneNode
  <2> QED
    BY <1>2, <2>2, <2>3 DEF RadiosFailed, Radios
<1> QED
  BY <1>1, <1>2, <1>3 DEF Command

-----------------------------------------------------------------------------
(* The link is not part of either.                                         *)
LEMMA LinkStep == ASSUME IInv, LinkChanges PROVE IInv'
<1>1. /\ link' \in BOOLEAN /\ commands' = commands /\ (Fault \/ NoFault)
      /\ UNCHANGED <<config, before, svc, radio, cmd, entry, round, file, marker, refused>>
  BY DEF LinkChanges, Settings, Radios, Knowledge
<1>2. Common'
  BY <1>1, Faults DEF IInv
<1> QED
  BY <1>1, <1>2, Same

(* Every step keeps the invariant.                                         *)
LEMMA NextInv == ASSUME IInv, [Next]_vars PROVE IInv'
<1>1. CASE UNCHANGED vars
  <2>1. Common'
    BY <1>1 DEF vars, IInv, Common
  <2> QED
    BY <1>1, <2>1, Same DEF vars
<1>2. ASSUME NEW n \in Nodes, Round(n) PROVE IInv'
  BY <1>2, LookSteps, RemoveStep, SetStep, FileSteps, RepairStep DEF Round, Look, Install
<1>3. ASSUME NEW n \in Nodes, Service(n) \/ Command(n) \/ SetWifi(n) \/ PowerLoss(n) PROVE IInv'
  BY <1>3, ServiceSteps, CommandSteps, SetWifiStep, PowerLossStep
<1> QED
  BY <1>1, <1>2, <1>3, LinkStep DEF Next

LEMMA InvHolds == Spec => []IInv
BY InitInv, NextInv, PTL DEF Spec

(* TypeOK holds for any channels, settings, attempts and bounds: in        *)
(* particular the state that is published is there exactly while the       *)
(* radios are up, and the attempts to reach the peer stay within their     *)
(* number.                                                                 *)
THEOREM TypeCorrect == Spec => []TypeOK
<1>1. IInv => TypeOK
  <2> SUFFICES ASSUME IInv PROVE TypeOK
    OBVIOUS
  <2>1. Common /\ Shape /\ \A n \in Nodes : Ranged(n)
    BY DEF IInv
  <2>2. \A n \in Nodes, b \in Bands : entry[n][b] \in Channels[b] \cup {0}
    BY <2>1 DEF Ranged, Entries
  <2>3. config \in [Nodes -> Configs] /\ before \in [Nodes -> Configs]
    BY <2>1 DEF Shape, Ranged
  <2>4. svc \in [Nodes -> Svcs]
    BY <2>1 DEF Shape, Ranged
  <2>5. radio \in [Nodes -> States \cup {Nothing}] /\ file \in [Nodes -> States \cup {Nothing}]
    BY <2>1 DEF Shape, Ranged
  <2>6. round \in [Nodes -> Rounds]
    BY <2>1 DEF Shape, Ranged
  <2>7. /\ cmd \in [Nodes -> {"none", "first", "again", "roaming", "stopped"}]
        /\ marker \in [Nodes -> BOOLEAN] /\ refused \in [Nodes -> SUBSET Bands]
    BY <2>1 DEF Shape, Ranged
  <2>8. \A n \in Nodes : svc[n].tries \in 0..Attempts[n] /\ (radio[n] # Nothing <=> svc[n].pc = "up")
    BY <2>1 DEF Ranged
  <2> QED
    BY <2>1, <2>2, <2>3, <2>4, <2>5, <2>6, <2>7, <2>8 DEF TypeOK, Common, Svcs, Rounds
<1> QED
  BY <1>1, InvHolds, PTL

(* Once neighbor-sync has started again, a peer that roaming-steer takes    *)
(* for ready is in hostapd's neighbour list: a restart of the radios, which *)
(* empties the list, never leaves a file behind, and a round that stops     *)
(* half-way leaves without an entry only the band whose set_neighbor did    *)
(* not succeed.                                                             *)
THEOREM ReadyIsListed == Spec => []EntriesBehindFile
<1>1. IInv => EntriesBehindFile
  <2> SUFFICES ASSUME IInv, NEW n \in Nodes, PeerReady(n), round[n].pc # "starting"
               PROVE  /\ \A b \in Bands : entry[n][b] = 0 => b \in refused[n] \/ Replacing(n, b)
                      /\ round[n].pc \notin {"install", "set"} /\ refused[n] = {} =>
                             entry[n] = file[n].channel
    BY DEF EntriesBehindFile
  <2>1. cmd[n] \in {"none", "roaming"} /\ file[n] # Nothing
    BY DEF PeerReady
  <2>2. file[n] \in States /\ entry[n] \in Entries /\ Behind(n) /\ round[n] \in Rounds
        /\ (Installs(n) => round[n].peer \in States)
    BY <2>1, Own DEF Ranged
  <2>3. \A b \in Bands : Untouched(n, b) =>
            /\ entry[n][b] = 0 => b \in refused[n]
            /\ (\A d \in refused[n] : d < b) => entry[n][b] = file[n].channel[b]
    BY <2>1, <2>2 DEF Behind
  <2>4. ASSUME NEW b \in Bands, entry[n][b] = 0, ~Replacing(n, b) PROVE b \in refused[n]
    <3>1. CASE Untouched(n, b)
      BY <2>3, <2>4, <3>1
    <3>2. CASE ~Untouched(n, b)
      <4>1. Installs(n) /\ ~(b >= round[n].next)
        BY <2>4, <3>2 DEF Untouched
      <4>2. b < round[n].next
        BY <2>2, <4>1 DEF Rounds, Bands
      <4>3. entry[n][b] = round[n].peer.channel[b]
        BY <2>1, <2>2, <4>1, <4>2 DEF Behind
      <4> QED
        BY <2>2, <2>4, <4>1, <4>3, Channelled
    <3> QED
      BY <3>1, <3>2
  <2>5. ASSUME round[n].pc \notin {"install", "set"}, refused[n] = {}
        PROVE  entry[n] = file[n].channel
    <3>1. \A b \in Bands : entry[n][b] = file[n].channel[b]
      BY <2>3, <2>5 DEF Untouched, Installs
    <3>2. file[n].channel \in Entries
      BY <2>2, Channelled
    <3> QED
      BY <2>2, <3>1, <3>2 DEF Entries
  <2> QED
    BY <2>4, <2>5
<1> QED
  BY <1>1, InvHolds, PTL

-----------------------------------------------------------------------------
(* channel-select.                                                         *)

LEMMA Least == ASSUME NEW T \in SUBSET Nat, T # {} PROVE \E x \in T : \A y \in T : x <= y
<1>1. \E R : IsWellFoundedOn(R, Nat) /\ \A x, y \in Nat : y < x => <<y, x>> \in R
  <2> DEFINE R == OpToRel(<, Nat)
  <2>1. \A x, y \in Nat : y < x => <<y, x>> \in R
    BY DEF OpToRel
  <2>2. IsWellFoundedOn(R, Nat)
    BY NatLessThanWellFounded, Zenon
  <2> HIDE DEF R
  <2> QED
    BY <2>1, <2>2
<1>2. PICK R : IsWellFoundedOn(R, Nat) /\ \A x, y \in Nat : y < x => <<y, x>> \in R
  BY <1>1
<1>3. PICK x \in T : \A y \in T : ~(<<y, x>> \in R)
  BY <1>2, WFMin
<1>4. \A y \in T : ~(y < x)
  BY <1>2, <1>3
<1> QED
  BY <1>3, <1>4

(* Best has the lowest score, whatever the fallback.                       *)
LEMMA BestIsLowest ==
    ASSUME NEW C \in SUBSET Nat, C # {}, NEW score \in [C -> Nat], NEW fallback
    PROVE  Best(score, fallback) \in C /\ \A d \in C : score[Best(score, fallback)] <= score[d]
<1> DEFINE lowest == {c \in C : \A d \in C : score[c] <= score[d]}
<1>1. lowest # {}
  <2> DEFINE scores == {score[c] : c \in C}
  <2>1. scores \in SUBSET Nat /\ scores # {}
    OBVIOUS
  <2>2. PICK x \in scores : \A y \in scores : x <= y
    <3> HIDE DEF scores
    <3> QED
      BY <2>1, Least
  <2>3. PICK c \in C : score[c] = x
    BY <2>2
  <2>4. \A d \in C : score[d] \in scores
    OBVIOUS
  <2>5. c \in lowest
    BY <2>2, <2>3, <2>4
  <2> QED
    BY <2>5
<1>2. \E c \in lowest : \A d \in lowest : c <= d
  <2>1. lowest \in SUBSET Nat
    OBVIOUS
  <2> HIDE DEF lowest
  <2> QED
    BY <1>1, <2>1, Least
<1>3. Best(score, fallback) = IF fallback \in lowest THEN fallback
                              ELSE CHOOSE c \in lowest : \A d \in lowest : c <= d
  BY DEF Best
<1>4. Best(score, fallback) \in lowest
  <2> HIDE DEF lowest
  <2> QED
    BY <1>2, <1>3
<1> QED
  BY <1>4

LEMMA ScoresAreNumbers ==
    ASSUME NEW b \in Bands, NEW noise \in [Channels[b] -> 0..Noise[b]], NEW avoid
    PROVE  /\ Channels[b] \in SUBSET Nat /\ Noise[b] \in Nat
           /\ Scored(b, noise, avoid) \in [Channels[b] -> Nat]
<1>1. Channels[b] \in SUBSET Nat /\ Noise[b] \in Nat
  BY ChannelsAssumption, PairAssumption
<1>2. \A c \in Channels[b] : noise[c] + (IF c = avoid THEN Noise[b] + 1 ELSE 0) \in Nat
  BY <1>1
<1> QED
  BY <1>1, <1>2 DEF Scored

(* After a scan channel-select prints another channel than the one it is   *)
(* to avoid, whatever the scan found, in every band that has another one.  *)
LEMMA ScanAvoids ==
    ASSUME NEW b \in Bands, NEW noise \in [Channels[b] -> 0..Noise[b]], NEW avoid, NEW fallback,
           NEW other \in Channels[b], other # avoid
    PROVE  Best(Scored(b, noise, avoid), fallback) \in Channels[b] \ {avoid}
<1> DEFINE score == Scored(b, noise, avoid)  best == Best(score, fallback)
<1>1. Channels[b] \in SUBSET Nat /\ Noise[b] \in Nat /\ score \in [Channels[b] -> Nat]
  BY ScoresAreNumbers
<1>2. \A c \in Channels[b] :
          score[c] = noise[c] + (IF c = avoid THEN Noise[b] + 1 ELSE 0) /\ noise[c] \in 0..Noise[b]
  BY DEF Scored
<1>3. score[other] <= Noise[b] /\ (avoid \in Channels[b] => score[avoid] > Noise[b])
  BY <1>1, <1>2
<1> HIDE DEF score
<1>4. best \in Channels[b] /\ score[best] <= score[other]
  BY <1>1, BestIsLowest
<1> HIDE DEF best
<1> QED
  BY <1>1, <1>3, <1>4 DEF score, best

(* A start of the radios that can scan a band takes the channel that it     *)
(* knows the peer to use only when the band has no other; whatever the scan *)
(* counts, and also where that channel is its own fallback.                 *)
THEOREM AvoidsPeer ==
    ASSUME NEW n \in Nodes, NEW b \in Bands, NEW c \in Scanned(n, b)
    PROVE  /\ c \in Channels[b]
           /\ c = svc[n].known[b] => Channels[b] = {c}
<1>1. PICK noise \in [Channels[b] -> 0..Noise[b]] :
          c = Best(Scored(b, noise, svc[n].known[b]), Fallback[n][b])
  BY DEF Scanned
<1>2. CASE \E other \in Channels[b] : other # svc[n].known[b]
  BY <1>1, <1>2, ScanAvoids
<1>3. CASE \A other \in Channels[b] : other = svc[n].known[b]
  <2>1. Fallback[n][b] \in Channels[b]
    BY ChannelsAssumption
  <2>2. Channels[b] = {svc[n].known[b]}
    BY <1>3, <2>1
  <2>3. c \in Channels[b]
    BY <1>1, <2>1, ScoresAreNumbers, BestIsLowest
  <2> QED
    BY <2>2, <2>3
<1> QED
  BY <1>2, <1>3
=============================================================================
