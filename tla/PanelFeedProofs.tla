--------------------------- MODULE PanelFeedProofs ---------------------------
(***************************************************************************)
(* Proofs about PanelFeed, for every set of partitions, zones and users,    *)
(* every width of a timer and however the socket cuts what it delivers:     *)
(* what the entities show is what the panel is.                             *)
(*                                                                         *)
(* The argument looks ahead: what the entry will have seen once it has read *)
(* all that was sent (Sees) is true at every step, and what it has seen     *)
(* when nothing is on its way is just that.  Reading does not change it, as *)
(* reading two pieces one after the other is reading them at once           *)
(* (Composed).                                                             *)
(***************************************************************************)
EXTENDS PanelFeed, SequenceTheorems, WellFoundedInduction, TLAPS

-----------------------------------------------------------------------------
(* Induction, on sets of numbers.                                          *)

LEMMA LeastOf ==
  ASSUME NEW T \in SUBSET Nat, T # {}
  PROVE  \E m \in T : \A n \in T : m <= n
<1>1. PICK m \in T : \A n \in T : <<n, m>> \notin OpToRel(<, Nat)
  BY NatLessThanWellFounded, WFMin
<1>2. \A n \in T : ~(n < m)
  BY <1>1 DEF OpToRel
<1> QED
  BY <1>2

LEMMA UpTo ==
  ASSUME NEW N \in Nat, NEW T, 0 \in T,
         \A k \in 1..N : k - 1 \in T => k \in T
  PROVE  \A k \in 0..N : k \in T
<1> DEFINE missing == {k \in 0..N : k \notin T}
<1>1. SUFFICES ASSUME missing # {} PROVE FALSE
  OBVIOUS
<1>2. PICK m \in missing : \A n \in missing : m <= n
  <2>1. missing \in SUBSET Nat
    OBVIOUS
  <2> HIDE DEF missing
  <2> QED
    BY <1>1, <2>1, LeastOf
<1>3. m \in 0..N /\ m \notin T
  BY <1>2
<1>4. m # 0 /\ m \in 1..N
  BY <1>3
<1>5. m - 1 \notin missing
  BY <1>2, <1>3
<1>6. m - 1 \in T
  BY <1>4, <1>5
<1> QED
  BY <1>3, <1>4, <1>6

-----------------------------------------------------------------------------
(* Reading.                                                                *)

IsRun(f, read, tokens) ==
    /\ f[0] = read
    /\ \A k \in 1..Len(tokens) : f[k] = Took(f[k - 1], tokens[k])

Step(g, n, read, tokens) ==
    [k \in 0..n |-> IF k = 0 THEN read ELSE Took(g[k - 1], tokens[k])]

\* What Consumed defines step by step is there.
LEMMA ARunExists ==
  ASSUME NEW read, NEW tokens, NEW n \in Nat
  PROVE  \E g : g = Step(g, n, read, tokens)
<1> DEFINE T == {k \in Nat : \E g : g = Step(g, k, read, tokens)}
<1>1. 0 \in T
  <2> DEFINE g == [k \in 0..0 |-> read]
  <2>1. g = Step(g, 0, read, tokens)
    BY DEF Step
  <2> QED
    BY <2>1
<1>2. ASSUME NEW k \in 1..n, k - 1 \in T PROVE k \in T
  <2>1. PICK g : g = Step(g, k - 1, read, tokens)
    BY <1>2
  <2> DEFINE h == [j \in 0..k |-> IF j < k THEN g[j] ELSE Took(g[k - 1], tokens[k])]
  <2>2. ASSUME NEW j \in 0..k
        PROVE  h[j] = IF j = 0 THEN read ELSE Took(h[j - 1], tokens[j])
    <3>1. CASE j = 0
      BY <2>1, <3>1 DEF Step
    <3>2. CASE j \in 1..(k - 1)
      <4>1. g[j] = Took(g[j - 1], tokens[j])
        BY <2>1, <3>2 DEF Step
      <4>2. h[j] = g[j] /\ h[j - 1] = g[j - 1]
        BY <3>2
      <4> QED
        BY <3>2, <4>1, <4>2
    <3>3. CASE j = k
      <4>1. h[j] = Took(g[k - 1], tokens[k]) /\ h[k - 1] = g[k - 1] /\ j # 0
        BY <3>3
      <4> QED
        BY <3>3, <4>1
    <3> QED
      BY <3>1, <3>2, <3>3
  <2>3. h = Step(h, k, read, tokens)
    <3>1. h = [j \in 0..k |-> h[j]]
      OBVIOUS
    <3> HIDE DEF h
    <3> QED
      BY <2>2, <3>1 DEF Step
  <2> HIDE DEF h
  <2> QED
    BY <2>3
<1>3. \A k \in 0..n : k \in T
  <2> HIDE DEF T
  <2> QED
    BY <1>1, <1>2, UpTo
<1> QED
  BY <1>3

LEMMA ConsumedIs ==
  ASSUME NEW read, NEW S, NEW tokens \in Seq(S)
  PROVE  \E f : /\ IsRun(f, read, tokens)
                /\ Consumed(read, tokens) = f[Len(tokens)]
<1> DEFINE taken[k \in 0..Len(tokens)] ==
             IF k = 0 THEN read ELSE Took(taken[k - 1], tokens[k])
<1>1. Len(tokens) \in Nat
  OBVIOUS
<1>2. PICK g : g = Step(g, Len(tokens), read, tokens)
  BY <1>1, ARunExists
<1>3. taken = [k \in 0..Len(tokens) |->
                 IF k = 0 THEN read ELSE Took(taken[k - 1], tokens[k])]
  <2>1. g = [k \in 0..Len(tokens) |->
               IF k = 0 THEN read ELSE Took(g[k - 1], tokens[k])]
    BY <1>2 DEF Step
  <2> QED
    BY <2>1
<1>4. Consumed(read, tokens) = taken[Len(tokens)]
  BY DEF Consumed
<1> HIDE DEF taken
<1>5. IsRun(taken, read, tokens)
  BY <1>1, <1>3 DEF IsRun
<1> QED
  BY <1>4, <1>5

\* And there is only one.
LEMMA ConsumedWhen ==
  ASSUME NEW read, NEW S, NEW tokens \in Seq(S), NEW f, IsRun(f, read, tokens)
  PROVE  Consumed(read, tokens) = f[Len(tokens)]
<1>1. PICK g : /\ IsRun(g, read, tokens)
               /\ Consumed(read, tokens) = g[Len(tokens)]
  BY ConsumedIs
<1>2. Len(tokens) \in Nat
  OBVIOUS
<1> DEFINE T == {k \in Nat : f[k] = g[k]}
<1>3. 0 \in T
  BY <1>1 DEF IsRun
<1>4. ASSUME NEW k \in 1..Len(tokens), k - 1 \in T PROVE k \in T
  BY <1>1, <1>2, <1>4 DEF IsRun
<1>5. \A k \in 0..Len(tokens) : k \in T
  <2> HIDE DEF T
  <2> QED
    BY <1>2, <1>3, <1>4, UpTo
<1> QED
  BY <1>1, <1>2, <1>5

LEMMA NothingConsumed ==
  ASSUME NEW read PROVE Consumed(read, <<>>) = read
<1>1. PICK f : IsRun(f, read, <<>>) /\ Consumed(read, <<>>) = f[Len(<<>>)]
  <2>1. <<>> \in Seq({})
    OBVIOUS
  <2> QED
    BY <2>1, ConsumedIs
<1> QED
  BY <1>1 DEF IsRun

LEMMA TwoConsumed ==
  ASSUME NEW read, NEW a, NEW b
  PROVE  Consumed(read, <<a, b>>) = Took(Took(read, a), b)
<1>1. PICK f : IsRun(f, read, <<a, b>>) /\ Consumed(read, <<a, b>>) = f[2]
  <2>1. <<a, b>> \in Seq({a, b}) /\ Len(<<a, b>>) = 2
    OBVIOUS
  <2> QED
    BY <2>1, ConsumedIs
<1>2. f[0] = read /\ f[1] = Took(f[0], a) /\ f[2] = Took(f[1], b)
  BY <1>1 DEF IsRun
<1> QED
  BY <1>1, <1>2

LEMMA OneConsumed ==
  ASSUME NEW read, NEW a
  PROVE  Consumed(read, <<a>>) = Took(read, a)
<1>1. PICK f : IsRun(f, read, <<a>>) /\ Consumed(read, <<a>>) = f[1]
  <2>1. <<a>> \in Seq({a}) /\ Len(<<a>>) = 1
    OBVIOUS
  <2> QED
    BY <2>1, ConsumedIs
<1>2. f[0] = read /\ f[1] = Took(f[0], a)
  BY <1>1 DEF IsRun
<1> QED
  BY <1>1, <1>2

\* Reading two pieces one after the other is reading them at once.
LEMMA Composed ==
  ASSUME NEW read, NEW S, NEW a \in Seq(S), NEW b \in Seq(S)
  PROVE  Consumed(read, a \o b) = Consumed(Consumed(read, a), b)
<1>1. /\ a \o b \in Seq(S) /\ Len(a \o b) = Len(a) + Len(b)
      /\ \A i \in 1..(Len(a) + Len(b)) :
            (a \o b)[i] = IF i <= Len(a) THEN a[i] ELSE b[i - Len(a)]
  BY ConcatProperties
<1>2. Len(a) \in Nat /\ Len(b) \in Nat
  OBVIOUS
<1> DEFINE ab == a \o b
<1>3. PICK f : IsRun(f, read, ab) /\ Consumed(read, ab) = f[Len(ab)]
  BY <1>1, ConsumedIs
<1> HIDE DEF ab
<1>4. /\ f[0] = read
      /\ \A k \in 1..(Len(a) + Len(b)) : f[k] = Took(f[k - 1], ab[k])
  BY <1>1, <1>3 DEF IsRun, ab
<1>5. IsRun(f, read, a)
  <2>1. ASSUME NEW k \in 1..Len(a) PROVE f[k] = Took(f[k - 1], a[k])
    <3>1. k \in 1..(Len(a) + Len(b)) /\ k <= Len(a)
      BY ONLY <1>2, <2>1
    <3>2. ab[k] = a[k]
      BY <1>1, <3>1 DEF ab
    <3> QED
      BY <1>4, <3>1, <3>2
  <2> QED
    BY <1>4, <2>1 DEF IsRun
<1>6. Consumed(read, a) = f[Len(a)]
  BY <1>5, ConsumedWhen
<1> DEFINE g == [k \in 0..Len(b) |-> f[Len(a) + k]]
<1>7. IsRun(g, Consumed(read, a), b)
  <2>1. g[0] = f[Len(a)]
    BY <1>2
  <2>2. ASSUME NEW k \in 1..Len(b) PROVE g[k] = Took(g[k - 1], b[k])
    <3>1. /\ Len(a) + k \in 1..(Len(a) + Len(b)) /\ ~(Len(a) + k <= Len(a))
          /\ (Len(a) + k) - Len(a) = k /\ (Len(a) + k) - 1 = Len(a) + (k - 1)
          /\ k \in 0..Len(b) /\ k - 1 \in 0..Len(b)
      BY ONLY <1>2, <2>2
    <3>2. ab[Len(a) + k] = b[k]
      BY <1>1, <3>1 DEF ab
    <3>3. f[Len(a) + k] = Took(f[Len(a) + (k - 1)], b[k])
      BY <1>4, <3>1, <3>2
    <3> QED
      BY <3>1, <3>3
  <2> HIDE DEF g
  <2> QED
    BY <1>6, <2>1, <2>2 DEF IsRun
<1>8. Consumed(Consumed(read, a), b) = g[Len(b)]
  <2> HIDE DEF g
  <2> QED
    BY <1>7, ConsumedWhen
<1>9. g[Len(b)] = f[Len(a) + Len(b)]
  BY <1>2
<1> QED
  BY <1>1, <1>3, <1>8, <1>9 DEF ab

-----------------------------------------------------------------------------
(* What is sent, and what a reading of it is.                              *)

Icons == {"armed_away", "armed_stay", "armed_zero_entry_delay", "alarm",
          "ac_present", "system_trouble"}
KeypadUpdates ==
    [code : {"keypad"}, partition : PanelPartitions, icons : SUBSET Icons,
     exit : BOOLEAN]
CidEvents ==
    [code : {"cid"}, event : {"arming", "program", "leave"},
     qualifier : {"opening", "closing"}, partition : PanelPartitions \cup {0},
     user : Users \cup {None}]
DumpChunks == {<<>>} \cup {Chunk(t) : t \in 0..Top}
Dumps == [code : {"timers"}, timers : [PanelZones -> DumpChunks]]
Reports == KeypadUpdates \cup CidEvents \cup Dumps

PartitionMaps ==
    UNION {[known -> PartitionStates] :
               known \in {k \in SUBSET PanelPartitions : Partitions \subseteq k}}
States == [partitions : PartitionMaps, zones : [Zones -> ZoneStates],
           installersMode : BOOLEAN]

Bodies == [tok : {"body"}, of : Reports]
Tokens == Bodies \cup {Noise, End}
Texts == Seq(Tokens \ {End})
Readings == [state : States, buffer : Texts]

LEMMA TopIs == Top \in Nat
<1>1. Base \in Nat /\ Base >= 2
  BY FeedConstants
<1>2. Base * Base >= 2
  <2>1. \A b \in Nat : b >= 2 => b * b >= 2
    OBVIOUS
  <2> QED
    BY <1>1, <2>1
<1>3. Base * Base \in Nat
  BY <1>1
<1> QED
  BY <1>2, <1>3 DEF Top

\* The two bytes of a timer are put together again.
LEMMA TicksOfChunk ==
  ASSUME NEW t \in 0..Top
  PROVE  Chunk(t) # <<>> /\ Ticks(Chunk(t)) = t
<1>1. Top - t \in Nat /\ t \in Int /\ Top \in Int
  BY TopIs
<1>2. \A n \in Nat, b \in Nat \ {0} : (n \div b) * b + (n % b) = n
  OBVIOUS
<1>3. ((Top - t) \div Base) * Base + ((Top - t) % Base) = Top - t
  BY <1>1, <1>2, FeedConstants
<1>4. Ticks(Chunk(t)) = Top - (Top - t)
  BY <1>3 DEF Ticks, Chunk
<1> QED
  BY <1>1, <1>4 DEF Chunk

LEMMA StatesAreOK == \A st : st \in States <=> StateOK(st)
BY DEF States, PartitionMaps, StateOK

LEMMA WithPartitionTyped ==
  ASSUME NEW st \in States, NEW p \in PanelPartitions, NEW q \in PartitionStates
  PROVE  LET new == WithPartition(st, p, q)
         IN  /\ new \in States /\ new.zones = st.zones
             /\ new.installersMode = st.installersMode
             /\ DOMAIN new.partitions = DOMAIN st.partitions \cup {p}
             /\ new.partitions[p] = q
             /\ \A r \in DOMAIN st.partitions \ {p} :
                   new.partitions[r] = st.partitions[r]
<1> DEFINE old == st.partitions
           map == [r \in DOMAIN old \cup {p} |-> IF r = p THEN q ELSE old[r]]
<1>1. /\ old \in [DOMAIN old -> PartitionStates]
      /\ DOMAIN old \subseteq PanelPartitions /\ Partitions \subseteq DOMAIN old
  BY DEF States, PartitionMaps
<1>2. /\ DOMAIN map = DOMAIN old \cup {p} /\ map[p] = q
      /\ \A r \in DOMAIN old \ {p} : map[r] = old[r]
      /\ map = [r \in DOMAIN old \cup {p} |-> map[r]]
  OBVIOUS
<1> HIDE DEF map
<1>3. map \in [DOMAIN old \cup {p} -> PartitionStates]
  BY <1>1, <1>2
<1>4. map \in PartitionMaps
  <2>1. DOMAIN old \cup {p} \in {k \in SUBSET PanelPartitions : Partitions \subseteq k}
    BY <1>1
  <2> QED
    BY <1>3, <2>1 DEF PartitionMaps
<1>5. WithPartition(st, p, q) = [st EXCEPT !.partitions = map]
  BY DEF WithPartition, map
<1> QED
  BY <1>2, <1>4, <1>5 DEF States

LEMMA PartitionInTyped ==
  ASSUME NEW st \in States, NEW p \in PanelPartitions
  PROVE  PartitionIn(st, p) \in PartitionStates
<1>1. NewPartition \in PartitionStates
  BY DEF NewPartition, PartitionStates
<1>2. \A r \in DOMAIN st.partitions : st.partitions[r] \in PartitionStates
  BY DEF States, PartitionMaps
<1> QED
  BY <1>1, <1>2 DEF PartitionIn

LEMMA Truth ==
  ASSUME NEW x, NEW S PROVE \E b \in BOOLEAN : b = (x \in S)
<1>1. CASE x \in S
  <2>1. TRUE = (x \in S)
    BY <1>1
  <2> QED
    BY <2>1, Zenon
<1>2. CASE x \notin S
  <2>1. FALSE = (x \in S)
    BY <1>2
  <2> QED
    BY <2>1, Zenon
<1> QED
  BY <1>1, <1>2

\* Folding in one report, kind by kind.
LEMMA KeypadFolded ==
  ASSUME NEW st \in States, NEW e \in KeypadUpdates
  PROVE  LET new == apply_event(st, e)
             now == new.partitions[e.partition]
         IN  /\ new \in States /\ new.zones = st.zones
             /\ new.installersMode = st.installersMode
             /\ DOMAIN new.partitions = DOMAIN st.partitions \cup {e.partition}
             /\ \A r \in DOMAIN st.partitions \ {e.partition} :
                   new.partitions[r] = st.partitions[r]
             /\ now.alarm = ("alarm" \in e.icons)
             /\ now.acPresent = ("ac_present" \in e.icons)
             /\ now.trouble = ("system_trouble" \in e.icons)
             /\ now.exitDelay = e.exit
             /\ now.armed = (e.icons \cap {"armed_away", "armed_stay"} # {})
             /\ now.armState = ArmState(e.icons)
             /\ now.lastArmed = PartitionIn(st, e.partition).lastArmed
             /\ now.lastDisarmed = PartitionIn(st, e.partition).lastDisarmed
<1> DEFINE q == [PartitionIn(st, e.partition) EXCEPT
                   !.alarm = "alarm" \in e.icons,
                   !.acPresent = "ac_present" \in e.icons,
                   !.trouble = "system_trouble" \in e.icons,
                   !.exitDelay = e.exit,
                   !.armed = e.icons \cap {"armed_away", "armed_stay"} # {},
                   !.armState = ArmState(e.icons)]
<1>1. /\ e.partition \in PanelPartitions /\ e.exit \in BOOLEAN
      /\ e.code = "keypad"
  BY DEF KeypadUpdates
<1>2. PartitionIn(st, e.partition) \in PartitionStates
  BY <1>1, PartitionInTyped
<1>3. ArmState(e.icons) \in {"disarmed", "armed_away", "armed_home", "armed_night"}
  BY DEF ArmState
<1>4. q.armState = ArmState(e.icons)
      /\ q.lastArmed = PartitionIn(st, e.partition).lastArmed
      /\ q.lastDisarmed = PartitionIn(st, e.partition).lastDisarmed
  BY <1>2 DEF PartitionStates
<1>5. q \in PartitionStates
  <2>1. PICK old \in PartitionStates : old = PartitionIn(st, e.partition)
    BY <1>2
  <2>2. PICK as \in {"disarmed", "armed_away", "armed_home", "armed_night"} :
          as = ArmState(e.icons)
    BY <1>3
  <2>3. PICK exit \in BOOLEAN : exit = e.exit
    BY <1>1
  <2>4. PICK alarm \in BOOLEAN : alarm = ("alarm" \in e.icons)
    BY Truth
  <2>5. PICK ac \in BOOLEAN : ac = ("ac_present" \in e.icons)
    BY Truth
  <2>6. PICK trouble \in BOOLEAN : trouble = ("system_trouble" \in e.icons)
    BY Truth
  <2>7. PICK armed \in BOOLEAN :
          armed = (e.icons \cap {"armed_away", "armed_stay"} # {})
    BY Zenon
  <2>8. q = [old EXCEPT !.alarm = alarm, !.acPresent = ac, !.trouble = trouble,
                        !.exitDelay = exit, !.armed = armed, !.armState = as]
    BY <2>1, <2>2, <2>3, <2>4, <2>5, <2>6, <2>7
  <2>10. [old EXCEPT !.alarm = alarm, !.acPresent = ac, !.trouble = trouble,
                     !.exitDelay = exit, !.armed = armed, !.armState = as]
           \in PartitionStates
    BY ONLY old \in PartitionStates, alarm \in BOOLEAN, ac \in BOOLEAN,
            trouble \in BOOLEAN, exit \in BOOLEAN, armed \in BOOLEAN,
            as \in {"disarmed", "armed_away", "armed_home", "armed_night"}
       DEF PartitionStates
  <2> HIDE DEF q
  <2> QED
    BY ONLY <2>8, <2>10
<1>6. q.alarm = ("alarm" \in e.icons)
  BY <1>2 DEF PartitionStates
<1>7. q.acPresent = ("ac_present" \in e.icons)
  BY <1>2 DEF PartitionStates
<1>8. q.trouble = ("system_trouble" \in e.icons)
  BY <1>2 DEF PartitionStates
<1>9. q.armed = (e.icons \cap {"armed_away", "armed_stay"} # {})
  BY <1>2 DEF PartitionStates
<1>10. q.exitDelay = e.exit
  BY <1>2 DEF PartitionStates
<1>11. apply_event(st, e) = WithPartition(st, e.partition, q)
  BY <1>1 DEF apply_event, ApplyKeypad
<1> HIDE DEF q
<1> QED
  BY <1>1, <1>4, <1>5, <1>6, <1>7, <1>8, <1>9, <1>10, <1>11, WithPartitionTyped

LEMMA CidFolded ==
  ASSUME NEW st \in States, NEW e \in CidEvents
  PROVE  LET new == apply_event(st, e)
             p == CidPartition(e)
             now == new.partitions[p]
         IN  /\ new \in States /\ new.zones = st.zones /\ p \in PanelPartitions
             /\ e.event = "program" => new = [st EXCEPT !.installersMode = TRUE]
             /\ e.event = "leave" => new = [st EXCEPT !.installersMode = FALSE]
             /\ e.event = "arming" =>
                  /\ new.installersMode = st.installersMode
                  /\ DOMAIN new.partitions = DOMAIN st.partitions \cup {p}
                  /\ \A r \in DOMAIN st.partitions \ {p} :
                        new.partitions[r] = st.partitions[r]
                  /\ e.qualifier = "opening" =>
                       now = [PartitionIn(st, p) EXCEPT !.lastDisarmed = e.user]
                  /\ e.qualifier = "closing" =>
                       now = [PartitionIn(st, p) EXCEPT !.lastArmed = e.user]
<1> DEFINE p == CidPartition(e)
           down == [PartitionIn(st, p) EXCEPT !.lastDisarmed = e.user]
           on == [PartitionIn(st, p) EXCEPT !.lastArmed = e.user]
<1>1. /\ e.partition \in PanelPartitions \cup {0} /\ e.code = "cid"
      /\ e.user \in Users \cup {None} /\ e.event \in {"arming", "program", "leave"}
      /\ e.qualifier \in {"opening", "closing"}
  BY DEF CidEvents
<1>2. p \in PanelPartitions
  BY <1>1, FeedConstants DEF CidPartition
<1>3. PartitionIn(st, p) \in PartitionStates
  BY <1>2, PartitionInTyped
<1>4. down \in PartitionStates /\ on \in PartitionStates
  BY <1>1, <1>3 DEF PartitionStates
<1>5. apply_event(st, e) = ApplyCid(st, e)
  BY <1>1 DEF apply_event
<1>6. CASE e.event \in {"program", "leave"}
  BY <1>2, <1>5, <1>6 DEF ApplyCid, States
<1>7. CASE e.event = "arming" /\ e.qualifier = "opening"
  <2>1. apply_event(st, e) = WithPartition(st, p, down)
    BY <1>5, <1>7 DEF ApplyCid
  <2> HIDE DEF p, down
  <2> QED
    BY <1>2, <1>4, <1>7, <2>1, WithPartitionTyped DEF p, down
<1>8. CASE e.event = "arming" /\ e.qualifier = "closing"
  <2>1. apply_event(st, e) = WithPartition(st, p, on)
    BY <1>5, <1>8 DEF ApplyCid
  <2> HIDE DEF p, on
  <2> QED
    BY <1>2, <1>4, <1>8, <2>1, WithPartitionTyped DEF p, on
<1> QED
  BY <1>1, <1>6, <1>7, <1>8

LEMMA DumpFolded ==
  ASSUME NEW st \in States, NEW e \in Dumps
  PROVE  LET new == apply_event(st, e)
         IN  /\ new \in States /\ new.partitions = st.partitions
             /\ new.installersMode = st.installersMode
             /\ \A z \in Zones :
                   IF e.timers[z] = <<>> THEN new.zones[z] = st.zones[z]
                   ELSE /\ new.zones[z].open = (Ticks(e.timers[z]) <= OpenTicks)
                        /\ new.zones[z].seconds = 5 * Ticks(e.timers[z])
<1> DEFINE zone(z) == IF e.timers[z] = <<>> THEN st.zones[z]
                      ELSE [open |-> Ticks(e.timers[z]) <= OpenTicks,
                            seconds |-> 5 * Ticks(e.timers[z])]
<1>1. /\ e.code = "timers" /\ \A z \in PanelZones : e.timers[z] \in DumpChunks
      /\ Zones \subseteq PanelZones
  BY FeedConstants DEF Dumps
<1>2. /\ st.zones \in [Zones -> ZoneStates] /\ DOMAIN st.zones = Zones
  BY DEF States
<1>3. ASSUME NEW z \in Zones PROVE zone(z) \in ZoneStates
  <2>1. CASE e.timers[z] = <<>>
    BY <1>2, <2>1
  <2>2. CASE e.timers[z] # <<>>
    <3>1. PICK t \in 0..Top : e.timers[z] = Chunk(t)
      BY <1>1, <2>2 DEF DumpChunks
    <3>2. Ticks(e.timers[z]) = t
      BY <3>1, TicksOfChunk
    <3>3. (t <= OpenTicks) \in BOOLEAN /\ 5 * t \in 0..(5 * Top)
      BY TopIs
    <3> QED
      BY <2>2, <3>2, <3>3 DEF ZoneStates
  <2> QED
    BY <2>1, <2>2
<1>4. apply_event(st, e) = [st EXCEPT !.zones = [z \in Zones |-> zone(z)]]
  BY <1>1, <1>2 DEF apply_event, ApplyDump
<1>5. [z \in Zones |-> zone(z)] \in [Zones -> ZoneStates]
  BY <1>3
<1> QED
  BY <1>4, <1>5 DEF States

LEMMA FoldTyped ==
  ASSUME NEW st \in States, NEW e \in Reports
  PROVE  apply_event(st, e) \in States
BY KeypadFolded, CidFolded, DumpFolded DEF Reports

-----------------------------------------------------------------------------
(* Cutting frames out of what is read.                                     *)

LEMMA StripFinds ==
  ASSUME NEW text \in Texts, WellFormed(Strip(text))
  PROVE  \E m \in DOMAIN text : Strip(text)[1] = text[m] /\ text[m] \in Bodies
<1>1. Len(text) \in Nat /\ DOMAIN text = 1..Len(text)
      /\ \A i \in 1..Len(text) : text[i] \in Tokens \ {End}
  BY DEF Texts
<1>2. Sentinels(text) \subseteq 1..Len(text)
  BY <1>1 DEF Sentinels
<1>3. Sentinels(text) # {}
  <2>1. SUFFICES ASSUME Sentinels(text) = {} PROVE FALSE
    OBVIOUS
  <2>2. text # <<>> /\ text[1].tok = "body"
    BY <2>1 DEF Strip, WellFormed
  <2>3. 1 \in DOMAIN text
    BY <1>1, <2>2 DEF Texts
  <2> QED
    BY <2>1, <2>2, <2>3 DEF Sentinels
<1> DEFINE m == Min(Sentinels(text))
<1>4. m \in Sentinels(text)
  <2>1. Sentinels(text) \in SUBSET Nat
    BY <1>1, <1>2
  <2>2. \E x \in Sentinels(text) : \A y \in Sentinels(text) : x <= y
    BY <1>3, <2>1, LeastOf
  <2> QED
    BY <2>2 DEF Min
<1> HIDE DEF m
<1>5. m \in 1..Len(text) /\ text[m].tok = "body" /\ text[m] \in Tokens
  BY <1>1, <1>2, <1>4 DEF Sentinels
<1>6. Strip(text) = SubSeq(text, m, Len(text))
  BY <1>3 DEF Strip, m
<1>7. SubSeq(text, m, Len(text))[1] = text[m]
  BY <1>1, <1>5 DEF Texts
<1>8. text[m] \in Bodies
  BY <1>5 DEF Tokens, Noise, End, Token
<1> QED
  BY <1>1, <1>5, <1>6, <1>7, <1>8

LEMMA DispatchTyped ==
  ASSUME NEW st \in States, NEW text \in Texts
  PROVE  Dispatch(st, Strip(text)) \in States
<1>1. CASE ~WellFormed(Strip(text))
  BY <1>1 DEF Dispatch
<1>2. CASE WellFormed(Strip(text))
  <2>1. Strip(text)[1] \in Bodies
    BY <1>2, StripFinds
  <2>2. Strip(text)[1].of \in Reports
    BY <2>1 DEF Bodies
  <2> QED
    BY <1>2, <2>2, FoldTyped DEF Dispatch
<1> QED
  BY <1>1, <1>2

LEMMA TookTyped ==
  ASSUME NEW read \in Readings, NEW token \in Tokens
  PROVE  Took(read, token) \in Readings
<1>1. read.state \in States /\ read.buffer \in Texts
  BY DEF Readings
<1>2. CASE token.tok = "end"
  <2>1. <<>> \in Texts
    BY DEF Texts
  <2>2. Dispatch(read.state, Strip(read.buffer)) \in States
    BY <1>1, DispatchTyped
  <2>3. Took(read, token) =
          [state |-> Dispatch(read.state, Strip(read.buffer)), buffer |-> <<>>]
    BY <1>2 DEF Took
  <2> QED
    BY <2>1, <2>2, <2>3 DEF Readings
<1>3. CASE token.tok # "end"
  <2>1. token # End
    BY <1>3 DEF End, Token
  <2>2. Append(read.buffer, token) \in Texts
    BY <1>1, <2>1 DEF Texts
  <2>3. Took(read, token) = [read EXCEPT !.buffer = Append(read.buffer, token)]
    BY <1>3 DEF Took
  <2> QED
    BY <2>2, <2>3 DEF Readings
<1> QED
  BY <1>2, <1>3

LEMMA ConsumedTyped ==
  ASSUME NEW read \in Readings, NEW tokens \in Seq(Tokens)
  PROVE  Consumed(read, tokens) \in Readings
<1>1. PICK f : /\ IsRun(f, read, tokens)
               /\ Consumed(read, tokens) = f[Len(tokens)]
  BY ConsumedIs
<1>2. Len(tokens) \in Nat /\ \A k \in 1..Len(tokens) : tokens[k] \in Tokens
  OBVIOUS
<1> DEFINE T == {k \in Nat : f[k] \in Readings}
<1>3. 0 \in T
  BY <1>1 DEF IsRun
<1>4. ASSUME NEW k \in 1..Len(tokens), k - 1 \in T PROVE k \in T
  BY <1>1, <1>2, <1>4, TookTyped DEF IsRun
<1>5. \A k \in 0..Len(tokens) : k \in T
  <2> HIDE DEF T
  <2> QED
    BY <1>2, <1>3, <1>4, UpTo
<1> QED
  BY <1>1, <1>2, <1>5

\* What is sent for a report: its frame, maybe after noise.
Sendings(e) == {Frame(e), <<Noise>> \o Frame(e), <<Noise, End>> \o Frame(e)}

LEMMA FrameRead ==
  ASSUME NEW read \in Readings, NEW e \in Reports, Sentinels(read.buffer) = {}
  PROVE  Consumed(read, Frame(e)) =
           [state |-> apply_event(read.state, e), buffer |-> <<>>]
<1> DEFINE body == Token("body", e)
           text == Append(read.buffer, body)
<1>1. read.state \in States /\ read.buffer \in Texts /\ body.tok = "body"
      /\ End.tok = "end" /\ body.of = e
  BY DEF Readings, Token, End
<1>2. /\ Len(read.buffer) \in Nat /\ Len(text) = Len(read.buffer) + 1
      /\ DOMAIN text = 1..(Len(read.buffer) + 1)
      /\ \A i \in 1..Len(read.buffer) : text[i] = read.buffer[i]
      /\ text[Len(read.buffer) + 1] = body
      /\ DOMAIN read.buffer = 1..Len(read.buffer)
      /\ text \in Seq(Tokens \cup {body})
  <2> HIDE DEF body
  <2> QED
    BY <1>1 DEF Texts
<1>3. Took(read, body) = [read EXCEPT !.buffer = text]
  BY <1>1 DEF Took
<1>4. Consumed(read, Frame(e)) =
        [state |-> Dispatch(read.state, Strip(text)), buffer |-> <<>>]
  <2>1. Consumed(read, <<body, End>>) = Took(Took(read, body), End)
    BY TwoConsumed
  <2>4. Frame(e) = <<body, End>>
    BY DEF Frame
  <2>3. Consumed(read, Frame(e)) = Took([read EXCEPT !.buffer = text], End)
    BY ONLY <1>3, <2>1, <2>4
  <2>2. /\ [read EXCEPT !.buffer = text].buffer = text
        /\ [read EXCEPT !.buffer = text].state = read.state
    BY DEF Readings
  <2> HIDE DEF text
  <2> QED
    BY <1>1, <2>2, <2>3 DEF Took
<1> HIDE DEF text, body
<1>5. PICK n : n = Len(read.buffer) + 1
  OBVIOUS
<1>6. /\ n \in 1..Len(text) /\ n \in Nat /\ Len(text) = n /\ text[n] = body
      /\ text \in Seq(Tokens \cup {body})
      /\ \A i \in 1..Len(text) : i = n \/ text[i] = read.buffer[i]
      /\ \A i \in 1..Len(text) : i = n \/ i \in DOMAIN read.buffer
      /\ DOMAIN text = 1..Len(text)
  BY <1>2, <1>5
<1>7. Sentinels(text) = {n}
  BY <1>1, <1>6 DEF Sentinels
<1>11. Min(Sentinels(text)) = n
  BY <1>6, <1>7 DEF Min
<1>12. Strip(text) = SubSeq(text, n, n)
  BY <1>6, <1>7, <1>11 DEF Strip
<1>8. /\ Len(SubSeq(text, n, n)) = 1 /\ SubSeq(text, n, n)[1] = body
  <2>1. n \in n-1..Len(text) /\ n - n + 1 = 1 /\ 1 \in 1..1 /\ n + 1 - 1 = n
    BY <1>6
  <2>2. /\ Len(SubSeq(text, n, n)) = n - n + 1
        /\ \A i \in 1..(n - n + 1) : SubSeq(text, n, n)[i] = text[n + i - 1]
    BY ONLY <1>6, <2>1, SubSeqProperties
  <2> QED
    BY ONLY <1>6, <2>1, <2>2
<1>9. WellFormed(Strip(text)) /\ Strip(text)[1] = body
  <2>1. Len(Strip(text)) = 1 /\ Strip(text)[1] = body
    BY ONLY <1>8, <1>12
  <2>2. Strip(text) # <<>>
    BY ONLY <2>1
  <2> QED
    BY <1>1, <2>1, <2>2 DEF WellFormed
<1>10. Dispatch(read.state, Strip(text)) = apply_event(read.state, e)
  BY <1>1, <1>9 DEF Dispatch
<1> QED
  BY <1>4, <1>10

LEMMA NoiseRead ==
  ASSUME NEW read \in Readings, read.buffer = <<>>
  PROVE  /\ Consumed(read, <<Noise>>) = [read EXCEPT !.buffer = <<Noise>>]
         /\ Consumed(read, <<Noise, End>>) = read
         /\ Sentinels(<<>>) = {} /\ Sentinels(<<Noise>>) = {}
<1>1. Noise.tok = "noise" /\ End.tok = "end"
  BY DEF Noise, End, Token
<1>2. Took(read, Noise) = [read EXCEPT !.buffer = <<Noise>>]
  BY <1>1 DEF Took
<1>3. Sentinels(<<>>) = {} /\ Sentinels(<<Noise>>) = {}
  BY <1>1 DEF Sentinels
<1>4. Consumed(read, <<Noise, End>>) = read
  <2>1. /\ [read EXCEPT !.buffer = <<Noise>>].buffer = <<Noise>>
        /\ [read EXCEPT !.buffer = <<Noise>>].state = read.state
    BY DEF Readings
  <2>2. ~WellFormed(Strip(<<Noise>>))
    BY <1>1, <1>3 DEF Strip, WellFormed
  <2>3. Took([read EXCEPT !.buffer = <<Noise>>], End) =
          [state |-> read.state, buffer |-> <<>>]
    BY <1>1, <2>1, <2>2 DEF Took, Dispatch
  <2>4. [state |-> read.state, buffer |-> <<>>] = read
    BY DEF Readings
  <2> QED
    BY <1>2, <2>3, <2>4, TwoConsumed
<1> QED
  BY <1>2, <1>3, <1>4, OneConsumed

LEMMA SendingRead ==
  ASSUME NEW read \in Readings, read.buffer = <<>>, NEW e \in Reports,
         NEW tokens \in Sendings(e)
  PROVE  /\ tokens \in Seq(Tokens)
         /\ Consumed(read, tokens) =
               [state |-> apply_event(read.state, e), buffer |-> <<>>]
<1>1. /\ Token("body", e) \in Tokens /\ Noise \in Tokens /\ End \in Tokens
      /\ Noise # End
  BY DEF Tokens, Bodies, Token, Noise, End
<1>2. /\ Frame(e) \in Seq(Tokens) /\ <<Noise>> \in Seq(Tokens)
      /\ <<Noise, End>> \in Seq(Tokens) /\ <<Noise>> \in Texts
  BY <1>1 DEF Frame, Texts
<1>3. [read EXCEPT !.buffer = <<Noise>>] \in Readings
      /\ [read EXCEPT !.buffer = <<Noise>>].state = read.state
      /\ [read EXCEPT !.buffer = <<Noise>>].buffer = <<Noise>>
  BY <1>2 DEF Readings
<1>4. Sentinels(read.buffer) = {} /\ Sentinels(<<Noise>>) = {}
  BY NoiseRead
<1>5. Consumed(read, Frame(e)) =
        [state |-> apply_event(read.state, e), buffer |-> <<>>]
  BY <1>4, FrameRead
<1>6. CASE tokens = <<Noise>> \o Frame(e)
  <2> DEFINE noisy == [read EXCEPT !.buffer = <<Noise>>]
  <2>1. Consumed(read, <<Noise>> \o Frame(e)) =
          Consumed(Consumed(read, <<Noise>>), Frame(e))
    <3>1. \A a, b \in Seq(Tokens) :
             Consumed(read, a \o b) = Consumed(Consumed(read, a), b)
      BY Composed
    <3> QED
      BY ONLY <1>2, <3>1, Zenon
  <2>2. Consumed(read, <<Noise>>) = noisy
    BY NoiseRead
  <2>3. Sentinels(noisy.buffer) = {}
    BY <1>3, <1>4
  <2>4. noisy \in Readings /\ noisy.state = read.state
    BY <1>3
  <2> HIDE DEF noisy
  <2>5. Consumed(noisy, Frame(e)) =
          [state |-> apply_event(noisy.state, e), buffer |-> <<>>]
    BY <2>3, <2>4, FrameRead
  <2>6. tokens \in Seq(Tokens)
    BY ONLY <1>2, <1>6
  <2> QED
    BY ONLY <1>6, <2>1, <2>2, <2>4, <2>5, <2>6
<1>7. CASE tokens = <<Noise, End>> \o Frame(e)
  <2>1. Consumed(read, <<Noise, End>> \o Frame(e)) =
          Consumed(Consumed(read, <<Noise, End>>), Frame(e))
    <3>1. \A a, b \in Seq(Tokens) :
             Consumed(read, a \o b) = Consumed(Consumed(read, a), b)
      BY Composed
    <3> QED
      BY ONLY <1>2, <3>1, Zenon
  <2>2. Consumed(read, <<Noise, End>>) = read
    BY NoiseRead
  <2>3. tokens \in Seq(Tokens)
    BY ONLY <1>2, <1>7
  <2> QED
    BY ONLY <1>5, <1>7, <2>1, <2>2, <2>3
<1> QED
  BY <1>2, <1>5, <1>6, <1>7 DEF Sendings

-----------------------------------------------------------------------------
(* What is to be seen of the panel, of a state that has seen all.          *)

PanelStates ==
    [mode : Modes, exiting : BOOLEAN, alarm : BOOLEAN,
     ails : {"nothing", "ac", "trouble"}]
LogEntries == [armed : Users \cup {None}, disarmed : Users \cup {None},
               last : {"armed", "disarmed"}]

\* Of the partitions in seen, what they do now.
StatusSeen(st, seen, now) ==
    \A p \in seen :
        /\ p \in DOMAIN st.partitions
        /\ AlarmState(st.partitions[p]) = Status(now[p])
        /\ (st.partitions[p].trouble \/ ~st.partitions[p].acPresent)
              <=> now[p].ails # "nothing"

\* Of the zones in seen, how long ago they were faulted.
ZonesSeen(st, seen, now) ==
    \A z \in seen \cap Zones :
        /\ st.zones[z].open <=> now[z] <= OpenTicks
        /\ st.zones[z].seconds = 5 * now[z]

\* Program Mode, and who armed and disarmed.
UsersSeen(st, mode, who) ==
    /\ st.installersMode <=> mode
    /\ \A p \in PanelPartitions :
           /\ PartitionIn(st, p).lastArmed = who[p].armed
           /\ PartitionIn(st, p).lastDisarmed = who[p].disarmed

LEMMA IconsTell ==
  ASSUME NEW q \in PanelStates
  PROVE  /\ IconsOf(q) \in SUBSET Icons
         /\ "alarm" \in IconsOf(q) <=> q.alarm
         /\ "ac_present" \in IconsOf(q) <=> q.ails # "ac"
         /\ "system_trouble" \in IconsOf(q) <=> q.ails = "trouble"
         /\ (IconsOf(q) \cap {"armed_away", "armed_stay"} # {})
               <=> q.mode # "disarmed"
         /\ q.mode = "away" => ArmState(IconsOf(q)) = "armed_away"
         /\ q.mode = "stay" => ArmState(IconsOf(q)) = "armed_home"
         /\ q.mode = "night" => ArmState(IconsOf(q)) = "armed_night"
<1>1. /\ q.mode \in Modes /\ q.alarm \in BOOLEAN
      /\ q.ails \in {"nothing", "ac", "trouble"}
  BY DEF PanelStates
<1> DEFINE others == (IF q.alarm THEN {"alarm"} ELSE {})
              \cup (IF q.ails = "ac" THEN {} ELSE {"ac_present"})
              \cup (IF q.ails = "trouble" THEN {"system_trouble"} ELSE {})
<1>2. /\ others \subseteq {"alarm", "ac_present", "system_trouble"}
      /\ "alarm" \in others <=> q.alarm
      /\ "ac_present" \in others <=> q.ails # "ac"
      /\ "system_trouble" \in others <=> q.ails = "trouble"
  BY <1>1
<1>3. IconsOf(q) = ModeIcons[q.mode] \cup others
  BY DEF IconsOf
<1> HIDE DEF others
<1>4. CASE q.mode = "disarmed"
  <2>1. ModeIcons[q.mode] = {}
    BY <1>4 DEF ModeIcons
  <2> QED
    BY ONLY <1>2, <1>3, <1>4, <2>1 DEF Icons
<1>5. CASE q.mode = "away"
  <2>1. ModeIcons[q.mode] = {"armed_away"}
    BY <1>5 DEF ModeIcons
  <2> QED
    BY ONLY <1>2, <1>3, <1>5, <2>1 DEF Icons, ArmState
<1>6. CASE q.mode = "stay"
  <2>1. ModeIcons[q.mode] = {"armed_stay"}
    BY <1>6 DEF ModeIcons
  <2> QED
    BY ONLY <1>2, <1>3, <1>6, <2>1 DEF Icons, ArmState
<1>7. CASE q.mode = "night"
  <2>1. ModeIcons[q.mode] = {"armed_stay", "armed_zero_entry_delay"}
    BY <1>7 DEF ModeIcons
  <2> QED
    BY ONLY <1>2, <1>3, <1>7, <2>1 DEF Icons, ArmState
<1> QED
  BY <1>1, <1>4, <1>5, <1>6, <1>7 DEF Modes

\* An update says what the partition does, and leaves all else alone.
LEMMA KeypadTells ==
  ASSUME NEW st \in States, NEW p \in PanelPartitions, NEW seen,
         NEW now \in [PanelPartitions -> PanelStates],
         StatusSeen(st, seen, now)
  PROVE  LET e == Keypad(p, IconsOf(now[p]), now[p].exiting)
         IN  e \in KeypadUpdates
             /\ StatusSeen(apply_event(st, e), seen \cup {p}, now)
<1> DEFINE e == Keypad(p, IconsOf(now[p]), now[p].exiting)
           new == apply_event(st, e)
<1> HIDE DEF new
<1>1. now[p] \in PanelStates /\ now[p].exiting \in BOOLEAN /\ now[p].mode \in Modes
  BY DEF PanelStates
<1>2. e \in KeypadUpdates
  BY <1>1, IconsTell DEF KeypadUpdates, Keypad
<1>3. e.partition = p /\ e.icons = IconsOf(now[p]) /\ e.exit = now[p].exiting
  BY DEF Keypad
<1> HIDE DEF e
<1>4. /\ DOMAIN new.partitions = DOMAIN st.partitions \cup {p}
      /\ \A r \in DOMAIN st.partitions \ {p} :
            new.partitions[r] = st.partitions[r]
      /\ new.partitions[p].alarm <=> "alarm" \in IconsOf(now[p])
      /\ new.partitions[p].acPresent <=> "ac_present" \in IconsOf(now[p])
      /\ new.partitions[p].trouble <=> "system_trouble" \in IconsOf(now[p])
      /\ new.partitions[p].exitDelay <=> now[p].exiting
      /\ new.partitions[p].armed
            <=> (IconsOf(now[p]) \cap {"armed_away", "armed_stay"} # {})
      /\ new.partitions[p].armState = ArmState(IconsOf(now[p]))
  <2>1. LET was == apply_event(st, e)
        IN  /\ DOMAIN was.partitions = DOMAIN st.partitions \cup {e.partition}
            /\ \A r \in DOMAIN st.partitions \ {e.partition} :
                  was.partitions[r] = st.partitions[r]
            /\ was.partitions[e.partition].alarm = ("alarm" \in e.icons)
            /\ was.partitions[e.partition].acPresent = ("ac_present" \in e.icons)
            /\ was.partitions[e.partition].trouble = ("system_trouble" \in e.icons)
            /\ was.partitions[e.partition].exitDelay = e.exit
            /\ was.partitions[e.partition].armed
                  = (e.icons \cap {"armed_away", "armed_stay"} # {})
            /\ was.partitions[e.partition].armState = ArmState(e.icons)
    BY <1>2, KeypadFolded
  <2> QED
    BY <1>3, <2>1 DEF new
<1>5. AlarmState(new.partitions[p]) = Status(now[p])
  <2>1. /\ new.partitions[p].alarm <=> now[p].alarm
        /\ new.partitions[p].exitDelay <=> now[p].exiting
        /\ new.partitions[p].armed <=> now[p].mode # "disarmed"
        /\ now[p].mode = "away" => new.partitions[p].armState = "armed_away"
        /\ now[p].mode = "stay" => new.partitions[p].armState = "armed_home"
        /\ now[p].mode = "night" => new.partitions[p].armState = "armed_night"
    BY <1>1, <1>4, IconsTell
  <2> QED
    BY <1>1, <2>1 DEF AlarmState, Status, Modes
<1>6. (new.partitions[p].trouble \/ ~new.partitions[p].acPresent)
         <=> now[p].ails # "nothing"
  BY <1>1, <1>4, IconsTell DEF PanelStates
<1>7. StatusSeen(new, seen \cup {p}, now)
  BY <1>4, <1>5, <1>6 DEF StatusSeen
<1> QED
  BY <1>2, <1>7 DEF e, new

\* Program Mode and the users are the same in both.
SameUsers(st, new) ==
    /\ new.installersMode = st.installersMode
    /\ \A p \in PanelPartitions :
          /\ PartitionIn(new, p).lastArmed = PartitionIn(st, p).lastArmed
          /\ PartitionIn(new, p).lastDisarmed = PartitionIn(st, p).lastDisarmed

LEMMA SameUsersSeen ==
  ASSUME NEW st, NEW new, SameUsers(st, new), NEW mode, NEW who,
         UsersSeen(st, mode, who)
  PROVE  UsersSeen(new, mode, who)
<1>1. new.installersMode <=> mode
  BY DEF SameUsers, UsersSeen
<1>2. ASSUME NEW p \in PanelPartitions
      PROVE  /\ PartitionIn(new, p).lastArmed = who[p].armed
             /\ PartitionIn(new, p).lastDisarmed = who[p].disarmed
  BY <1>2 DEF SameUsers, UsersSeen
<1> QED
  BY <1>1, <1>2 DEF UsersSeen

LEMMA KeypadLeaves ==
  ASSUME NEW st \in States, NEW e \in KeypadUpdates
  PROVE  LET new == apply_event(st, e)
         IN  /\ SameUsers(st, new) /\ new.zones = st.zones
             /\ \A seen, now : StatusSeen(st, seen, now) =>
                   StatusSeen(new, seen \ {e.partition}, now)
<1> DEFINE new == apply_event(st, e)
<1> HIDE DEF new
<1>1. /\ new.zones = st.zones /\ new.installersMode = st.installersMode
      /\ DOMAIN new.partitions = DOMAIN st.partitions \cup {e.partition}
      /\ \A r \in DOMAIN st.partitions \ {e.partition} :
            new.partitions[r] = st.partitions[r]
      /\ new.partitions[e.partition].lastArmed = PartitionIn(st, e.partition).lastArmed
      /\ new.partitions[e.partition].lastDisarmed
            = PartitionIn(st, e.partition).lastDisarmed
  BY KeypadFolded DEF new
<1>2. SameUsers(st, new)
  <2>1. ASSUME NEW p \in PanelPartitions
        PROVE  /\ PartitionIn(new, p).lastArmed = PartitionIn(st, p).lastArmed
               /\ PartitionIn(new, p).lastDisarmed = PartitionIn(st, p).lastDisarmed
    <3>1. CASE p = e.partition
      BY <1>1, <3>1 DEF PartitionIn
    <3>2. CASE p # e.partition
      BY <1>1, <3>2 DEF PartitionIn
    <3> QED
      BY <3>1, <3>2
  <2> QED
    BY <1>1, <2>1 DEF SameUsers
<1>3. ASSUME NEW seen, NEW now, StatusSeen(st, seen, now)
      PROVE  StatusSeen(new, seen \ {e.partition}, now)
  BY <1>1, <1>3 DEF StatusSeen
<1> QED
  BY <1>1, <1>2, <1>3 DEF new

\* A dump says how long ago each zone was faulted that is in it, and leaves
\* all else alone.
LEMMA DumpTells ==
  ASSUME NEW st \in States, NEW now \in [PanelZones -> 0..Top],
         NEW spoilt \in SUBSET PanelZones, NEW e,
         e = Dump([z \in PanelZones |->
                     IF z \in spoilt THEN <<>> ELSE Chunk(now[z])]),
         NEW seen, ZonesSeen(st, seen, now)
  PROVE  LET new == apply_event(st, e)
         IN  /\ e \in Dumps
             /\ SameUsers(st, new) /\ new.partitions = st.partitions
             /\ ZonesSeen(new, (seen \cup PanelZones) \ spoilt, now)
<1> DEFINE new == apply_event(st, e)
<1> HIDE DEF new
<1>1. e \in Dumps
  BY DEF Dumps, Dump, DumpChunks
<1>2. \A z \in PanelZones : e.timers[z] = IF z \in spoilt THEN <<>> ELSE Chunk(now[z])
  BY DEF Dump
<1>3. /\ new.partitions = st.partitions /\ new.installersMode = st.installersMode
      /\ \A z \in Zones :
            IF e.timers[z] = <<>> THEN new.zones[z] = st.zones[z]
            ELSE /\ new.zones[z].open = (Ticks(e.timers[z]) <= OpenTicks)
                 /\ new.zones[z].seconds = 5 * Ticks(e.timers[z])
  BY <1>1, DumpFolded DEF new
<1>4. SameUsers(st, new)
  BY <1>3 DEF SameUsers, PartitionIn
<1>5. ASSUME NEW z \in ((seen \cup PanelZones) \ spoilt) \cap Zones
      PROVE  /\ new.zones[z].open <=> now[z] <= OpenTicks
             /\ new.zones[z].seconds = 5 * now[z]
  <2>1. z \in Zones /\ z \in PanelZones /\ z \notin spoilt
    BY FeedConstants
  <2>2. e.timers[z] = Chunk(now[z]) /\ now[z] \in 0..Top
    BY <1>2, <2>1
  <2>3. e.timers[z] # <<>> /\ Ticks(e.timers[z]) = now[z]
    BY <2>2, TicksOfChunk
  <2> QED
    BY <1>3, <2>1, <2>3
<1>6. ZonesSeen(new, (seen \cup PanelZones) \ spoilt, now)
  BY <1>5 DEF ZonesSeen
<1> QED
  BY <1>1, <1>3, <1>4, <1>6 DEF new

\* An arming or disarming event says who it was, whatever the panel calls
\* the partition, and leaves alone what the partition does.
LEMMA ArmingTells ==
  ASSUME NEW st \in States, NEW p \in PanelPartitions, NEW c \in Called(p),
         NEW user \in Users, NEW qualifier \in {"opening", "closing"},
         NEW e, e = Cid("arming", qualifier, c, user)
  PROVE  LET new == apply_event(st, e)
         IN  /\ e \in CidEvents /\ new.zones = st.zones
             /\ \A seen, now : StatusSeen(st, seen, now) =>
                   StatusSeen(new, seen, now)
             /\ \A mode, who :
                   UsersSeen(st, mode, who)
                     /\ who \in [PanelPartitions -> LogEntries] =>
                   /\ qualifier = "closing" =>
                        UsersSeen(new, mode, [who EXCEPT ![p].armed = user, ![p].last = "armed"])
                   /\ qualifier = "opening" =>
                        UsersSeen(new, mode, [who EXCEPT ![p].disarmed = user, ![p].last = "disarmed"])
<1> DEFINE new == apply_event(st, e)
           old == PartitionIn(st, p)
<1> HIDE DEF new, old
<1>1. p # 0 /\ c \in {0, p} /\ (c = 0 => p = 1)
  BY FeedConstants DEF Called
<1>2. e \in CidEvents /\ CidPartition(e) = p /\ e.event = "arming"
      /\ e.qualifier = qualifier /\ e.user = user
  BY <1>1 DEF CidEvents, Cid, CidPartition
<1>3. /\ new.zones = st.zones /\ new.installersMode = st.installersMode
      /\ DOMAIN new.partitions = DOMAIN st.partitions \cup {p}
      /\ \A r \in DOMAIN st.partitions \ {p} :
            new.partitions[r] = st.partitions[r]
      /\ qualifier = "opening" =>
           new.partitions[p] = [old EXCEPT !.lastDisarmed = user]
      /\ qualifier = "closing" =>
           new.partitions[p] = [old EXCEPT !.lastArmed = user]
  BY <1>2, CidFolded DEF new, old
<1>4. old \in PartitionStates
  BY PartitionInTyped DEF old
<1>5. /\ new.partitions[p].alarm = old.alarm
      /\ new.partitions[p].exitDelay = old.exitDelay
      /\ new.partitions[p].armed = old.armed
      /\ new.partitions[p].armState = old.armState
      /\ new.partitions[p].trouble = old.trouble
      /\ new.partitions[p].acPresent = old.acPresent
  BY <1>3, <1>4 DEF PartitionStates
<1>6. ASSUME NEW seen, NEW now, StatusSeen(st, seen, now)
      PROVE  StatusSeen(new, seen, now)
  <2>1. ASSUME NEW r \in seen
        PROVE  /\ r \in DOMAIN new.partitions
               /\ AlarmState(new.partitions[r]) = AlarmState(st.partitions[r])
               /\ new.partitions[r].trouble = st.partitions[r].trouble
               /\ new.partitions[r].acPresent = st.partitions[r].acPresent
    <3>1. r \in DOMAIN st.partitions
      BY <1>6 DEF StatusSeen
    <3>2. CASE r = p
      BY <1>3, <1>5, <3>1, <3>2 DEF old, PartitionIn, AlarmState
    <3>3. CASE r # p
      BY <1>3, <3>1, <3>3
    <3> QED
      BY <3>2, <3>3
  <2> QED
    BY <1>6, <2>1 DEF StatusSeen
<1>7. ASSUME NEW mode, NEW who \in [PanelPartitions -> LogEntries],
             UsersSeen(st, mode, who)
      PROVE  /\ qualifier = "closing" =>
                  UsersSeen(new, mode, [who EXCEPT ![p].armed = user, ![p].last = "armed"])
             /\ qualifier = "opening" =>
                  UsersSeen(new, mode, [who EXCEPT ![p].disarmed = user, ![p].last = "disarmed"])
  <2>1. /\ PartitionIn(new, p) = new.partitions[p]
        /\ \A r \in PanelPartitions \ {p} : PartitionIn(new, r) = PartitionIn(st, r)
    BY <1>3 DEF PartitionIn
  <2>2. /\ old.lastArmed = who[p].armed /\ old.lastDisarmed = who[p].disarmed
        /\ new.installersMode <=> mode
        /\ \A r \in PanelPartitions \ {p} :
              /\ PartitionIn(new, r).lastArmed = who[r].armed
              /\ PartitionIn(new, r).lastDisarmed = who[r].disarmed
    BY <1>3, <1>7, <2>1 DEF UsersSeen, old
  <2>3. CASE qualifier = "closing"
    <3> DEFINE then == [who EXCEPT ![p].armed = user, ![p].last = "armed"]
    <3>1. /\ then[p].armed = user /\ then[p].disarmed = who[p].disarmed
          /\ \A r \in PanelPartitions \ {p} : then[r] = who[r]
      BY DEF LogEntries
    <3>2. new.partitions[p].lastArmed = user
          /\ new.partitions[p].lastDisarmed = old.lastDisarmed
      BY <1>3, <1>4, <2>3 DEF PartitionStates
    <3> HIDE DEF then
    <3>3. UsersSeen(new, mode, then)
      BY <2>1, <2>2, <3>1, <3>2 DEF UsersSeen
    <3> QED
      BY <2>3, <3>3 DEF then
  <2>4. CASE qualifier = "opening"
    <3> DEFINE then == [who EXCEPT ![p].disarmed = user, ![p].last = "disarmed"]
    <3>1. /\ then[p].disarmed = user /\ then[p].armed = who[p].armed
          /\ \A r \in PanelPartitions \ {p} : then[r] = who[r]
      BY DEF LogEntries
    <3>2. new.partitions[p].lastDisarmed = user
          /\ new.partitions[p].lastArmed = old.lastArmed
      BY <1>3, <1>4, <2>4 DEF PartitionStates
    <3> HIDE DEF then
    <3>3. UsersSeen(new, mode, then)
      BY <2>1, <2>2, <3>1, <3>2 DEF UsersSeen
    <3> QED
      BY <2>4, <3>3 DEF then
  <2> QED
    BY <2>3, <2>4
<1> QED
  BY <1>2, <1>3, <1>6, <1>7 DEF new

\* 627 and 628 say that Program Mode was opened or left, and no more.
LEMMA ProgramTells ==
  ASSUME NEW st \in States, NEW mode \in BOOLEAN, NEW e,
         e = Cid(IF mode THEN "leave" ELSE "program", "opening", 1, None)
  PROVE  LET new == apply_event(st, e)
         IN  /\ e \in CidEvents /\ new.zones = st.zones
             /\ new.partitions = st.partitions
             /\ \A was, who : UsersSeen(st, was, who) =>
                   UsersSeen(new, ~mode, who)
<1> DEFINE new == apply_event(st, e)
<1> HIDE DEF new
<1>1. e \in CidEvents /\ e.event = IF mode THEN "leave" ELSE "program"
  BY FeedConstants DEF CidEvents, Cid
<1>2. /\ ~mode => new = [st EXCEPT !.installersMode = TRUE]
      /\ mode => new = [st EXCEPT !.installersMode = FALSE]
  BY <1>1, CidFolded DEF new
<1>3. new.partitions = st.partitions /\ new.zones = st.zones
      /\ (new.installersMode <=> ~mode)
  BY <1>2 DEF States
<1>4. ASSUME NEW was, NEW who, UsersSeen(st, was, who)
      PROVE  UsersSeen(new, ~mode, who)
  BY <1>3, <1>4 DEF UsersSeen, PartitionIn
<1> QED
  BY <1>1, <1>3, <1>4 DEF new

LEMMA DumpLeaves ==
  ASSUME NEW st \in States, NEW e \in Dumps
  PROVE  SameUsers(st, apply_event(st, e))
<1>1. /\ apply_event(st, e).partitions = st.partitions
      /\ apply_event(st, e).installersMode = st.installersMode
  BY DumpFolded
<1> QED
  BY <1>1 DEF SameUsers, PartitionIn

\* Where there is no CID event nothing changes of what only they tell.
NoCid(tokens) ==
    \A i \in DOMAIN tokens :
        tokens[i].tok = "body" => tokens[i].of.code # "cid"

LEMMA TookNoCid ==
  ASSUME NEW read \in Readings, NoCid(read.buffer), NEW token \in Tokens,
         token.tok = "body" => token.of.code # "cid"
  PROVE  /\ NoCid(Took(read, token).buffer)
         /\ SameUsers(read.state, Took(read, token).state)
<1>1. read.state \in States /\ read.buffer \in Texts
  BY DEF Readings
<1>2. SameUsers(read.state, read.state)
  BY DEF SameUsers
<1>3. CASE token.tok = "end"
  <2>1. /\ Took(read, token).buffer = <<>>
        /\ Took(read, token).state = Dispatch(read.state, Strip(read.buffer))
    BY <1>3 DEF Took
  <2>2. NoCid(<<>>)
    BY DEF NoCid
  <2>3. CASE ~WellFormed(Strip(read.buffer))
    BY <1>2, <2>1, <2>2, <2>3 DEF Dispatch
  <2>4. CASE WellFormed(Strip(read.buffer))
    <3>1. PICK m \in DOMAIN read.buffer :
            /\ Strip(read.buffer)[1] = read.buffer[m]
            /\ read.buffer[m] \in Bodies
      BY <1>1, <2>4, StripFinds
    <3> DEFINE e == read.buffer[m].of
    <3>2. e \in Reports /\ e.code # "cid"
      BY <3>1 DEF NoCid, Bodies
    <3>3. Took(read, token).state = apply_event(read.state, e)
      BY <2>1, <2>4, <3>1 DEF Dispatch
    <3> HIDE DEF e
    <3>4. e \in KeypadUpdates \/ e \in Dumps
      BY <3>2 DEF Reports, CidEvents
    <3>5. SameUsers(read.state, apply_event(read.state, e))
      BY <1>1, <3>4, KeypadLeaves, DumpLeaves
    <3> QED
      BY <2>1, <2>2, <3>3, <3>5
  <2> QED
    BY <2>3, <2>4
<1>4. CASE token.tok # "end"
  <2>1. Took(read, token) = [read EXCEPT !.buffer = Append(read.buffer, token)]
    BY <1>4 DEF Took
  <2>2. /\ Took(read, token).state = read.state
        /\ Took(read, token).buffer = Append(read.buffer, token)
    BY <2>1 DEF Readings
  <2>3. /\ DOMAIN Append(read.buffer, token) = 1..(Len(read.buffer) + 1)
        /\ \A i \in 1..(Len(read.buffer) + 1) :
              IF i \in DOMAIN read.buffer
                THEN Append(read.buffer, token)[i] = read.buffer[i]
                ELSE Append(read.buffer, token)[i] = token
    BY <1>1 DEF Texts
  <2>4. NoCid(Append(read.buffer, token))
    BY <2>3 DEF NoCid
  <2> QED
    BY <1>2, <2>2, <2>4
<1> QED
  BY <1>3, <1>4

LEMMA Untouched ==
  ASSUME NEW read \in Readings, NoCid(read.buffer),
         NEW tokens \in Seq(Tokens), NoCid(tokens)
  PROVE  SameUsers(read.state, Consumed(read, tokens).state)
<1>1. PICK f : /\ IsRun(f, read, tokens)
               /\ Consumed(read, tokens) = f[Len(tokens)]
  BY ConsumedIs
<1>2. /\ Len(tokens) \in Nat /\ DOMAIN tokens = 1..Len(tokens)
      /\ \A k \in 1..Len(tokens) : tokens[k] \in Tokens
  OBVIOUS
<1> DEFINE T == {k \in Nat : /\ f[k] \in Readings /\ NoCid(f[k].buffer)
                             /\ SameUsers(read.state, f[k].state)}
<1>3. 0 \in T
  <2>1. SameUsers(read.state, read.state)
    BY DEF SameUsers
  <2> QED
    BY <1>1, <2>1 DEF IsRun
<1>4. ASSUME NEW k \in 1..Len(tokens), k - 1 \in T PROVE k \in T
  <2>1. f[k] = Took(f[k - 1], tokens[k]) /\ k \in Nat
    BY <1>1, <1>2 DEF IsRun
  <2>2. /\ f[k - 1] \in Readings /\ NoCid(f[k - 1].buffer)
        /\ SameUsers(read.state, f[k - 1].state)
    BY <1>4
  <2>3. tokens[k] \in Tokens /\ (tokens[k].tok = "body" => tokens[k].of.code # "cid")
    BY <1>2 DEF NoCid
  <2>4. f[k] \in Readings /\ NoCid(f[k].buffer)
        /\ SameUsers(f[k - 1].state, f[k].state)
    BY <2>1, <2>2, <2>3, TookTyped, TookNoCid
  <2>5. SameUsers(read.state, f[k].state)
    BY <2>2, <2>4 DEF SameUsers
  <2> QED
    BY <2>1, <2>4, <2>5
<1>5. \A k \in 0..Len(tokens) : k \in T
  <2> HIDE DEF T
  <2> QED
    BY <1>2, <1>3, <1>4, UpTo
<1> QED
  BY <1>1, <1>2, <1>5

-----------------------------------------------------------------------------
(* The invariant.                                                          *)

\* What the entry will have seen once it has read all that was sent.
Sees == Consumed([state |-> state, buffer |-> buffer], wire)

OnTheWire == wire \in Seq(Tokens) /\ buffer \in Texts
Sessions ==
    /\ up => Sees.buffer = <<>>
    /\ ~up => wire = <<>> /\ told = {} /\ toldZones = {}
PInv ==
    /\ TypeOK /\ OnTheWire /\ Sessions
    /\ StatusSeen(Sees.state, told, panel)
    /\ ZonesSeen(Sees.state, toldZones, timer)
    /\ ~missed => UsersSeen(Sees.state, programming, log)

LEMMA SeesTyped ==
  ASSUME PInv
  PROVE  /\ [state |-> state, buffer |-> buffer] \in Readings
         /\ Sees \in Readings /\ Sees.state \in States
<1>1. [state |-> state, buffer |-> buffer] \in Readings /\ wire \in Seq(Tokens)
  BY StatesAreOK DEF PInv, TypeOK, OnTheWire, Readings
<1>2. Sees \in Readings
  BY <1>1, ConsumedTyped DEF Sees
<1> QED
  BY <1>1, <1>2 DEF Readings

LEMMA StatusLess ==
  ASSUME NEW st, NEW seen, NEW now, StatusSeen(st, seen, now),
         NEW less \in SUBSET seen, NEW then, \A p \in less : then[p] = now[p]
  PROVE  StatusSeen(st, less, then)
BY DEF StatusSeen

LEMMA ZonesLess ==
  ASSUME NEW st, NEW seen, NEW now, ZonesSeen(st, seen, now),
         NEW less \in SUBSET seen, NEW then, \A z \in less : then[z] = now[z]
  PROVE  ZonesSeen(st, less, then)
BY DEF ZonesSeen

\* What is sent will have been seen.
LEMMA SentSeen ==
  ASSUME PInv, up, NEW e \in Reports, NEW tokens \in Sendings(e), Put(tokens),
         UNCHANGED <<buffer, state>>
  PROVE  /\ wire' \in Seq(Tokens) /\ Len(wire') <= MaxWire
         /\ Sees' = [state |-> apply_event(Sees.state, e), buffer |-> <<>>]
<1> DEFINE at == [state |-> state, buffer |-> buffer]
<1>1. at \in Readings /\ Sees \in Readings /\ Sees.buffer = <<>>
  BY SeesTyped DEF PInv, Sessions
<1>2. wire \in Seq(Tokens)
  BY DEF PInv, OnTheWire
<1>3. wire' = wire \o tokens /\ Len(wire \o tokens) <= MaxWire
  BY DEF Put
<1>4. tokens \in Seq(Tokens)
      /\ Consumed(Sees, tokens) =
           [state |-> apply_event(Sees.state, e), buffer |-> <<>>]
  BY <1>1, SendingRead
<1>5. Consumed(at, wire \o tokens) = Consumed(Consumed(at, wire), tokens)
  BY <1>2, <1>4, Composed
<1>6. Sees' = Consumed(at, wire \o tokens)
  BY <1>3 DEF Sees
<1>7. wire \o tokens \in Seq(Tokens)
  BY <1>2, <1>4
<1> QED
  BY <1>3, <1>4, <1>5, <1>6, <1>7 DEF Sees

LEMMA SendSeen ==
  ASSUME PInv, up, NEW e \in Reports, Send(e), UNCHANGED <<buffer, state>>
  PROVE  /\ wire' \in Seq(Tokens) /\ Len(wire') <= MaxWire
         /\ faults' \in Nat
         /\ Sees' = [state |-> apply_event(Sees.state, e), buffer |-> <<>>]
<1>1. PICK tokens \in Sendings(e) : Put(tokens)
  BY DEF Send, SendAfterNoise, Sendings
<1>2. faults' \in Nat
  BY FeedConstants DEF Send, SendAfterNoise, Fault, PInv, TypeOK
<1> QED
  BY <1>1, <1>2, SentSeen

LEMMA ReportSeen ==
  ASSUME PInv, NEW e \in CidEvents, Report(e), UNCHANGED <<up, buffer, state>>
  PROVE  /\ wire' \in Seq(Tokens) /\ Len(wire') <= MaxWire
         /\ faults' \in Nat /\ missed' \in BOOLEAN
         /\ up => /\ missed' = missed
                  /\ Sees' = [state |-> apply_event(Sees.state, e),
                              buffer |-> <<>>]
         /\ ~up => missed' = TRUE /\ wire' = wire /\ Sees' = Sees
<1>1. e \in Reports /\ up \in BOOLEAN /\ missed \in BOOLEAN
      /\ wire \in Seq(Tokens) /\ Len(wire) <= MaxWire /\ faults \in Nat
  BY DEF Reports, PInv, TypeOK, OnTheWire
<1>2. CASE up
  <2>1. Send(e) /\ missed' = missed
    BY <1>2 DEF Report
  <2> QED
    BY <1>1, <1>2, <2>1, SendSeen
<1>3. CASE ~up
  <2>1. wire' = wire /\ faults' = faults /\ missed' = TRUE
    BY <1>3 DEF Report
  <2>2. Sees' = Sees
    BY <2>1 DEF Sees
  <2> QED
    BY <1>1, <1>3, <2>1, <2>2
<1> QED
  BY <1>1, <1>2, <1>3

\* Arming and disarming, as it was seen.
LEMMA ArmingSeen ==
  ASSUME PInv, NEW p \in PanelPartitions, NEW c \in Called(p),
         NEW user \in Users, NEW qualifier \in {"opening", "closing"},
         Report(Cid("arming", qualifier, c, user)),
         UNCHANGED <<timer, programming, up, buffer, asked, state, toldZones>>,
         told' = told \ {p}, \A r \in told \ {p} : panel'[r] = panel[r],
         qualifier = "closing" => log' = [log EXCEPT ![p].armed = user, ![p].last = "armed"],
         qualifier = "opening" => log' = [log EXCEPT ![p].disarmed = user, ![p].last = "disarmed"],
         panel' \in [PanelPartitions -> PanelStates], Act
  PROVE  PInv'
<1> DEFINE e == Cid("arming", qualifier, c, user)
           new == apply_event(Sees.state, e)
<1>1. /\ e \in CidEvents /\ new.zones = Sees.state.zones
      /\ \A seen, now : StatusSeen(Sees.state, seen, now) =>
            StatusSeen(new, seen, now)
      /\ \A mode, who :
            UsersSeen(Sees.state, mode, who)
              /\ who \in [PanelPartitions -> LogEntries] =>
            /\ qualifier = "closing" =>
                 UsersSeen(new, mode, [who EXCEPT ![p].armed = user, ![p].last = "armed"])
            /\ qualifier = "opening" =>
                 UsersSeen(new, mode, [who EXCEPT ![p].disarmed = user, ![p].last = "disarmed"])
  BY SeesTyped, ArmingTells
<1> HIDE DEF new, e
<1>2. /\ wire' \in Seq(Tokens) /\ Len(wire') <= MaxWire
      /\ faults' \in Nat /\ missed' \in BOOLEAN
      /\ up => /\ missed' = missed
               /\ Sees' = [state |-> new, buffer |-> <<>>]
      /\ ~up => missed' = TRUE /\ wire' = wire /\ Sees' = Sees
  <2>1. Report(e)
    BY DEF e
  <2> QED
    BY <1>1, <2>1, ReportSeen DEF new
<1>3. log \in [PanelPartitions -> LogEntries] /\ log' \in [PanelPartitions -> LogEntries]
  BY DEF PInv, TypeOK, LogEntries
<1>4. TypeOK'
  BY <1>2, <1>3, FeedConstants DEF PInv, TypeOK, LogEntries, PanelStates, Act, StateOK
<1>5. OnTheWire'
  BY <1>2 DEF PInv, OnTheWire
<1>6. CASE up
  <2>1. Sees' = [state |-> new, buffer |-> <<>>] /\ missed' = missed /\ up'
    BY <1>2, <1>6
  <2>2. Sees'.state = new /\ Sees'.buffer = <<>>
    BY <2>1
  <2>3. Sessions'
    BY <2>1, <2>2 DEF Sessions
  <2>4. StatusSeen(new, told', panel')
    <3>1. StatusSeen(new, told, panel)
      BY <1>1 DEF PInv
    <3> QED
      BY <3>1, StatusLess
  <2>5. ZonesSeen(new, toldZones, timer)
    BY <1>1 DEF PInv, ZonesSeen
  <2>6. ~missed => UsersSeen(new, programming, log')
    <3>1. SUFFICES ASSUME ~missed PROVE UsersSeen(new, programming, log')
      OBVIOUS
    <3>2. UsersSeen(Sees.state, programming, log)
      BY <3>1 DEF PInv
    <3>3. /\ qualifier = "closing" =>
               UsersSeen(new, programming, [log EXCEPT ![p].armed = user, ![p].last = "armed"])
          /\ qualifier = "opening" =>
               UsersSeen(new, programming, [log EXCEPT ![p].disarmed = user, ![p].last = "disarmed"])
      BY <1>1, <1>3, <3>2
    <3>4. CASE qualifier = "closing"
      BY <3>3, <3>4
    <3>5. CASE qualifier = "opening"
      BY <3>3, <3>5
    <3> QED
      BY <3>4, <3>5
  <2>7. /\ StatusSeen(Sees.state, told, panel)'
        /\ ZonesSeen(Sees.state, toldZones, timer)'
        /\ (~missed => UsersSeen(Sees.state, programming, log))'
    BY <2>1, <2>2, <2>4, <2>5, <2>6
  <2> QED
    BY <1>4, <1>5, <2>3, <2>7 DEF PInv
<1>7. CASE ~up
  <2>1. /\ Sees' = Sees /\ missed' = TRUE /\ wire' = <<>> /\ ~up'
        /\ told' = {} /\ toldZones' = {}
    BY <1>2, <1>7 DEF PInv, Sessions
  <2>2. Sessions'
    BY <2>1 DEF Sessions
  <2>3. /\ StatusSeen(Sees.state, told, panel)'
        /\ ZonesSeen(Sees.state, toldZones, timer)'
        /\ (~missed => UsersSeen(Sees.state, programming, log))'
    BY <2>1 DEF StatusSeen, ZonesSeen
  <2> QED
    BY <1>4, <1>5, <2>2, <2>3 DEF PInv
<1> QED
  BY <1>6, <1>7

LEMMA ArmKeeps ==
  ASSUME PInv, NEW p \in PanelPartitions, NEW mode \in Modes, NEW user \in Users,
         Arm(p, mode, user)
  PROVE  PInv'
<1>1. PICK c \in Called(p) : Report(Cid("arming", "closing", c, user))
  BY DEF Arm
<1>2. panel' \in [PanelPartitions -> PanelStates]
      /\ \A r \in told \ {p} : panel'[r] = panel[r]
  <2>1. panel \in [PanelPartitions -> PanelStates] /\ told \subseteq PanelPartitions
    BY DEF PInv, TypeOK, PanelStates
  <2>2. panel' = [panel EXCEPT ![p].mode = mode, ![p].exiting = TRUE]
    BY DEF Arm
  <2> QED
    BY ONLY <2>1, <2>2, p \in PanelPartitions, mode \in Modes DEF PanelStates
<1>3. /\ Act /\ told' = told \ {p} /\ log' = [log EXCEPT ![p].armed = user, ![p].last = "armed"]
      /\ UNCHANGED <<timer, programming, up, buffer, asked, state, toldZones>>
  BY DEF Arm
<1>4. "closing" \in {"opening", "closing"} /\ "closing" # "opening"
  OBVIOUS
<1> QED
  BY ONLY PInv, <1>1, <1>2, <1>3, <1>4, ArmingSeen, p \in PanelPartitions,
          user \in Users

LEMMA DisarmKeeps ==
  ASSUME PInv, NEW p \in PanelPartitions, NEW user \in Users, Disarm(p, user)
  PROVE  PInv'
<1>1. PICK c \in Called(p) : Report(Cid("arming", "opening", c, user))
  BY DEF Disarm
<1>2. panel' \in [PanelPartitions -> PanelStates]
      /\ \A r \in told \ {p} : panel'[r] = panel[r]
  <2>1. panel \in [PanelPartitions -> PanelStates] /\ told \subseteq PanelPartitions
    BY DEF PInv, TypeOK, PanelStates
  <2>2. panel' = [panel EXCEPT ![p] = [Quiet EXCEPT !.ails = panel[p].ails]]
    BY DEF Disarm
  <2>3. [Quiet EXCEPT !.ails = panel[p].ails] \in PanelStates
    BY ONLY <2>1, p \in PanelPartitions DEF Quiet, PanelStates, Modes
  <2> QED
    BY ONLY <2>1, <2>2, <2>3, p \in PanelPartitions
<1>3. /\ Act /\ told' = told \ {p} /\ log' = [log EXCEPT ![p].disarmed = user, ![p].last = "disarmed"]
      /\ UNCHANGED <<timer, programming, up, buffer, asked, state, toldZones>>
  BY DEF Disarm
<1>4. "opening" \in {"opening", "closing"} /\ "opening" # "closing"
  OBVIOUS
<1> QED
  BY ONLY PInv, <1>1, <1>2, <1>3, <1>4, ArmingSeen, p \in PanelPartitions,
          user \in Users

LEMMA TurnKeeps ==
  ASSUME PInv, NEW p \in PanelPartitions, Turn(p)
  PROVE  PInv'
<1>1. panel' \in [PanelPartitions -> PanelStates]
      /\ \A r \in told \ {p} : panel'[r] = panel[r]
  <2>1. panel \in [PanelPartitions -> PanelStates] /\ told \subseteq PanelPartitions
    BY DEF PInv, TypeOK, PanelStates
  <2>2. CASE panel' = [panel EXCEPT ![p].exiting = FALSE]
    BY <2>1, <2>2 DEF PanelStates
  <2>3. CASE panel' = [panel EXCEPT ![p].alarm = TRUE]
    BY <2>1, <2>3 DEF PanelStates
  <2>4. CASE \E ails \in {"nothing", "ac", "trouble"} :
               panel' = [panel EXCEPT ![p].ails = ails]
    BY <2>1, <2>4 DEF PanelStates
  <2> QED
    BY <2>2, <2>3, <2>4 DEF Turn
<1>2. Sees' = Sees
  BY DEF Sees, Turn, wireVars
<1>3. TypeOK'
  BY <1>1, FeedConstants DEF PInv, TypeOK, Turn, Change, PanelStates, wireVars
<1>4. OnTheWire' /\ Sessions'
  BY <1>2 DEF PInv, OnTheWire, Sessions, Turn, wireVars
<1>5. StatusSeen(Sees.state, told', panel')
  BY <1>1, StatusLess DEF PInv, Turn
<1>6. /\ StatusSeen(Sees.state, told, panel)'
      /\ ZonesSeen(Sees.state, toldZones, timer)'
      /\ (~missed => UsersSeen(Sees.state, programming, log))'
  BY <1>2, <1>5 DEF PInv, Turn
<1> QED
  BY <1>3, <1>4, <1>6 DEF PInv

LEMMA ProgramKeeps ==
  ASSUME PInv, Program
  PROVE  PInv'
<1> DEFINE e == Cid(IF programming THEN "leave" ELSE "program", "opening", 1, None)
           new == apply_event(Sees.state, e)
<1>1. programming \in BOOLEAN /\ Report(e) /\ UNCHANGED <<up, buffer, state>>
  BY DEF PInv, TypeOK, Program
<1>2. PICK mode \in BOOLEAN : mode = programming
  BY <1>1
<1>3. /\ e \in CidEvents /\ new.zones = Sees.state.zones
      /\ new.partitions = Sees.state.partitions
      /\ \A was, who : UsersSeen(Sees.state, was, who) =>
            UsersSeen(new, ~programming, who)
  BY <1>1, <1>2, SeesTyped, ProgramTells
<1> HIDE DEF new, e
<1>4. /\ wire' \in Seq(Tokens) /\ Len(wire') <= MaxWire
      /\ faults' \in Nat /\ missed' \in BOOLEAN
      /\ up => /\ missed' = missed
               /\ Sees' = [state |-> new, buffer |-> <<>>]
      /\ ~up => missed' = TRUE /\ wire' = wire /\ Sees' = Sees
  BY <1>1, <1>3, ReportSeen DEF new
<1>5. TypeOK'
  BY <1>4, FeedConstants DEF PInv, TypeOK, Program, Change
<1>6. OnTheWire'
  BY <1>4 DEF PInv, OnTheWire, Program
<1>7. CASE up
  <2>1. Sees' = [state |-> new, buffer |-> <<>>] /\ missed' = missed /\ up'
    BY <1>4, <1>7 DEF Program
  <2>2. Sees'.state = new /\ Sees'.buffer = <<>>
    BY <2>1
  <2>3. Sessions'
    BY <2>1, <2>2 DEF Sessions
  <2>4. /\ told' = told /\ panel' = panel /\ toldZones' = toldZones
        /\ timer' = timer /\ log' = log
    BY DEF Program
  <2>5. StatusSeen(new, told, panel) /\ ZonesSeen(new, toldZones, timer)
    BY <1>3 DEF PInv, StatusSeen, ZonesSeen
  <2>6. ~missed => UsersSeen(new, programming', log)
    <3>1. SUFFICES ASSUME ~missed PROVE UsersSeen(new, programming', log)
      OBVIOUS
    <3>2. UsersSeen(new, ~programming, log)
      BY <1>3, <3>1 DEF PInv
    <3>3. programming' <=> ~programming
      BY DEF Program
    <3> QED
      BY <3>2, <3>3 DEF UsersSeen
  <2>7. /\ StatusSeen(Sees.state, told, panel)'
        /\ ZonesSeen(Sees.state, toldZones, timer)'
        /\ (~missed => UsersSeen(Sees.state, programming, log))'
    BY <2>1, <2>2, <2>4, <2>5, <2>6
  <2> QED
    BY <1>5, <1>6, <2>3, <2>7 DEF PInv
<1>8. CASE ~up
  <2>1. /\ Sees' = Sees /\ missed' = TRUE /\ wire' = <<>> /\ ~up'
        /\ told' = {} /\ toldZones' = {}
    BY <1>4, <1>8 DEF PInv, Sessions, Program
  <2>2. Sessions'
    BY <2>1 DEF Sessions
  <2>3. /\ StatusSeen(Sees.state, told, panel)'
        /\ ZonesSeen(Sees.state, toldZones, timer)'
        /\ (~missed => UsersSeen(Sees.state, programming, log))'
    BY <2>1 DEF StatusSeen, ZonesSeen
  <2> QED
    BY <1>5, <1>6, <2>2, <2>3 DEF PInv
<1> QED
  BY <1>7, <1>8

LEMMA ZoneTimerKeeps ==
  ASSUME PInv, NEW z \in PanelZones, NEW t \in Timers, ZoneTimer(z, t)
  PROVE  PInv'
<1>1. timer' \in [PanelZones -> Timers \cup {Top}]
      /\ \A y \in toldZones \ {z} : timer'[y] = timer[y]
  BY DEF ZoneTimer, PInv, TypeOK
<1>2. Sees' = Sees
  BY DEF Sees, ZoneTimer, wireVars
<1>3. TypeOK'
  BY <1>1, FeedConstants DEF PInv, TypeOK, ZoneTimer, Change, wireVars
<1>4. OnTheWire' /\ Sessions'
  BY <1>2 DEF PInv, OnTheWire, Sessions, ZoneTimer, wireVars
<1>5. ZonesSeen(Sees.state, toldZones', timer')
  <2>1. /\ ZonesSeen(Sees.state, toldZones, timer) /\ toldZones' = toldZones \ {z}
        /\ toldZones \ {z} \in SUBSET toldZones
    BY DEF PInv, ZoneTimer
  <2>2. ZonesSeen(Sees.state, toldZones \ {z}, timer')
    BY ONLY <1>1, <2>1, ZonesLess
  <2> QED
    BY ONLY <2>1, <2>2
<1>6. /\ StatusSeen(Sees.state, told, panel)'
      /\ ZonesSeen(Sees.state, toldZones, timer)'
      /\ (~missed => UsersSeen(Sees.state, programming, log))'
  BY <1>2, <1>5 DEF PInv, ZoneTimer
<1> QED
  BY <1>3, <1>4, <1>6 DEF PInv

LEMMA KeypadUpdateKeeps ==
  ASSUME PInv, NEW p \in PanelPartitions, KeypadUpdate(p)
  PROVE  PInv'
<1>1. /\ panel \in [PanelPartitions -> PanelStates] /\ up
      /\ UNCHANGED <<panel, timer, log, programming, up, buffer, state,
                     toldZones, missed>>
  BY DEF PInv, TypeOK, PanelStates, KeypadUpdate, panelVars
<1>2. Sees.state \in States /\ StatusSeen(Sees.state, told, panel)
  BY SeesTyped DEF PInv
\* What an update with this icon field is seen to do.
<1>3. ASSUME NEW e \in KeypadUpdates, NEW seen \in SUBSET PanelPartitions,
             told' = seen, wire' \in Seq(Tokens), Len(wire') <= MaxWire,
             faults' \in Nat,
             Sees' = [state |-> apply_event(Sees.state, e), buffer |-> <<>>],
             StatusSeen(apply_event(Sees.state, e), seen, panel)
      PROVE  PInv'
  <2> DEFINE new == apply_event(Sees.state, e)
  <2> HIDE DEF new
  <2>1. new.zones = Sees.state.zones /\ SameUsers(Sees.state, new)
    BY <1>2, KeypadLeaves DEF new
  <2>2. Sees'.state = new /\ Sees'.buffer = <<>>
    BY <1>3 DEF new
  <2>3. TypeOK'
    BY <1>1, <1>3 DEF PInv, TypeOK, KeypadUpdate, panelVars, leftVars
  <2>4. OnTheWire' /\ Sessions'
    BY <1>1, <1>3, <2>2 DEF PInv, OnTheWire, Sessions
  <2>5. ZonesSeen(new, toldZones, timer)
    BY <2>1 DEF PInv, ZonesSeen
  <2>6. ~missed => UsersSeen(new, programming, log)
    BY <2>1, SameUsersSeen DEF PInv
  <2>7. /\ StatusSeen(Sees.state, told, panel)'
        /\ ZonesSeen(Sees.state, toldZones, timer)'
        /\ (~missed => UsersSeen(Sees.state, programming, log))'
    BY <1>1, <1>3, <2>2, <2>5, <2>6 DEF new
  <2> QED
    BY <2>3, <2>4, <2>7 DEF PInv
<1>4. CASE /\ Send(Keypad(p, IconsOf(panel[p]), panel[p].exiting))
           /\ told' = told \cup {p}
  <2> DEFINE e == Keypad(p, IconsOf(panel[p]), panel[p].exiting)
  <2>1. /\ e \in KeypadUpdates
        /\ StatusSeen(apply_event(Sees.state, e), told \cup {p}, panel)
    BY <1>1, <1>2, KeypadTells
  <2> HIDE DEF e
  <2>2. /\ wire' \in Seq(Tokens) /\ Len(wire') <= MaxWire
        /\ faults' \in Nat
        /\ Sees' = [state |-> apply_event(Sees.state, e), buffer |-> <<>>]
    <3>1. e \in Reports /\ Send(e)
      BY <1>4, <2>1 DEF Reports, e
    <3> QED
      BY <1>1, <3>1, SendSeen
  <2>3. told \cup {p} \in SUBSET PanelPartitions
    BY DEF PInv, TypeOK
  <2> QED
    BY <1>3, <1>4, <2>1, <2>2, <2>3
<1>5. CASE /\ Fault
           /\ Put(Frame(Keypad(p, {}, panel[p].exiting)))
           /\ told' = told \ {p}
  <2> DEFINE e == Keypad(p, {}, panel[p].exiting)
  <2>1. e \in KeypadUpdates /\ e.partition = p
    BY <1>1 DEF Keypad, KeypadUpdates, PanelStates
  <2> HIDE DEF e
  <2>2. StatusSeen(apply_event(Sees.state, e), told \ {p}, panel)
    BY <1>2, <2>1, KeypadLeaves
  <2>3. /\ wire' \in Seq(Tokens) /\ Len(wire') <= MaxWire
        /\ Sees' = [state |-> apply_event(Sees.state, e), buffer |-> <<>>]
    <3>1. e \in Reports /\ Frame(e) \in Sendings(e) /\ Put(Frame(e))
      BY <1>5, <2>1 DEF Reports, Sendings, e
    <3> QED
      BY <1>1, <3>1, SentSeen
  <2>4. faults' \in Nat
    BY <1>5, FeedConstants DEF Fault, PInv, TypeOK
  <2>5. told \ {p} \in SUBSET PanelPartitions
    BY DEF PInv, TypeOK
  <2> QED
    BY <1>3, <1>5, <2>1, <2>2, <2>3, <2>4, <2>5
<1> QED
  BY <1>4, <1>5 DEF KeypadUpdate

LEMMA AnswerTimersKeeps ==
  ASSUME PInv, AnswerTimers
  PROVE  PInv'
<1> DEFINE dump == [z \in PanelZones |-> Chunk(timer[z])]
<1>1. /\ timer \in [PanelZones -> 0..Top] /\ up /\ toldZones \subseteq PanelZones
      /\ UNCHANGED <<panel, timer, log, programming, up, buffer, state, told, missed>>
  <2>1. Timers \cup {Top} \subseteq 0..Top
    BY FeedConstants, TopIs
  <2>2. timer \in [PanelZones -> Timers \cup {Top}] /\ toldZones \subseteq PanelZones
    BY DEF PInv, TypeOK
  <2>3. timer \in [PanelZones -> 0..Top]
    BY ONLY <2>1, <2>2
  <2> QED
    BY <2>2, <2>3 DEF AnswerTimers, panelVars
<1>2. Sees.state \in States /\ ZonesSeen(Sees.state, toldZones, timer)
  BY SeesTyped DEF PInv
\* What a dump without these zones is seen to do.
<1>3. ASSUME NEW spoilt \in SUBSET PanelZones, NEW e,
             e = Dump([z \in PanelZones |->
                         IF z \in spoilt THEN <<>> ELSE Chunk(timer[z])]),
             toldZones' = (toldZones \cup PanelZones) \ spoilt,
             Send(e) \/ (Fault /\ Put(Frame(e)))
      PROVE  PInv'
  <2> DEFINE new == apply_event(Sees.state, e)
  <2> HIDE DEF new
  <2>1. /\ e \in Dumps
        /\ SameUsers(Sees.state, new) /\ new.partitions = Sees.state.partitions
        /\ ZonesSeen(new, (toldZones \cup PanelZones) \ spoilt, timer)
    BY <1>1, <1>2, <1>3, DumpTells DEF new
  <2>2. /\ wire' \in Seq(Tokens) /\ Len(wire') <= MaxWire
        /\ faults' \in Nat
        /\ Sees' = [state |-> new, buffer |-> <<>>]
    <3>1. e \in Reports /\ Frame(e) \in Sendings(e)
      BY <2>1 DEF Reports, Sendings
    <3>2. CASE Send(e)
      BY <1>1, <3>1, <3>2, SendSeen DEF new
    <3>3. CASE Fault /\ Put(Frame(e))
      <4>1. faults' \in Nat
        BY <3>3, FeedConstants DEF Fault, PInv, TypeOK
      <4> QED
        BY <1>1, <3>1, <3>3, <4>1, SentSeen DEF new
    <3> QED
      BY <1>3, <3>2, <3>3
  <2>3. Sees'.state = new /\ Sees'.buffer = <<>>
    BY <2>2
  <2>4. TypeOK'
    BY <1>1, <1>3, <2>2 DEF PInv, TypeOK, AnswerTimers, panelVars, leftVars
  <2>5. OnTheWire' /\ Sessions'
    BY <1>1, <2>2, <2>3 DEF PInv, OnTheWire, Sessions
  <2>6. StatusSeen(new, told, panel)
    BY <2>1 DEF PInv, StatusSeen
  <2>7. ~missed => UsersSeen(new, programming, log)
    BY <2>1, SameUsersSeen DEF PInv
  <2>8. /\ StatusSeen(Sees.state, told, panel)'
        /\ ZonesSeen(Sees.state, toldZones, timer)'
        /\ (~missed => UsersSeen(Sees.state, programming, log))'
    BY <1>1, <1>3, <2>1, <2>3, <2>6, <2>7
  <2> QED
    BY <2>4, <2>5, <2>8 DEF PInv
<1>4. CASE Send(Dump(dump)) /\ toldZones' = PanelZones
  <2>1. Dump(dump) = Dump([z \in PanelZones |->
                             IF z \in {} THEN <<>> ELSE Chunk(timer[z])])
    BY DEF Dump
  <2>2. toldZones' = (toldZones \cup PanelZones) \ {} /\ {} \in SUBSET PanelZones
    BY <1>1, <1>4
  <2> HIDE DEF dump
  <2> QED
    BY <1>3, <1>4, <2>1, <2>2
<1>5. CASE \E z \in PanelZones :
             /\ Fault
             /\ Put(Frame(Dump([dump EXCEPT ![z] = <<>>])))
             /\ toldZones' = (toldZones \cup PanelZones) \ {z}
  <2>1. PICK y \in PanelZones :
             /\ Fault
             /\ Put(Frame(Dump([dump EXCEPT ![y] = <<>>])))
             /\ toldZones' = (toldZones \cup PanelZones) \ {y}
    BY <1>5
  <2>2. [dump EXCEPT ![y] = <<>>] =
          [z \in PanelZones |-> IF z \in {y} THEN <<>> ELSE Chunk(timer[z])]
    OBVIOUS
  <2> DEFINE e == Dump([dump EXCEPT ![y] = <<>>])
  <2>3. e = Dump([z \in PanelZones |->
                    IF z \in {y} THEN <<>> ELSE Chunk(timer[z])])
    BY <2>2
  <2>4. Fault /\ Put(Frame(e)) /\ {y} \in SUBSET PanelZones
    BY <2>1
  <2> HIDE DEF e, dump
  <2> QED
    BY <1>3, <2>1, <2>3, <2>4
<1> QED
  BY <1>4, <1>5 DEF AnswerTimers

LEMMA AskTimersKeeps ==
  ASSUME PInv, AskTimers
  PROVE  PInv'
<1>1. UNCHANGED <<panel, timer, programming, log, up, wire, buffer, state, told,
                  toldZones, missed, acts, changes, faults>> /\ asked' \in BOOLEAN
  BY DEF AskTimers, panelVars, toldVars, leftVars
<1>2. Sees' = Sees
  BY <1>1 DEF Sees
<1>3. TypeOK'
  BY <1>1 DEF PInv, TypeOK
<1>4. OnTheWire' /\ Sessions'
  BY <1>1, <1>2 DEF PInv, OnTheWire, Sessions
<1> QED
  BY <1>1, <1>2, <1>3, <1>4 DEF PInv

LEMMA ReadKeeps ==
  ASSUME PInv, NEW n \in 1..MaxWire, Read(n)
  PROVE  PInv'
<1> DEFINE at == [state |-> state, buffer |-> buffer]
           a == SubSeq(wire, 1, n)
           b == SubSeq(wire, n + 1, Len(wire))
<1>1. /\ wire \in Seq(Tokens) /\ n \in Nat /\ n >= 1 /\ n <= Len(wire)
      /\ Len(wire) \in Nat /\ Len(wire) <= MaxWire /\ at \in Readings
  BY FeedConstants, SeesTyped DEF PInv, TypeOK, OnTheWire, Read
<1>2. /\ a \in Seq(Tokens) /\ b \in Seq(Tokens) /\ Len(b) <= Len(wire)
      /\ wire = a \o b
  <2>1. \A i \in 1..Len(wire) : wire[i] \in Tokens
    BY <1>1
  <2>2. /\ 1 \in Int /\ n \in Int /\ n + 1 \in Int /\ Len(wire) \in Int
        /\ \A i \in 1..n : wire[i] \in Tokens
        /\ \A i \in (n + 1)..Len(wire) : wire[i] \in Tokens
    BY <1>1, <2>1
  <2>3. a \in Seq(Tokens)
    BY ONLY <2>2, SubSeqProperties
  <2>4. b \in Seq(Tokens)
        /\ Len(b) = IF n + 1 <= Len(wire) THEN Len(wire) - (n + 1) + 1 ELSE 0
    BY ONLY <2>2, SubSeqProperties
  <2>5. /\ 1 \in 1..(Len(wire) + 1) /\ n \in (1 - 1)..Len(wire)
        /\ Len(wire) \in n..Len(wire)
    BY ONLY <1>1
  <2>6. SubSeq(wire, 1, n) \o SubSeq(wire, n + 1, Len(wire))
          = SubSeq(wire, 1, Len(wire))
    BY ONLY <1>1, <2>5, ConcatAdjacentSubSeq
  <2>7. SubSeq(wire, 1, Len(wire)) = wire
    BY ONLY <1>1, SubSeqFull
  <2>8. Len(b) <= Len(wire)
    BY ONLY <1>1, <2>4
  <2> QED
    BY ONLY <2>3, <2>4, <2>6, <2>7, <2>8
<1>3. /\ wire' = b /\ state' = Consumed(at, a).state
      /\ buffer' = Consumed(at, a).buffer
      /\ UNCHANGED <<panel, timer, programming, log, up, asked, told, toldZones,
                     missed, acts, changes, faults>>
  BY DEF Read, panelVars, toldVars, leftVars
<1> HIDE DEF a, b
<1>4. Consumed(at, a) \in Readings
  BY <1>1, <1>2, ConsumedTyped
<1>5. [state |-> state', buffer |-> buffer'] = Consumed(at, a)
      /\ state' \in States /\ buffer' \in Texts
  BY <1>3, <1>4 DEF Readings
<1>6. Sees' = Sees
  <2>1. Consumed(at, a \o b) = Consumed(Consumed(at, a), b)
    BY <1>2, Composed
  <2>2. Sees' = Consumed([state |-> state', buffer |-> buffer'], wire')
    BY DEF Sees
  <2>3. Sees = Consumed(at, wire)
    BY DEF Sees
  <2> QED
    BY ONLY <1>2, <1>3, <1>5, <2>1, <2>2, <2>3
<1>7. \A i \in DOMAIN buffer' : buffer'[i].tok # "end"
  BY <1>5 DEF Texts, Tokens, Bodies, Noise, End, Token
<1>8. Len(wire') <= MaxWire
  BY <1>1, <1>2, <1>3, FeedConstants
<1>9. TypeOK'
  BY StatesAreOK, <1>3, <1>5, <1>7, <1>8 DEF PInv, TypeOK
<1>10. OnTheWire' /\ Sessions'
  <2>1. OnTheWire'
    BY <1>2, <1>3, <1>5 DEF OnTheWire
  <2>2. up
    BY DEF Read
  <2> QED
    BY <1>3, <1>6, <2>1, <2>2 DEF PInv, Sessions
<1> QED
  BY <1>3, <1>6, <1>9, <1>10 DEF PInv

LEMMA NothingToSee ==
  ASSUME wire = <<>>
  PROVE  /\ Sees = [state |-> state, buffer |-> buffer]
         /\ Sees.state = state /\ Sees.buffer = buffer
BY NothingConsumed DEF Sees

LEMMA LostKeeps ==
  ASSUME PInv, Lost
  PROVE  PInv'
<1>1. /\ ~up' /\ wire' = <<>> /\ ~asked' /\ told' = {} /\ toldZones' = {}
      /\ UNCHANGED <<panel, timer, programming, log, buffer, state, acts, changes>>
  BY DEF Lost, panelVars, leftVars
<1>2. missed' = (missed \/ ~NoCid(buffer \o wire))
  BY DEF Lost, NoCid
<1>3. Sees'.state = state
  <2>1. Sees' = Consumed([state |-> state, buffer |-> buffer], <<>>)
    BY <1>1 DEF Sees
  <2> QED
    BY <2>1, NothingConsumed
<1>4. TypeOK'
  <2>1. missed' \in BOOLEAN
    BY <1>2
  <2>2. faults' \in Nat
    BY FeedConstants DEF PInv, TypeOK, Lost, Fault
  <2>3. Len(wire') <= MaxWire
    BY <1>1, FeedConstants
  <2>4. up' \in BOOLEAN /\ asked' \in BOOLEAN
    BY DEF Lost
  <2> QED
    BY <1>1, <2>1, <2>2, <2>3, <2>4 DEF PInv, TypeOK
<1>5. OnTheWire' /\ Sessions'
  BY <1>1 DEF PInv, OnTheWire, Sessions
<1>6. ASSUME ~missed' PROVE UsersSeen(state, programming, log)
  <2>1. ~missed /\ NoCid(buffer \o wire)
    BY <1>2, <1>6
  <2>2. NoCid(buffer) /\ NoCid(wire)
    <3>1. wire \in Seq(Tokens) /\ buffer \in Seq(Tokens)
      BY DEF PInv, OnTheWire, Texts
    <3>2. /\ Len(buffer) \in Nat /\ Len(wire) \in Nat
          /\ DOMAIN buffer = 1..Len(buffer) /\ DOMAIN wire = 1..Len(wire)
          /\ DOMAIN (buffer \o wire) = 1..(Len(buffer) + Len(wire))
          /\ \A i \in 1..Len(buffer) : (buffer \o wire)[i] = buffer[i]
          /\ \A i \in 1..Len(wire) : (buffer \o wire)[Len(buffer) + i] = wire[i]
      BY <3>1
    <3>3. ASSUME NEW i \in DOMAIN buffer, buffer[i].tok = "body"
          PROVE  buffer[i].of.code # "cid"
      <4>1. i \in DOMAIN (buffer \o wire) /\ (buffer \o wire)[i] = buffer[i]
        BY <3>2
      <4> QED
        BY <2>1, <3>3, <4>1 DEF NoCid
    <3>4. ASSUME NEW i \in DOMAIN wire, wire[i].tok = "body"
          PROVE  wire[i].of.code # "cid"
      <4>1. /\ Len(buffer) + i \in DOMAIN (buffer \o wire)
            /\ (buffer \o wire)[Len(buffer) + i] = wire[i]
        BY <3>2
      <4> QED
        BY <2>1, <3>4, <4>1 DEF NoCid
    <3> QED
      BY <3>3, <3>4 DEF NoCid
  <2>3. wire \in Seq(Tokens)
    BY DEF PInv, OnTheWire
  <2> DEFINE at == [state |-> state, buffer |-> buffer]
  <2>4. at \in Readings /\ at.buffer = buffer /\ at.state = state
    BY SeesTyped
  <2>5. SameUsers(at.state, Consumed(at, wire).state)
    <3> HIDE DEF at
    <3> QED
      BY <2>2, <2>3, <2>4, Untouched
  <2>6. SameUsers(Sees.state, state)
    BY <2>4, <2>5 DEF SameUsers, Sees
  <2>7. UsersSeen(Sees.state, programming, log)
    BY <2>1 DEF PInv
  <2> QED
    BY <2>6, <2>7, SameUsersSeen
<1>7. /\ StatusSeen(Sees.state, told, panel)'
      /\ ZonesSeen(Sees.state, toldZones, timer)'
  BY <1>1 DEF StatusSeen, ZonesSeen
<1>8. (~missed => UsersSeen(Sees.state, programming, log))'
  BY <1>1, <1>3, <1>6
<1> QED
  BY <1>4, <1>5, <1>7, <1>8 DEF PInv

LEMMA ReconnectedKeeps ==
  ASSUME PInv, Reconnected
  PROVE  PInv'
<1>1. /\ up' /\ asked' /\ buffer' = <<>> /\ wire = <<>> /\ wire' = <<>>
      /\ told' = {} /\ toldZones' = {}
      /\ UNCHANGED <<panel, timer, programming, log, state, missed, acts, changes, faults>>
  BY DEF Reconnected, panelVars, toldVars, leftVars, PInv, Sessions
<1>2. Sees.state = state
  BY <1>1, NothingToSee
<1>3. Sees'.state = state /\ Sees'.buffer = <<>>
  <2>1. Sees' = Consumed([state |-> state, buffer |-> <<>>], <<>>)
    BY <1>1 DEF Sees
  <2> QED
    BY <2>1, NothingConsumed
<1>4. TypeOK'
  BY <1>1, FeedConstants DEF PInv, TypeOK, Reconnected
<1>5. OnTheWire' /\ Sessions'
  BY <1>1, <1>3 DEF OnTheWire, Sessions, Texts
<1>6. /\ StatusSeen(Sees.state, told, panel)'
      /\ ZonesSeen(Sees.state, toldZones, timer)'
  BY <1>1 DEF StatusSeen, ZonesSeen
<1>7. (~missed => UsersSeen(Sees.state, programming, log))'
  BY <1>1, <1>2, <1>3 DEF PInv
<1> QED
  BY <1>4, <1>5, <1>6, <1>7 DEF PInv

LEMMA InitPInv == Init => PInv
<1> SUFFICES ASSUME Init PROVE PInv
  OBVIOUS
<1>1. /\ panel = [p \in PanelPartitions |-> Quiet] /\ timer = [z \in PanelZones |-> Top]
      /\ programming = FALSE /\ log = [p \in PanelPartitions |-> Nobody]
      /\ up = TRUE /\ wire = <<>> /\ buffer = <<>> /\ asked = TRUE
      /\ told = {} /\ toldZones = {} /\ missed = FALSE
      /\ \E b \in Budgets : acts = b.acts /\ changes = b.changes /\ faults = b.faults
  BY DEF Init
<1>2. state \in States
  <2>1. NewPartition \in PartitionStates
    BY DEF NewPartition, PartitionStates
  <2>2. Partitions \in {k \in SUBSET PanelPartitions : Partitions \subseteq k}
    BY FeedConstants
  <2>3. [p \in Partitions |-> NewPartition] \in PartitionMaps
    BY <2>1, <2>2 DEF PartitionMaps
  <2>4. [z \in Zones |-> NewZone] \in [Zones -> ZoneStates]
    BY DEF NewZone, ZoneStates
  <2> QED
    BY <2>3, <2>4 DEF Init, States
<1>3. TypeOK
  <2>1. Len(wire) = 0 /\ DOMAIN buffer = {}
    BY <1>1
  <2>2. panel \in [PanelPartitions -> [mode : Modes, exiting : BOOLEAN, alarm : BOOLEAN,
                                       ails : {"nothing", "ac", "trouble"}]]
    BY <1>1 DEF Quiet, Modes
  <2>3. log \in [PanelPartitions -> [armed : Users \cup {None},
                                     disarmed : Users \cup {None},
                                     last : {"armed", "disarmed"}]]
    BY <1>1 DEF Nobody
  <2>4. acts \in Nat /\ changes \in Nat /\ faults \in Nat /\ 0 <= MaxWire
    BY <1>1, FeedConstants
  <2>5. timer \in [PanelZones -> Timers \cup {Top}]
    BY <1>1
  <2>6. /\ programming \in BOOLEAN /\ up \in BOOLEAN /\ asked \in BOOLEAN
        /\ missed \in BOOLEAN /\ told \subseteq PanelPartitions
        /\ toldZones \subseteq PanelZones
    BY <1>1
  <2>7. Len(wire) <= MaxWire /\ \A i \in DOMAIN buffer : buffer[i].tok # "end"
    BY <2>1, <2>4
  <2> QED
    BY ONLY StatesAreOK, <1>2, <2>2, <2>3, <2>4, <2>5, <2>6, <2>7 DEF TypeOK
<1>4. Sees.state = state /\ Sees.buffer = <<>>
  BY <1>1, NothingToSee
<1>5. OnTheWire /\ Sessions
  BY <1>1, <1>4 DEF OnTheWire, Sessions, Texts
<1>6. StatusSeen(Sees.state, told, panel) /\ ZonesSeen(Sees.state, toldZones, timer)
  BY <1>1 DEF StatusSeen, ZonesSeen
<1>7. UsersSeen(state, programming, log)
  <2>1. ASSUME NEW p \in PanelPartitions
        PROVE  PartitionIn(state, p) = NewPartition /\ log[p] = Nobody
    BY <1>1 DEF PartitionIn, Init
  <2>2. ~state.installersMode
    BY DEF Init
  <2> QED
    BY <1>1, <2>1, <2>2 DEF UsersSeen, NewPartition, Nobody
<1> QED
  BY <1>3, <1>4, <1>5, <1>6, <1>7 DEF PInv

LEMMA StepPInv == PInv /\ [Next]_vars => PInv'
<1> SUFFICES ASSUME PInv, [Next]_vars PROVE PInv'
  OBVIOUS
<1>1. ASSUME NEW p \in PanelPartitions, NEW mode \in Modes \ {"disarmed"},
             NEW user \in Users, Arm(p, mode, user)
      PROVE  PInv'
  BY <1>1, ArmKeeps
<1>2. ASSUME NEW p \in PanelPartitions, NEW user \in Users, Disarm(p, user)
      PROVE  PInv'
  BY <1>2, DisarmKeeps
<1>3. ASSUME NEW p \in PanelPartitions, Turn(p) PROVE PInv'
  BY <1>3, TurnKeeps
<1>4. ASSUME NEW p \in PanelPartitions, KeypadUpdate(p) PROVE PInv'
  BY <1>4, KeypadUpdateKeeps
<1>5. CASE Program
  BY <1>5, ProgramKeeps
<1>6. ASSUME NEW z \in PanelZones, NEW t \in Timers, ZoneTimer(z, t) PROVE PInv'
  BY <1>6, ZoneTimerKeeps
<1>7. CASE AskTimers
  BY <1>7, AskTimersKeeps
<1>8. CASE AnswerTimers
  BY <1>8, AnswerTimersKeeps
<1>9. CASE Lost
  BY <1>9, LostKeeps
<1>10. CASE Reconnected
  BY <1>10, ReconnectedKeeps
<1>11. ASSUME NEW n \in 1..MaxWire, Read(n) PROVE PInv'
  BY <1>11, ReadKeeps
<1>12. CASE UNCHANGED vars
  <2>1. UNCHANGED <<panel, timer, programming, log, up, wire, buffer, asked, state,
                    told, toldZones, missed, acts, changes, faults>>
    BY <1>12 DEF vars, panelVars, wireVars, toldVars, leftVars
  <2>2. Sees' = Sees
    BY <2>1 DEF Sees
  <2>3. TypeOK' /\ OnTheWire' /\ Sessions'
    BY <2>1, <2>2 DEF PInv, TypeOK, OnTheWire, Sessions
  <2> QED
    BY <2>1, <2>2, <2>3 DEF PInv
<1> QED
  BY <1>1, <1>2, <1>3, <1>4, <1>5, <1>6, <1>7, <1>8, <1>9, <1>10, <1>11, <1>12
     DEF Next

LEMMA PInvHolds == Spec => []PInv
<1> QED
  BY InitPInv, StepPInv, PTL DEF Spec

-----------------------------------------------------------------------------
(* The theorems.                                                           *)

\* State, wire and buffer keep their form: what state_machine.py folds in is
\* a VistaState again, and a complete frame never stays in client._buffer.
THEOREM FeedIsTyped == Spec => []TypeOK
<1>1. PInv => TypeOK
  BY DEF PInv
<1> QED
  BY <1>1, PInvHolds, PTL

\* When nothing is on its way, the alarm control panel of a partition shows
\* what its last keypad update said and the partition still does.
THEOREM PanelsShowTheStatus == Spec => []StatusIsTrue
<1>1. PInv => StatusIsTrue
  <2> SUFFICES ASSUME PInv, up, wire = <<>>, NEW p \in told
               PROVE  /\ p \in DOMAIN state.partitions
                      /\ AlarmState(state.partitions[p]) = Status(panel[p])
    BY DEF StatusIsTrue
  <2>1. Sees.state = state
    BY NothingToSee
  <2>2. StatusSeen(state, told, panel)
    BY <2>1 DEF PInv
  <2> QED
    BY <2>2 DEF StatusSeen
<1> QED
  BY <1>1, PInvHolds, PTL

\* When nothing is on its way, a zone sensor shows what the dump said and
\* still holds: the bytes of a timer are swapped back and counted down.
THEOREM SensorsShowTheZones == Spec => []ZonesAreTrue
<1>1. PInv => ZonesAreTrue
  <2> SUFFICES ASSUME PInv, up, wire = <<>>, NEW z \in toldZones \cap Zones
               PROVE  /\ state.zones[z].open <=> timer[z] <= OpenTicks
                      /\ state.zones[z].seconds = 5 * timer[z]
    BY DEF ZonesAreTrue
  <2>1. Sees.state = state
    BY NothingToSee
  <2>2. ZonesSeen(state, toldZones, timer)
    BY <2>1 DEF PInv
  <2> QED
    BY <2>2 DEF ZonesSeen
<1> QED
  BY <1>1, PInvHolds, PTL

\* When nothing is on its way and no CID event was lost, the trouble sensor
\* is on exactly if a partition ails or Program Mode is open.
THEOREM TheSensorShowsTrouble == Spec => []TroubleIsTrue
<1>1. PInv => TroubleIsTrue
  <2> DEFINE known == DOMAIN state.partitions
  <2> SUFFICES ASSUME PInv, up, wire = <<>>, ~missed, known \subseteq told
               PROVE  SystemTrouble <=>
                        programming \/ \E p \in known : panel[p].ails # "nothing"
    BY DEF TroubleIsTrue
  <2>1. Sees.state = state
    BY NothingToSee
  <2>2. state.installersMode <=> programming
    BY <2>1 DEF PInv, UsersSeen
  <2>3. StatusSeen(state, told, panel)
    BY <2>1 DEF PInv
  <2>4. \A p \in known :
           (state.partitions[p].trouble \/ ~state.partitions[p].acPresent)
             <=> panel[p].ails # "nothing"
    BY <2>3 DEF StatusSeen
  <2> QED
    BY <2>2, <2>4 DEF SystemTrouble
<1> QED
  BY <1>1, PInvHolds, PTL

\* Who disarmed a partition last is known if that was the last to be done.
Logged ==
    /\ log \in [PanelPartitions -> [armed : Users \cup {None},
                                    disarmed : Users \cup {None},
                                    last : {"armed", "disarmed"}]]
    /\ \A p \in PanelPartitions :
          log[p].last = "disarmed" => log[p].disarmed # None

LEMMA LoggedHolds == Spec => []Logged
<1>1. Init => Logged
  BY DEF Init, Logged, Nobody
<1>2. Logged /\ [Next]_vars => Logged'
  <2> SUFFICES ASSUME Logged, [Next]_vars PROVE Logged'
    OBVIOUS
  <2>1. ASSUME NEW p \in PanelPartitions, NEW mode \in Modes \ {"disarmed"},
               NEW user \in Users, Arm(p, mode, user)
        PROVE  Logged'
    <3>1. log' = [log EXCEPT ![p].armed = user, ![p].last = "armed"]
      BY <2>1 DEF Arm
    <3> QED
      BY <3>1 DEF Logged
  <2>2. ASSUME NEW p \in PanelPartitions, NEW user \in Users, Disarm(p, user)
        PROVE  Logged'
    <3>1. log' = [log EXCEPT ![p].disarmed = user, ![p].last = "disarmed"]
      BY <2>2 DEF Disarm
    <3>2. user # None
      BY FeedConstants
    <3> QED
      BY <3>1, <3>2 DEF Logged
  <2>3. ASSUME UNCHANGED log PROVE Logged'
    BY <2>3 DEF Logged
  <2>4. ASSUME NEW p \in PanelPartitions, Turn(p) \/ KeypadUpdate(p)
        PROVE  Logged'
    BY <2>3, <2>4 DEF Turn, KeypadUpdate, panelVars
  <2>5. CASE Program
    BY <2>3, <2>5 DEF Program
  <2>6. ASSUME NEW z \in PanelZones, NEW t \in Timers, ZoneTimer(z, t)
        PROVE  Logged'
    BY <2>3, <2>6 DEF ZoneTimer
  <2>7. CASE AskTimers \/ AnswerTimers \/ Lost \/ Reconnected
    BY <2>3, <2>7 DEF AskTimers, AnswerTimers, Lost, Reconnected, panelVars
  <2>8. ASSUME NEW n \in 1..MaxWire, Read(n) PROVE Logged'
    BY <2>3, <2>8 DEF Read, panelVars
  <2>9. CASE UNCHANGED vars
    BY <2>3, <2>9 DEF vars, panelVars
  <2> QED
    BY <2>1, <2>2, <2>4, <2>5, <2>6, <2>7, <2>8, <2>9 DEF Next
<1> QED
  BY <1>1, <1>2, PTL DEF Spec

\* When nothing is on its way and no CID event was lost, the users of a
\* partition are those who armed and disarmed it last, and the one its sensor
\* shows is the last to have done either, or who disarmed it last if it has
\* been armed again since.
THEOREM UsersAreThoseWhoDid == Spec => []UsersAreTrue
<1>1. PInv /\ Logged => UsersAreTrue
  <2> SUFFICES ASSUME PInv, Logged, up, wire = <<>>, ~missed,
                      NEW p \in DOMAIN state.partitions
               PROVE  LET known == state.partitions[p]
                          rearmed == /\ log[p].last = "armed"
                                     /\ log[p].disarmed # None
                      IN /\ known.lastArmed = log[p].armed
                         /\ known.lastDisarmed = log[p].disarmed
                         /\ last_user(known) =
                              IF rearmed THEN log[p].disarmed
                              ELSE log[p][log[p].last]
    BY DEF UsersAreTrue
  <2>1. Sees.state = state
    BY NothingToSee
  <2>2. UsersSeen(state, programming, log)
    BY <2>1 DEF PInv
  <2>3. p \in PanelPartitions
    BY StatesAreOK DEF PInv, TypeOK, States, PartitionMaps
  <2>4. PartitionIn(state, p) = state.partitions[p]
    BY DEF PartitionIn
  <2>5. /\ state.partitions[p].lastArmed = log[p].armed
        /\ state.partitions[p].lastDisarmed = log[p].disarmed
    BY <2>2, <2>3, <2>4 DEF UsersSeen
  <2>6. /\ log[p].last \in {"armed", "disarmed"}
        /\ log[p].last = "disarmed" => log[p].disarmed # None
    BY <2>3 DEF Logged
  <2>7. CASE log[p].last = "disarmed"
    <3>1. log[p][log[p].last] = log[p].disarmed /\ log[p].disarmed # None
      BY <2>6, <2>7
    <3> QED
      BY <2>5, <2>7, <3>1 DEF last_user
  <2>8. CASE log[p].last = "armed"
    <3>1. log[p][log[p].last] = log[p].armed
      BY <2>8
    <3> QED
      BY <2>5, <2>8, <3>1 DEF last_user
  <2> QED
    BY <2>6, <2>7, <2>8
<1> QED
  BY <1>1, PInvHolds, LoggedHolds, PTL
=============================================================================
