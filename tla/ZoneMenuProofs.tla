---------------------------- MODULE ZoneMenuProofs ----------------------------
(***************************************************************************)
(* Proofs about ZoneMenu, for every set of models and zones and any number *)
(* of operations: each entry is typed at the prompt it was built for, what *)
(* is through has told the panel what was asked for, and what is refused   *)
(* is what README.md's table lists.                                        *)
(***************************************************************************)
EXTENDS ZoneMenu, SequenceTheorems, FiniteSetTheorems, TLAPS


Entries == [for : Prompts, is : Int]
SomeModel == model \in {"21iP", "15P", "10P"}

-----------------------------------------------------------------------------
(* What the builders build.                                                *)

LEMMA EntryIs ==
  ASSUME NEW for \in Prompts, NEW is \in Int
  PROVE  E(for, is) \in Entries /\ E(for, is).for = for /\ E(for, is).is = is
BY DEF E, Entries

LEMMA OneEntry ==
  ASSUME NEW e \in Entries
  PROVE  <<e>> \in Seq(Entries) /\ Len(<<e>>) = 1 /\ <<e>>[1] = e
OBVIOUS

LEMMA WhenIs ==
  ASSUME NEW for \in Prompts, NEW is \in Int
  PROVE  /\ When(TRUE, for, is) \in Seq(Entries)
         /\ Len(When(TRUE, for, is)) = 1
         /\ When(TRUE, for, is)[1] = E(for, is)
         /\ When(FALSE, for, is) \in Seq(Entries)
         /\ Len(When(FALSE, for, is)) = 0
<1>1. E(for, is) \in Entries
  BY EntryIs
<1>2. <<E(for, is)>> \in Seq(Entries) /\ <<>> \in Seq(Entries)
  BY <1>1
<1> QED
  BY <1>1, <1>2 DEF When

\* Concatenation, with the second part counted from its own start.
LEMMA Joined ==
  ASSUME NEW a \in Seq(Entries), NEW b \in Seq(Entries)
  PROVE  /\ a \o b \in Seq(Entries)
         /\ Len(a \o b) = Len(a) + Len(b)
         /\ \A i \in 1..Len(a) : (a \o b)[i] = a[i]
         /\ \A i \in 1..Len(b) : (a \o b)[Len(a) + i] = b[i]
<1>1. /\ a \o b \in Seq(Entries) /\ Len(a \o b) = Len(a) + Len(b)
      /\ \A i \in 1..(Len(a) + Len(b)) :
            (a \o b)[i] = IF i <= Len(a) THEN a[i] ELSE b[i - Len(a)]
  BY ConcatProperties
<1>2. Len(a) \in Nat /\ Len(b) \in Nat
  OBVIOUS
<1>3. ASSUME NEW i \in 1..Len(a) PROVE (a \o b)[i] = a[i]
  <2>1. i \in 1..(Len(a) + Len(b)) /\ i <= Len(a)
    BY ONLY <1>2, <1>3
  <2> QED
    BY ONLY <1>1, <2>1
<1>4. ASSUME NEW i \in 1..Len(b) PROVE (a \o b)[Len(a) + i] = b[i]
  <2>1. /\ Len(a) + i \in 1..(Len(a) + Len(b)) /\ ~(Len(a) + i <= Len(a))
        /\ (Len(a) + i) - Len(a) = i
    BY ONLY <1>2, <1>4
  <2>2. (a \o b)[Len(a) + i] = b[(Len(a) + i) - Len(a)]
    BY ONLY <1>1, <2>1
  <2> QED
    BY <2>1, <2>2
<1> QED
  BY ONLY <1>1, <1>3, <1>4

LEMMA Framed ==
  ASSUME NEW a \in Seq(Entries), NEW b \in Seq(Entries), NEW c \in Seq(Entries),
         Len(a) = 1, Len(c) = 1
  PROVE  LET s == (a \o b) \o c
         IN  /\ s \in Seq(Entries) /\ Len(s) = Len(b) + 2
             /\ s[1] = a[1] /\ s[Len(b) + 2] = c[1]
             /\ \A i \in 1..Len(b) : s[i + 1] = b[i]
<1> DEFINE ab == a \o b
<1>1. Len(b) \in Nat
  OBVIOUS
<1>2. /\ ab \in Seq(Entries) /\ Len(ab) = 1 + Len(b)
      /\ ab[1] = a[1]
      /\ \A i \in 1..Len(b) : ab[1 + i] = b[i]
  <2>1. /\ ab \in Seq(Entries) /\ Len(ab) = Len(a) + Len(b)
        /\ \A i \in 1..Len(a) : ab[i] = a[i]
        /\ \A i \in 1..Len(b) : ab[Len(a) + i] = b[i]
    BY Joined
  <2>2. Len(a) = 1
    OBVIOUS
  <2> HIDE DEF ab
  <2> QED
    BY ONLY <1>1, <2>1, <2>2
<1> HIDE DEF ab
<1>3. /\ ab \o c \in Seq(Entries) /\ Len(ab \o c) = Len(ab) + 1
      /\ \A i \in 1..Len(ab) : (ab \o c)[i] = ab[i]
      /\ (ab \o c)[Len(ab) + 1] = c[1]
  <2>1. ab \in Seq(Entries)
    BY ONLY <1>2
  <2>2. /\ ab \o c \in Seq(Entries) /\ Len(ab \o c) = Len(ab) + Len(c)
        /\ \A i \in 1..Len(ab) : (ab \o c)[i] = ab[i]
        /\ \A i \in 1..Len(c) : (ab \o c)[Len(ab) + i] = c[i]
    BY <2>1, Joined
  <2>3. Len(c) = 1
    OBVIOUS
  <2> QED
    BY ONLY <1>1, <1>2, <2>2, <2>3
<1>4. /\ ab \o c \in Seq(Entries) /\ Len(ab \o c) = Len(b) + 2
      /\ (ab \o c)[1] = a[1] /\ (ab \o c)[Len(b) + 2] = c[1]
  BY ONLY <1>1, <1>2, <1>3
<1>5. ASSUME NEW i \in 1..Len(b) PROVE (ab \o c)[i + 1] = b[i]
  <2>1. i + 1 \in 1..Len(ab) /\ 1 + i = i + 1
    BY ONLY <1>1, <1>2, <1>5
  <2> QED
    BY ONLY <1>2, <1>3, <2>1
<1> QED
  BY <1>4, <1>5 DEF ab

\* The layouts, model by model.
LEMMA LayoutOf ==
  ASSUME SomeModel
  PROVE  /\ Layout[model].partitionPrompt <=> model = "21iP"
         /\ Layout[model].doubling <=> model = "21iP"
         /\ Layout[model].auxWired <=> model # "10P"
         /\ Layout[model].board = IF model = "21iP" THEN 1..8 ELSE 1..6
         /\ Layout[model].hardwirePrompt =
               IF model = "21iP" THEN 2..8
               ELSE IF model = "15P" THEN 2..6 ELSE 1..6
         /\ Layout[model].types = IF model = "21iP" THEN 0..4 ELSE 0..2
         /\ Layout[model].expansion =
               IF model = "21iP" THEN 9..48
               ELSE IF model = "15P" THEN 9..34 ELSE 9..24
         /\ Layout[model].button = IF model = "21iP" THEN 49..64 ELSE 49..56
<1>1. CASE model = "21iP"
  BY <1>1 DEF Layout, Residential
<1>2. CASE model = "15P"
  BY <1>2 DEF Layout, Residential
<1>3. CASE model = "10P"
  BY <1>3 DEF Layout, Residential
<1> QED
  BY <1>1, <1>2, <1>3 DEF SomeModel

LEMMA ZoneFields ==
  ASSUME NEW r \in Requests, r.op = "zone"
  PROVE  /\ r.zone \in 1..64 /\ r.zone # 0 /\ r.type = 16 /\ r.partition = 3
         /\ r.report = 1 /\ r.hardwire \in 0..4 /\ r.response = 2
         /\ r.connection \in {"unset", "wired", "wireless"}
<1>1. /\ r.zone \in 1..64 /\ r.type = 16 /\ r.partition = 3
      /\ r.report = 1 /\ r.hardwire \in 0..4 /\ r.response = 2
      /\ r.connection \in {"unset", "wired", "wireless"}
  BY MenuAssumption
  DEF Requests, ZoneRequests, TimingRequests, KeyRequests
<1>2. \A n \in 1..64 : n # 0
  OBVIOUS
<1> QED
  BY ONLY <1>1, <1>2

LEMMA TimingFields ==
  ASSUME NEW r \in Requests, r.op = "timing"
  PROVE  r.field \in {34, 35, 84} /\ r.value \in {0, 3, 97, 98}
BY DEF Requests, ZoneRequests, TimingRequests, KeyRequests

LEMMA KeyFields ==
  ASSUME NEW r \in Requests, r.op = "key"
  PROVE  r.letter \in {1, 4} /\ r.partition = 2 /\ r.action \in {0, 8}
BY DEF Requests, ZoneRequests, TimingRequests, KeyRequests

LEMMA RequestKinds ==
  ASSUME NEW r \in Requests
  PROVE  r.op \in {"zone", "timing", "key"}
BY DEF Requests, ZoneRequests, TimingRequests, KeyRequests

\* What a zone's sequence has after REPORT CODE.
LEMMA WiringIs ==
  ASSUME NEW r \in Requests, r.op = "zone"
  PROVE  /\ Wiring(r) \in Seq(Entries)
         /\ KindOf(r) = "board" /\ r.zone \in Layout[model].hardwirePrompt =>
              /\ Len(Wiring(r)) = 2
              /\ Wiring(r)[1] = E("hardwire", r.hardwire)
              /\ Wiring(r)[2] = E("response", r.response)
         /\ KindOf(r) = "board" /\ r.zone \notin Layout[model].hardwirePrompt =>
              Len(Wiring(r)) = 1 /\ Wiring(r)[1] = E("response", r.response)
         /\ KindOf(r) = "aux_wired" =>
              Len(Wiring(r)) = 1 /\ Wiring(r)[1] = E("input", 2)
         /\ KindOf(r) \notin {"board", "aux_wired"} => Len(Wiring(r)) = 0
<1>0. /\ r.hardwire \in Int /\ r.response \in Int /\ 2 \in Int
      /\ "hardwire" \in Prompts /\ "response" \in Prompts /\ "input" \in Prompts
  BY ZoneFields DEF Prompts, Settings
<1> DEFINE board == KindOf(r) = "board"
           asks == r.zone \in Layout[model].hardwirePrompt
           a == When(board /\ asks, "hardwire", r.hardwire)
           b == When(board, "response", r.response)
           c == When(KindOf(r) = "aux_wired", "input", 2)
<1>1. /\ a \in Seq(Entries)
      /\ board /\ asks => Len(a) = 1 /\ a[1] = E("hardwire", r.hardwire)
      /\ ~(board /\ asks) => Len(a) = 0
  <2>1. (board /\ asks) \in BOOLEAN
    OBVIOUS
  <2>2. CASE board /\ asks
    <3>1. a = When(TRUE, "hardwire", r.hardwire)
      BY <2>2 DEF When
    <3> QED
      BY <1>0, <2>2, <3>1, WhenIs
  <2>3. CASE ~(board /\ asks)
    <3>1. a = When(FALSE, "hardwire", r.hardwire)
      BY <2>3 DEF When
    <3> QED
      BY <1>0, <2>3, <3>1, WhenIs
  <2> QED
    BY <2>1, <2>2, <2>3
<1>2. /\ b \in Seq(Entries)
      /\ board => Len(b) = 1 /\ b[1] = E("response", r.response)
      /\ ~board => Len(b) = 0
  <2>1. CASE board
    <3>1. b = When(TRUE, "response", r.response)
      BY <2>1 DEF When
    <3> QED
      BY <1>0, <2>1, <3>1, WhenIs
  <2>2. CASE ~board
    <3>1. b = When(FALSE, "response", r.response)
      BY <2>2 DEF When
    <3> QED
      BY <1>0, <2>2, <3>1, WhenIs
  <2> QED
    BY <2>1, <2>2
<1>3. /\ c \in Seq(Entries)
      /\ KindOf(r) = "aux_wired" => Len(c) = 1 /\ c[1] = E("input", 2)
      /\ KindOf(r) # "aux_wired" => Len(c) = 0
  <2>1. CASE KindOf(r) = "aux_wired"
    <3>1. c = When(TRUE, "input", 2)
      BY <2>1 DEF When
    <3> QED
      BY <1>0, <2>1, <3>1, WhenIs
  <2>2. CASE KindOf(r) # "aux_wired"
    <3>1. c = When(FALSE, "input", 2)
      BY <2>2 DEF When
    <3> QED
      BY <1>0, <2>2, <3>1, WhenIs
  <2> QED
    BY <2>1, <2>2
<1>w. Wiring(r) = (a \o b) \o c
  BY DEF Wiring
<1> HIDE DEF a, b, c
<1> DEFINE ab == a \o b
           abc == ab \o c
<1>4. /\ ab \in Seq(Entries) /\ Len(ab) = Len(a) + Len(b)
      /\ \A i \in 1..Len(a) : ab[i] = a[i]
      /\ \A i \in 1..Len(b) : ab[Len(a) + i] = b[i]
  BY <1>1, <1>2, Joined
<1> HIDE DEF ab
<1>5. /\ abc \in Seq(Entries) /\ Len(abc) = Len(ab) + Len(c)
      /\ \A i \in 1..Len(ab) : abc[i] = ab[i]
      /\ \A i \in 1..Len(c) : abc[Len(ab) + i] = c[i]
  BY <1>3, <1>4, Joined
<1>s. Wiring(r) = abc
  BY <1>w DEF ab
<1> HIDE DEF abc
<1>6. CASE board /\ asks
  <2>1. Len(a) = 1 /\ Len(b) = 1 /\ Len(c) = 0
    BY <1>1, <1>2, <1>3, <1>6
  <2>2. Len(ab) = 2 /\ ab[1] = a[1] /\ ab[2] = b[1]
    BY ONLY <1>4, <2>1
  <2>3. Len(abc) = 2 /\ abc[1] = a[1] /\ abc[2] = b[1]
    BY ONLY <1>5, <2>1, <2>2
  <2> QED
    BY <1>1, <1>2, <1>3, <1>s, <1>5, <1>6, <2>3
<1>7. CASE board /\ ~asks
  <2>1. Len(a) = 0 /\ Len(b) = 1 /\ Len(c) = 0
    BY <1>1, <1>2, <1>3, <1>7
  <2>2. Len(ab) = 1 /\ ab[1] = b[1]
    BY ONLY <1>4, <2>1
  <2>3. Len(abc) = 1 /\ abc[1] = b[1]
    BY ONLY <1>5, <2>1, <2>2
  <2> QED
    BY <1>1, <1>2, <1>3, <1>s, <1>5, <1>7, <2>3
<1>8. CASE KindOf(r) = "aux_wired"
  <2>1. Len(a) = 0 /\ Len(b) = 0 /\ Len(c) = 1
    BY <1>1, <1>2, <1>3, <1>8
  <2>2. Len(ab) = 0
    BY ONLY <1>4, <2>1
  <2>3. Len(abc) = 1 /\ abc[1] = c[1]
    BY ONLY <1>5, <2>1, <2>2
  <2> QED
    BY <1>1, <1>2, <1>3, <1>s, <1>5, <1>8, <2>3
<1>9. CASE KindOf(r) \notin {"board", "aux_wired"}
  <2>1. Len(a) = 0 /\ Len(b) = 0 /\ Len(c) = 0
    BY <1>1, <1>2, <1>3, <1>9
  <2>2. Len(abc) = 0
    BY ONLY <1>4, <1>5, <2>1
  <2> QED
    BY <1>s, <1>5, <1>9, <2>2
<1> QED
  BY <1>6, <1>7, <1>8, <1>9

\* The whole of a zone's sequence.
Multi == IF model = "21iP" THEN 1 ELSE 0
Wires(r) == Len(Wiring(r))

LEMMA ZoneBuilt ==
  ASSUME NEW r \in Requests, r.op = "zone", SomeModel
  PROVE  LET s == Built(r)
         IN  /\ s \in Seq(Entries) /\ Len(s) = 10 + Multi + Wires(r)
             /\ s[1] = E("normal", 800) /\ s[2] = E("field", 56)
             /\ s[3] = E("confirm", 0) /\ s[4] = E("zone", r.zone)
             /\ s[5] = E("summary", 0) /\ s[6] = E("type", r.type)
             /\ Multi = 1 => s[7] = E("partition", r.partition)
             /\ s[7 + Multi] = E("report", r.report)
             /\ \A i \in 1..Wires(r) : s[7 + Multi + i] = Wiring(r)[i]
             /\ s[8 + Multi + Wires(r)] = E("alpha", 0) /\ s[9 + Multi + Wires(r)] = E("zone", 0)
             /\ s[10 + Multi + Wires(r)] = E("field", 99)
<1>0. /\ r.zone \in Int /\ r.type \in Int /\ r.partition \in Int /\ r.report \in Int
      /\ "partition" \in Prompts
  <2>1. r.zone \in 1..64 /\ r.type = 16 /\ r.partition = 3 /\ r.report = 1
    BY ZoneFields
  <2>2. "partition" \in Prompts
    BY DEF Prompts, Settings
  <2> QED
    BY ONLY <2>1, <2>2
<1> DEFINE first == <<E("field", 56), E("confirm", 0), E("zone", r.zone),
                      E("summary", 0), E("type", r.type)>>
           part == When(Layout[model].partitionPrompt, "partition", r.partition)
           rep == <<E("report", r.report)>>
           last == <<E("alpha", 0), E("zone", 0)>>
           s2 == first \o part
           s3 == s2 \o rep
           s4 == s3 \o Wiring(r)
           s5 == s4 \o last
           open == <<E("normal", 800)>>
           s6 == open \o s5
           close == <<E("field", 99)>>
           s7 == s6 \o close
<1>1. /\ E("field", 56) \in Entries /\ E("confirm", 0) \in Entries
      /\ E("zone", r.zone) \in Entries /\ E("summary", 0) \in Entries
      /\ E("type", r.type) \in Entries /\ E("report", r.report) \in Entries
      /\ E("alpha", 0) \in Entries /\ E("zone", 0) \in Entries
      /\ E("normal", 800) \in Entries /\ E("field", 99) \in Entries
  BY <1>0, EntryIs DEF Prompts, Settings
<1>2. /\ first \in Seq(Entries) /\ Len(first) = 5
      /\ first[1] = E("field", 56) /\ first[2] = E("confirm", 0)
      /\ first[3] = E("zone", r.zone) /\ first[4] = E("summary", 0)
      /\ first[5] = E("type", r.type)
  BY <1>1
<1>3. /\ part \in Seq(Entries) /\ Len(part) = Multi
      /\ Multi = 1 => part[1] = E("partition", r.partition)
  <2>1. CASE model = "21iP"
    <3>1. Multi = 1 /\ part = When(TRUE, "partition", r.partition)
      BY <2>1, LayoutOf DEF Multi
    <3> HIDE DEF part
    <3> QED
      BY ONLY <1>0, <3>1, WhenIs
  <2>2. CASE model # "21iP"
    <3>1. Multi = 0 /\ part = <<>>
      BY <2>2, LayoutOf DEF When, Multi
    <3> HIDE DEF part
    <3> QED
      BY ONLY <3>1
  <2> QED
    BY <2>1, <2>2
<1>4. rep \in Seq(Entries) /\ Len(rep) = 1 /\ rep[1] = E("report", r.report)
  BY <1>1
<1>5. /\ last \in Seq(Entries) /\ Len(last) = 2 /\ last[1] = E("alpha", 0)
      /\ last[2] = E("zone", 0)
  BY <1>1
<1>6. /\ open \in Seq(Entries) /\ Len(open) = 1 /\ open[1] = E("normal", 800)
      /\ close \in Seq(Entries) /\ Len(close) = 1 /\ close[1] = E("field", 99)
  BY <1>1
<1>7. /\ Wiring(r) \in Seq(Entries) /\ Multi \in {0, 1} /\ Wires(r) \in Nat
      /\ Wires(r) = Len(Wiring(r))
  BY WiringIs DEF Multi, Wires
<1>8. Built(r) = s7
  BY DEF Built, Wrapped, ZoneKeys
<1> HIDE DEF first, part, rep, last, open, close
<1>9. /\ s2 \in Seq(Entries) /\ Len(s2) = 5 + Multi
      /\ \A i \in 1..5 : s2[i] = first[i]
      /\ Multi = 1 => s2[6] = part[1]
  <2>1. /\ first \o part \in Seq(Entries)
        /\ Len(first \o part) = Len(first) + Len(part)
        /\ \A i \in 1..Len(first) : (first \o part)[i] = first[i]
        /\ \A i \in 1..Len(part) : (first \o part)[Len(first) + i] = part[i]
    BY <1>2, <1>3, Joined
  <2> QED
    BY ONLY <2>1, <1>2, <1>3, <1>7 DEF s2
<1> HIDE DEF s2
<1>10. /\ s3 \in Seq(Entries) /\ Len(s3) = 6 + Multi
       /\ \A i \in 1..(5 + Multi) : s3[i] = s2[i]
       /\ s3[6 + Multi] = rep[1]
  <2>1. /\ s2 \o rep \in Seq(Entries)
        /\ Len(s2 \o rep) = Len(s2) + Len(rep)
        /\ \A i \in 1..Len(s2) : (s2 \o rep)[i] = s2[i]
        /\ \A i \in 1..Len(rep) : (s2 \o rep)[Len(s2) + i] = rep[i]
    BY <1>4, <1>9, Joined
  <2> QED
    BY ONLY <2>1, <1>4, <1>9, <1>7 DEF s3
<1> HIDE DEF s3
<1>11. /\ s4 \in Seq(Entries) /\ Len(s4) = 6 + Multi + Wires(r)
       /\ \A i \in 1..(6 + Multi) : s4[i] = s3[i]
       /\ \A i \in 1..Wires(r) : s4[6 + Multi + i] = Wiring(r)[i]
  <2>1. /\ s3 \o Wiring(r) \in Seq(Entries)
        /\ Len(s3 \o Wiring(r)) = Len(s3) + Len(Wiring(r))
        /\ \A i \in 1..Len(s3) : (s3 \o Wiring(r))[i] = s3[i]
        /\ \A i \in 1..Len(Wiring(r)) : (s3 \o Wiring(r))[Len(s3) + i] = Wiring(r)[i]
    BY <1>7, <1>10, Joined
  <2> QED
    BY ONLY <2>1, <1>10, <1>7 DEF s4
<1> HIDE DEF s4
<1>12. /\ s5 \in Seq(Entries) /\ Len(s5) = 8 + Multi + Wires(r)
       /\ \A i \in 1..(6 + Multi + Wires(r)) : s5[i] = s4[i]
       /\ s5[7 + Multi + Wires(r)] = last[1] /\ s5[8 + Multi + Wires(r)] = last[2]
  <2>1. /\ s4 \o last \in Seq(Entries)
        /\ Len(s4 \o last) = Len(s4) + Len(last)
        /\ \A i \in 1..Len(s4) : (s4 \o last)[i] = s4[i]
        /\ \A i \in 1..Len(last) : (s4 \o last)[Len(s4) + i] = last[i]
    BY <1>5, <1>11, Joined
  <2> QED
    BY ONLY <2>1, <1>5, <1>11, <1>7 DEF s5
<1> HIDE DEF s5
<1>13. /\ s6 \in Seq(Entries) /\ Len(s6) = 9 + Multi + Wires(r)
       /\ s6[1] = open[1]
       /\ \A i \in 1..(8 + Multi + Wires(r)) : s6[1 + i] = s5[i]
  <2>1. /\ open \o s5 \in Seq(Entries)
        /\ Len(open \o s5) = Len(open) + Len(s5)
        /\ \A i \in 1..Len(open) : (open \o s5)[i] = open[i]
        /\ \A i \in 1..Len(s5) : (open \o s5)[Len(open) + i] = s5[i]
    <3>1. open \in Seq(Entries) /\ s5 \in Seq(Entries)
      BY ONLY <1>6, <1>12
    <3> QED
      BY <3>1, Joined
  <2> QED
    BY ONLY <2>1, <1>6, <1>12, <1>7 DEF s6
<1> HIDE DEF s6
<1>14. /\ s7 \in Seq(Entries) /\ Len(s7) = 10 + Multi + Wires(r)
       /\ \A i \in 1..(9 + Multi + Wires(r)) : s7[i] = s6[i]
       /\ s7[10 + Multi + Wires(r)] = close[1]
  <2>1. /\ s6 \o close \in Seq(Entries)
        /\ Len(s6 \o close) = Len(s6) + Len(close)
        /\ \A i \in 1..Len(s6) : (s6 \o close)[i] = s6[i]
        /\ \A i \in 1..Len(close) : (s6 \o close)[Len(s6) + i] = close[i]
    <3>1. s6 \in Seq(Entries) /\ close \in Seq(Entries)
      BY ONLY <1>6, <1>13
    <3> QED
      BY <3>1, Joined
  <2> QED
    BY ONLY <2>1, <1>6, <1>13, <1>7 DEF s7
<1> HIDE DEF s7
<1>15. /\ s7[1] = E("normal", 800) /\ s7[10 + Multi + Wires(r)] = E("field", 99)
  BY ONLY <1>6, <1>7, <1>13, <1>14
<1>16. ASSUME NEW i \in 1..(8 + Multi + Wires(r)) PROVE s7[i + 1] = s5[i]
  BY ONLY <1>7, <1>13, <1>14, <1>16
<1>17. ASSUME NEW i \in 1..5 PROVE s7[i + 1] = first[i]
  <2>1. s7[i + 1] = s5[i]
    BY ONLY <1>7, <1>16, <1>17
  <2>2. s5[i] = s4[i] /\ s4[i] = s3[i]
    BY ONLY <1>7, <1>11, <1>12, <1>17
  <2>3. s3[i] = s2[i] /\ s2[i] = first[i]
    BY ONLY <1>7, <1>9, <1>10, <1>17
  <2> QED
    BY <2>1, <2>2, <2>3
<1>18. Multi = 1 => s7[7] = part[1]
  <2> HAVE Multi = 1
  <2>1. s7[7] = s5[6]
    BY ONLY <1>7, <1>16
  <2>2. s5[6] = s4[6] /\ s4[6] = s3[6]
    BY ONLY <1>7, <1>11, <1>12
  <2>3. s3[6] = s2[6] /\ s2[6] = part[1]
    BY <1>9, <1>10
  <2> QED
    BY <2>1, <2>2, <2>3
<1>19. s7[7 + Multi] = rep[1]
  <2>1. s7[7 + Multi] = s5[6 + Multi]
    BY ONLY <1>7, <1>16
  <2>2. s5[6 + Multi] = s4[6 + Multi] /\ s4[6 + Multi] = s3[6 + Multi]
    BY ONLY <1>7, <1>11, <1>12
  <2> QED
    BY <1>10, <2>1, <2>2
<1>20. ASSUME NEW i \in 1..Wires(r) PROVE s7[7 + Multi + i] = Wiring(r)[i]
  <2>1. s7[7 + Multi + i] = s5[6 + Multi + i]
    BY ONLY <1>7, <1>16, <1>20
  <2>2. s5[6 + Multi + i] = s4[6 + Multi + i]
    BY ONLY <1>7, <1>12, <1>20
  <2> QED
    BY <1>11, <2>1, <2>2
<1>21. s7[8 + Multi + Wires(r)] = last[1] /\ s7[9 + Multi + Wires(r)] = last[2]
  <2>1. s7[8 + Multi + Wires(r)] = s5[7 + Multi + Wires(r)] /\ s7[9 + Multi + Wires(r)] = s5[8 + Multi + Wires(r)]
    BY ONLY <1>7, <1>16
  <2> QED
    BY <1>12, <2>1
<1>22. /\ s7[2] = E("field", 56) /\ s7[3] = E("confirm", 0)
       /\ s7[4] = E("zone", r.zone) /\ s7[5] = E("summary", 0)
       /\ s7[6] = E("type", r.type)
  BY ONLY <1>2, <1>17
<1> HIDE DEF s7
<1> QED
  BY <1>3, <1>4, <1>5, <1>8, <1>14, <1>15, <1>18, <1>19, <1>20, <1>21, <1>22

LEMMA TimingBuilt ==
  ASSUME NEW r \in Requests, r.op = "timing"
  PROVE  /\ Built(r) \in Seq(Entries) /\ Len(Built(r)) = 4
         /\ Built(r)[1] = E("normal", 800) /\ Built(r)[2] = E("field", r.field)
         /\ Built(r)[3] = E("value", r.value) /\ Built(r)[4] = E("field", 99)
<1>1. /\ E("normal", 800) \in Entries /\ E("field", r.field) \in Entries
      /\ E("value", r.value) \in Entries /\ E("field", 99) \in Entries
  <2>1. r.field \in Int /\ r.value \in Int
    BY TimingFields
  <2>2. "normal" \in Prompts /\ "field" \in Prompts /\ "value" \in Prompts
    BY DEF Prompts, Settings
  <2> QED
    BY <2>1, <2>2, EntryIs
<1> DEFINE open == <<E("normal", 800)>>
           own == <<E("field", r.field), E("value", r.value)>>
           close == <<E("field", 99)>>
<1>2. /\ open \in Seq(Entries) /\ Len(open) = 1 /\ open[1] = E("normal", 800)
      /\ own \in Seq(Entries) /\ Len(own) = 2
      /\ own[1] = E("field", r.field) /\ own[2] = E("value", r.value)
      /\ close \in Seq(Entries) /\ Len(close) = 1 /\ close[1] = E("field", 99)
  BY <1>1
<1>3. Built(r) = (open \o own) \o close
  BY DEF Built, Wrapped, TimingKeys
<1> HIDE DEF open, own, close
<1>4. /\ Built(r) \in Seq(Entries) /\ Len(Built(r)) = Len(own) + 2
      /\ Built(r)[1] = open[1] /\ Built(r)[Len(own) + 2] = close[1]
      /\ \A i \in 1..Len(own) : Built(r)[i + 1] = own[i]
  <2>1. /\ open \in Seq(Entries) /\ own \in Seq(Entries)
        /\ close \in Seq(Entries) /\ Len(open) = 1 /\ Len(close) = 1
    BY ONLY <1>2
  <2> QED
    BY ONLY <1>3, <2>1, Framed
<1> QED
  BY ONLY <1>2, <1>4

LEMMA KeyBuilt ==
  ASSUME NEW r \in Requests, r.op = "key"
  PROVE  /\ Built(r) \in Seq(Entries) /\ Len(Built(r)) = 7
         /\ Built(r)[1] = E("normal", 800) /\ Built(r)[2] = E("field", 57)
         /\ Built(r)[3] = E("key", r.letter)
         /\ Built(r)[4] = E("key_partition", r.partition)
         /\ Built(r)[5] = E("key_function", r.action)
         /\ Built(r)[6] = E("key", 0) /\ Built(r)[7] = E("field", 99)
<1>1. /\ E("normal", 800) \in Entries /\ E("field", 57) \in Entries
      /\ E("key", r.letter) \in Entries /\ E("key", 0) \in Entries
      /\ E("key_partition", r.partition) \in Entries
      /\ E("key_function", r.action) \in Entries /\ E("field", 99) \in Entries
  <2>1. r.letter \in Int /\ r.partition \in Int /\ r.action \in Int
    BY KeyFields
  <2>2. /\ "normal" \in Prompts /\ "field" \in Prompts /\ "key" \in Prompts
        /\ "key_partition" \in Prompts /\ "key_function" \in Prompts
    BY DEF Prompts, Settings
  <2> QED
    BY <2>1, <2>2, EntryIs
<1> DEFINE open == <<E("normal", 800)>>
           own == <<E("field", 57), E("key", r.letter),
                    E("key_partition", r.partition),
                    E("key_function", r.action), E("key", 0)>>
           close == <<E("field", 99)>>
<1>2. /\ open \in Seq(Entries) /\ Len(open) = 1 /\ open[1] = E("normal", 800)
      /\ own \in Seq(Entries) /\ Len(own) = 5
      /\ own[1] = E("field", 57) /\ own[2] = E("key", r.letter)
      /\ own[3] = E("key_partition", r.partition)
      /\ own[4] = E("key_function", r.action) /\ own[5] = E("key", 0)
      /\ close \in Seq(Entries) /\ Len(close) = 1 /\ close[1] = E("field", 99)
  BY <1>1
<1>3. Built(r) = (open \o own) \o close
  BY DEF Built, Wrapped, FunctionKeyKeys
<1> HIDE DEF open, own, close
<1>4. /\ Built(r) \in Seq(Entries) /\ Len(Built(r)) = Len(own) + 2
      /\ Built(r)[1] = open[1] /\ Built(r)[Len(own) + 2] = close[1]
      /\ \A i \in 1..Len(own) : Built(r)[i + 1] = own[i]
  <2>1. /\ open \in Seq(Entries) /\ own \in Seq(Entries)
        /\ close \in Seq(Entries) /\ Len(open) = 1 /\ Len(close) = 1
    BY ONLY <1>2
  <2> QED
    BY ONLY <1>3, <2>1, Framed
<1> QED
  BY ONLY <1>2, <1>4

-----------------------------------------------------------------------------
(* How a zone is classified.                                               *)

DoublingIsVistas == model # "21iP" => stated = "not_stated" /\ doubled = {}

OptionIsTrue(r) ==
    model = "21iP" /\ r.op = "zone" /\ r.zone \in DoublingAffectedZones =>
        stated = Truth

LEMMA KindIs ==
  ASSUME NEW r \in Requests, r.op = "zone", SomeModel
  PROVE  /\ KindOf(r) \in {"refused", "doubled", "board", "aux_wired"}
         /\ KindOf(r) = "doubled" => Doubled(r)
         /\ KindOf(r) = "board" =>
              /\ r.zone \in Layout[model].board
              /\ r.zone \in Layout[model].hardwirePrompt => WiringKnown(r)
         /\ KindOf(r) = "aux_wired" =>
              /\ r.zone \in Layout[model].expansion /\ ~Doubled(r)
              /\ ~DoublingUnclear(r)
BY DEF KindOf

\* The panel asks next what the sequence has next, if the option is true to
\* the panel.
LEMMA ReportLeadsOn ==
  ASSUME NEW r \in Requests, r.op = "zone", SomeModel,
         KindOf(r) # "refused",
         DoublingIsVistas, OptionIsTrue(r)
  PROVE  /\ KindOf(r) = "doubled" => AfterReport(r.zone) = "alpha"
         /\ KindOf(r) = "aux_wired" => AfterReport(r.zone) = "input"
         /\ KindOf(r) = "board" =>
              AfterReport(r.zone) = IF r.zone \in Layout[model].hardwirePrompt
                                      THEN "hardwire" ELSE "response"
<1> USE DEF SomeModel, DoublingIsVistas, OptionIsTrue
<1>1. CASE KindOf(r) = "doubled"
  BY <1>1, KindIs, LayoutOf
  DEF Doubled, AfterReport, AsksWiring, Board, Truth, DoubledZones,
      DoublingAffectedZones
<1>2. CASE KindOf(r) = "aux_wired"
  BY <1>2, KindIs, LayoutOf
  DEF Doubled, DoublingUnclear, AfterReport, AsksWiring, Board, Truth,
      DoubledZones, DoublingAffectedZones
<1>3. CASE KindOf(r) = "board"
  BY <1>3, KindIs, LayoutOf DEF AfterReport, AsksWiring, Board
<1> QED
  BY <1>1, <1>2, <1>3

-----------------------------------------------------------------------------
(* One entry of a sequence, typed at its own prompt.                       *)

Follows(b, k) == IF k = Len(b) THEN "normal" ELSE b[k + 1].for

\* What a request is about, and the entry that tells the panel so.
SubjectOf(r) == CASE r.op = "zone" -> r.zone
                  [] r.op = "timing" -> r.field
                  [] r.op = "key" -> r.letter
Opens(r) == CASE r.op = "zone" -> 4 [] r.op = "timing" -> 2 [] r.op = "key" -> 3

EntryTaken(r, b, k) ==
    /\ NextPrompt(b[k].is) = Follows(b, k)
    /\ k = Opens(r) => Names(b[k].is) /\ b[k].is = SubjectOf(r)
    /\ k > Opens(r) => ~Names(b[k].is)
    /\ prompt \in Settings => k > Opens(r)

LEMMA ZoneEntryTaken ==
  ASSUME NEW r \in Requests, r.op = "zone", SomeModel, KindOf(r) # "refused",
         NEW b, b = Built(r), NEW k \in 1..Len(b), prompt = b[k].for,
         k > Opens(r) => subject = r.zone,
         DoublingIsVistas, OptionIsTrue(r)
  PROVE  EntryTaken(r, b, k)
<1>1. /\ b \in Seq(Entries) /\ Len(b) = 10 + Multi + Wires(r)
      /\ b[1] = E("normal", 800) /\ b[2] = E("field", 56)
      /\ b[3] = E("confirm", 0) /\ b[4] = E("zone", r.zone)
      /\ b[5] = E("summary", 0) /\ b[6] = E("type", r.type)
      /\ Multi = 1 => b[7] = E("partition", r.partition)
      /\ b[7 + Multi] = E("report", r.report)
      /\ \A i \in 1..Wires(r) : b[7 + Multi + i] = Wiring(r)[i]
      /\ b[8 + Multi + Wires(r)] = E("alpha", 0) /\ b[9 + Multi + Wires(r)] = E("zone", 0)
      /\ b[10 + Multi + Wires(r)] = E("field", 99)
  <2>1. LET s == Built(r)
        IN  /\ s \in Seq(Entries) /\ Len(s) = 10 + Multi + Wires(r)
            /\ s[1] = E("normal", 800) /\ s[2] = E("field", 56)
            /\ s[3] = E("confirm", 0) /\ s[4] = E("zone", r.zone)
            /\ s[5] = E("summary", 0) /\ s[6] = E("type", r.type)
            /\ Multi = 1 => s[7] = E("partition", r.partition)
            /\ s[7 + Multi] = E("report", r.report)
            /\ \A i \in 1..Wires(r) : s[7 + Multi + i] = Wiring(r)[i]
            /\ s[8 + Multi + Wires(r)] = E("alpha", 0)
            /\ s[9 + Multi + Wires(r)] = E("zone", 0)
            /\ s[10 + Multi + Wires(r)] = E("field", 99)
    BY ONLY ZoneBuilt, r \in Requests, r.op = "zone", SomeModel
  <2> QED
    BY ONLY <2>1, b = Built(r)
<1>2. /\ Multi \in {0, 1} /\ Wires(r) \in {0, 1, 2} /\ (Multi = 1 <=> AsksPartition)
      /\ Wires(r) = 2 =>
           /\ KindOf(r) = "board"
           /\ r.zone \in Layout[model].hardwirePrompt
           /\ Wiring(r)[1] = E("hardwire", r.hardwire)
           /\ Wiring(r)[2] = E("response", r.response)
      /\ Wires(r) = 1 =>
           \/ /\ KindOf(r) = "board"
              /\ r.zone \notin Layout[model].hardwirePrompt
              /\ Wiring(r)[1] = E("response", r.response)
           \/ /\ KindOf(r) = "aux_wired"
              /\ Wiring(r)[1] = E("input", 2)
      /\ Wires(r) = 0 => KindOf(r) = "doubled"
  <2>1. Multi \in {0, 1} /\ (Multi = 1 <=> AsksPartition)
    BY DEF AsksPartition, Multi
  <2>2. KindOf(r) \in {"doubled", "board", "aux_wired"}
    BY KindIs
  <2>3. /\ KindOf(r) = "board" /\ r.zone \in Layout[model].hardwirePrompt =>
             /\ Wires(r) = 2 /\ Wiring(r)[1] = E("hardwire", r.hardwire)
             /\ Wiring(r)[2] = E("response", r.response)
        /\ KindOf(r) = "board" /\ r.zone \notin Layout[model].hardwirePrompt =>
             Wires(r) = 1 /\ Wiring(r)[1] = E("response", r.response)
        /\ KindOf(r) = "aux_wired" => Wires(r) = 1 /\ Wiring(r)[1] = E("input", 2)
        /\ KindOf(r) \notin {"board", "aux_wired"} => Wires(r) = 0
    BY WiringIs DEF Wires
  <2>4. CASE KindOf(r) = "board" /\ r.zone \in Layout[model].hardwirePrompt
    <3>1. Wires(r) = 2 /\ Wiring(r)[1] = E("hardwire", r.hardwire)
                      /\ Wiring(r)[2] = E("response", r.response)
      BY ONLY <2>3, <2>4
    <3> QED
      BY ONLY <2>1, <2>4, <3>1
  <2>5. CASE KindOf(r) = "board" /\ r.zone \notin Layout[model].hardwirePrompt
    <3>1. Wires(r) = 1 /\ Wiring(r)[1] = E("response", r.response)
      BY ONLY <2>3, <2>5
    <3> QED
      BY ONLY <2>1, <2>5, <3>1
  <2>6. CASE KindOf(r) = "aux_wired"
    <3>1. Wires(r) = 1 /\ Wiring(r)[1] = E("input", 2)
      BY ONLY <2>3, <2>6
    <3> QED
      BY ONLY <2>1, <2>6, <3>1
  <2>7. CASE KindOf(r) = "doubled"
    <3>1. Wires(r) = 0
      BY ONLY <2>3, <2>7
    <3> QED
      BY ONLY <2>1, <2>7, <3>1
  <2> QED
    BY ONLY <2>2, <2>4, <2>5, <2>6, <2>7
<1>3. r.zone \in 1..64 /\ r.zone # 0
  BY ZoneFields
<1>4. /\ KindOf(r) = "doubled" => AfterReport(r.zone) = "alpha"
      /\ KindOf(r) = "aux_wired" => AfterReport(r.zone) = "input"
      /\ KindOf(r) = "board" =>
           AfterReport(r.zone) =
              IF r.zone \in Layout[model].hardwirePrompt
                THEN "hardwire" ELSE "response"
  BY ReportLeadsOn
<1>5. /\ k \in 1..(10 + Multi + Wires(r)) /\ prompt = b[k].for
      /\ k >= 5 => subject = r.zone
      /\ Opens(r) = 4
  <2>1. Opens(r) = 4
    BY ONLY r.op = "zone" DEF Opens
  <2>2. k >= 5 => k > 4
    BY ONLY <1>1, <1>2, k \in 1..Len(b)
  <2> QED
    BY <1>1, <2>1, <2>2
<1>6. CASE k = 1
  <2>1. prompt = "normal" /\ b[k].is = 800 /\ Follows(b, k) = "field"
    BY ONLY <1>1, <1>2, <1>5, <1>6 DEF Follows, E
  <2> QED
    <3>1. NextPrompt(800) = "field"
      BY ONLY <2>1 DEF NextPrompt
    <3>2. k # Opens(r) /\ ~(k > Opens(r)) /\ prompt \notin Settings
      BY ONLY <1>2, <1>5, <1>6, <2>1 DEF Settings
    <3> QED
      BY ONLY <2>1, <3>1, <3>2 DEF EntryTaken
<1>7. CASE k = 2
  <2>1. prompt = "field" /\ b[k].is = 56 /\ Follows(b, k) = "confirm"
    BY ONLY <1>1, <1>2, <1>5, <1>7 DEF Follows, E
  <2> QED
    <3>1. NextPrompt(56) = "confirm"
      BY ONLY <2>1 DEF NextPrompt
    <3>2. k # Opens(r) /\ ~(k > Opens(r)) /\ prompt \notin Settings
      BY ONLY <1>2, <1>5, <1>7, <2>1 DEF Settings
    <3> QED
      BY ONLY <2>1, <3>1, <3>2 DEF EntryTaken
<1>8. CASE k = 3
  <2>1. prompt = "confirm" /\ b[k].is = 0 /\ Follows(b, k) = "zone"
    BY ONLY <1>1, <1>2, <1>5, <1>8 DEF Follows, E
  <2> QED
    <3>1. NextPrompt(0) = "zone"
      BY ONLY <2>1 DEF NextPrompt
    <3>2. k # Opens(r) /\ ~(k > Opens(r)) /\ prompt \notin Settings
      BY ONLY <1>2, <1>5, <1>8, <2>1 DEF Settings
    <3> QED
      BY ONLY <2>1, <3>1, <3>2 DEF EntryTaken
<1>9. CASE k = 4
  <2>1. prompt = "zone" /\ b[k].is = r.zone /\ Follows(b, k) = "summary"
    <3>1. k # Len(b) /\ k + 1 = 5
      BY ONLY <1>1, <1>2, <1>9
    <3> QED
      BY ONLY <1>1, <1>5, <1>9, <3>1 DEF Follows, E
  <2>2. r.zone # 0
    BY ONLY <1>3
  <2>3. NextPrompt(r.zone) = "summary" /\ Names(r.zone)
    BY ONLY <2>1, <2>2 DEF NextPrompt, Names
  <2>4. /\ SubjectOf(r) = r.zone /\ k = Opens(r) /\ ~(k > Opens(r))
        /\ prompt \notin Settings
    BY ONLY <1>5, <1>9, <2>1, r.op = "zone" DEF SubjectOf, Settings
  <2> QED
    BY ONLY <1>9, <2>1, <2>3, <2>4 DEF EntryTaken
<1>10. CASE k = 5
  <2>1. prompt = "summary" /\ b[k].is = 0 /\ Follows(b, k) = "type"
    BY ONLY <1>1, <1>2, <1>5, <1>10 DEF Follows, E
  <2> QED
    <3>1. NextPrompt(0) = "type" /\ ~Names(0)
      BY ONLY <2>1 DEF NextPrompt, Names
    <3>2. k > Opens(r) /\ k # Opens(r) /\ ~Names(b[k].is)
      BY ONLY <1>2, <1>10, <2>1, <1>5 DEF Names
    <3> QED
      BY ONLY <2>1, <3>1, <3>2 DEF EntryTaken
<1>11. CASE k = 6
  <2>1. prompt = "type" /\ b[k].is = r.type /\ Follows(b, k) = IF Multi = 1 THEN "partition" ELSE "report"
    BY ONLY <1>1, <1>2, <1>5, <1>11 DEF Follows, E
  <2> QED
    <3>1. NextPrompt(r.type) = (IF AsksPartition THEN "partition" ELSE "report")
      BY ONLY <2>1 DEF NextPrompt
    <3>2. k > Opens(r) /\ k # Opens(r) /\ ~Names(b[k].is)
      BY ONLY <1>2, <1>5, <1>11, <2>1 DEF Names
    <3> QED
      BY ONLY <1>2, <2>1, <3>1, <3>2 DEF EntryTaken
<1>12. CASE k = 7 /\ Multi = 1
  <2>1. prompt = "partition" /\ b[k].is = r.partition /\ Follows(b, k) = "report"
    BY ONLY <1>1, <1>2, <1>5, <1>12 DEF Follows, E
  <2> QED
    <3>1. NextPrompt(r.partition) = "report"
      BY ONLY <2>1 DEF NextPrompt
    <3>2. k > Opens(r) /\ k # Opens(r) /\ ~Names(b[k].is)
      BY ONLY <1>2, <1>5, <1>12, <2>1 DEF Names
    <3> QED
      BY ONLY <2>1, <3>1, <3>2 DEF EntryTaken
<1>13. CASE k = 7 + Multi
  <2>1. prompt = "report" /\ b[k].is = r.report /\ Follows(b, k) = b[8 + Multi].for
    BY ONLY <1>1, <1>2, <1>5, <1>13 DEF Follows, E
  <2>2. /\ Wires(r) = 2 => b[8 + Multi].for = "hardwire"
        /\ Wires(r) = 1 => b[8 + Multi] = Wiring(r)[1]
        /\ Wires(r) = 0 => b[8 + Multi].for = "alpha"
    <3>1. Wires(r) = 1 => b[7 + Multi + 1] = Wiring(r)[1] /\ 7 + Multi + 1 = 8 + Multi
      BY ONLY <1>1, <1>2
    <3>2. Wires(r) = 2 => b[7 + Multi + 1] = Wiring(r)[1] /\ 7 + Multi + 1 = 8 + Multi
      BY ONLY <1>1, <1>2
    <3>3. Wires(r) = 0 => 8 + Multi + Wires(r) = 8 + Multi
      BY ONLY <1>2
    <3> QED
      BY ONLY <1>1, <1>2, <3>1, <3>2, <3>3 DEF E
  <2>3. Follows(b, k) = AfterReport(r.zone)
    BY ONLY <1>2, <1>4, <1>13, <2>1, <2>2 DEF E
  <2> QED
    <3>1. NextPrompt(r.report) = AfterReport(subject)
      BY ONLY <2>1 DEF NextPrompt
    <3>2. k > Opens(r) /\ k # Opens(r) /\ ~Names(b[k].is) /\ subject = r.zone
      BY ONLY <1>2, <1>5, <1>13, <2>1 DEF Names
    <3> QED
      BY ONLY <2>3, <2>1, <3>1, <3>2 DEF EntryTaken
<1>14. CASE Wires(r) = 2 /\ k = 8 + Multi
  <2>1. prompt = "hardwire" /\ b[k].is = r.hardwire /\ Follows(b, k) = "response"
    BY ONLY <1>1, <1>2, <1>5, <1>14 DEF Follows, E
  <2> QED
    <3>1. NextPrompt(r.hardwire) = "response"
      BY ONLY <2>1 DEF NextPrompt
    <3>2. k > Opens(r) /\ k # Opens(r) /\ ~Names(b[k].is)
      BY ONLY <1>2, <1>14, <2>1, <1>5 DEF Names
    <3> QED
      BY ONLY <1>2, <1>14, <2>1, <3>1, <3>2 DEF EntryTaken
<1>15. CASE Wires(r) > 0 /\ k = 7 + Multi + Wires(r)
  <2>1. b[k] = Wiring(r)[Wires(r)] /\ Follows(b, k) = "alpha"
    <3>1. Wires(r) \in 1..Wires(r) /\ b[7 + Multi + Wires(r)] = Wiring(r)[Wires(r)]
      BY ONLY <1>1, <1>2, <1>15
    <3>2. k # Len(b) /\ k + 1 = 8 + Multi + Wires(r)
      BY ONLY <1>1, <1>2, <1>15
    <3> QED
      BY ONLY <1>1, <1>15, <3>1, <3>2 DEF Follows, E
  <2>2. \/ prompt = "response" /\ b[k].is = r.response
        \/ prompt = "input" /\ b[k].is = 2
    BY ONLY <1>2, <1>5, <1>15, <2>1 DEF E
  <2> QED
    <3>1. NextPrompt(b[k].is) = "alpha"
      <4>1. CASE prompt = "response" /\ b[k].is = r.response
        BY ONLY <4>1 DEF NextPrompt
      <4>2. CASE prompt = "input" /\ b[k].is = 2
        BY ONLY <4>2 DEF NextPrompt
      <4> QED
        BY ONLY <2>2, <4>1, <4>2
    <3>2. k > Opens(r) /\ k # Opens(r) /\ ~Names(b[k].is)
      BY ONLY <1>2, <1>15, <2>2, <1>5 DEF Names
    <3> QED
      BY ONLY <2>1, <3>1, <3>2 DEF EntryTaken
<1>16. CASE k = 8 + Multi + Wires(r)
  <2>1. prompt = "alpha" /\ b[k].is = 0 /\ Follows(b, k) = "zone"
    <3>1. b[k] = E("alpha", 0)
      BY ONLY <1>1, <1>16
    <3>2. k # Len(b) /\ k + 1 = 9 + Multi + Wires(r)
      BY ONLY <1>1, <1>2, <1>16
    <3>3. b[k + 1] = E("zone", 0)
      BY ONLY <1>1, <3>2
    <3> QED
      BY ONLY <1>5, <3>1, <3>2, <3>3 DEF Follows, E
  <2> QED
    <3>1. NextPrompt(0) = "zone" /\ ~Names(0)
      BY ONLY <2>1 DEF NextPrompt, Names
    <3>2. k > Opens(r) /\ k # Opens(r) /\ ~Names(b[k].is)
      BY ONLY <1>2, <1>16, <2>1, <1>5 DEF Names
    <3> QED
      BY ONLY <2>1, <3>1, <3>2 DEF EntryTaken
<1>17. CASE k = 9 + Multi + Wires(r)
  <2>1. prompt = "zone" /\ b[k].is = 0 /\ Follows(b, k) = "field"
    <3>1. b[k] = E("zone", 0)
      BY ONLY <1>1, <1>17
    <3>2. k # Len(b) /\ k + 1 = 10 + Multi + Wires(r)
      BY ONLY <1>1, <1>2, <1>17
    <3>3. b[k + 1] = E("field", 99)
      BY ONLY <1>1, <3>2
    <3> QED
      BY ONLY <1>5, <3>1, <3>2, <3>3 DEF Follows, E
  <2> QED
    <3>1. NextPrompt(0) = "field" /\ ~Names(0)
      BY ONLY <2>1 DEF NextPrompt, Names
    <3>2. k > Opens(r) /\ k # Opens(r) /\ ~Names(b[k].is)
      BY ONLY <1>2, <1>17, <2>1, <1>5 DEF Names
    <3> QED
      BY ONLY <2>1, <3>1, <3>2 DEF EntryTaken
<1>18. CASE k = 10 + Multi + Wires(r)
  <2>1. prompt = "field" /\ b[k].is = 99 /\ Follows(b, k) = "normal"
    BY ONLY <1>1, <1>2, <1>5, <1>18 DEF Follows, E
  <2> QED
    <3>1. NextPrompt(99) = "normal" /\ ~Names(99)
      BY ONLY <2>1 DEF NextPrompt, Names
    <3>2. k > Opens(r) /\ k # Opens(r) /\ ~Names(b[k].is)
      BY ONLY <1>2, <1>18, <2>1, <1>5 DEF Names
    <3> QED
      BY ONLY <2>1, <3>1, <3>2 DEF EntryTaken
<1> QED
  BY ONLY <1>2, <1>5, <1>6, <1>7, <1>8, <1>9, <1>10, <1>11, <1>12, <1>13,
          <1>14, <1>15, <1>16, <1>17, <1>18

LEMMA TimingEntryTaken ==
  ASSUME NEW r \in Requests, r.op = "timing",
         NEW b, b = Built(r), NEW k \in 1..Len(b), prompt = b[k].for
  PROVE  EntryTaken(r, b, k)
<1>1. /\ b \in Seq(Entries) /\ Len(b) = 4
      /\ b[1] = E("normal", 800) /\ b[2] = E("field", r.field)
      /\ b[3] = E("value", r.value) /\ b[4] = E("field", 99)
  BY TimingBuilt
<1>2. k \in 1..4 /\ prompt = b[k].for
  BY <1>1
<1>3. r.field \in {34, 35, 84}
  BY TimingFields
<1> QED
  BY <1>1, <1>2, <1>3
  DEF EntryTaken, Follows, NextPrompt, Names, Settings, SubjectOf, Opens, E

LEMMA KeyEntryTaken ==
  ASSUME NEW r \in Requests, r.op = "key",
         NEW b, b = Built(r), NEW k \in 1..Len(b), prompt = b[k].for
  PROVE  EntryTaken(r, b, k)
<1>1. /\ b \in Seq(Entries) /\ Len(b) = 7
      /\ b[1] = E("normal", 800) /\ b[2] = E("field", 57)
      /\ b[3] = E("key", r.letter) /\ b[4] = E("key_partition", r.partition)
      /\ b[5] = E("key_function", r.action)
      /\ b[6] = E("key", 0) /\ b[7] = E("field", 99)
  BY KeyBuilt
<1>2. k \in 1..7 /\ prompt = b[k].for
  BY <1>1
<1>3. r.letter \in {1, 4}
  BY KeyFields
<1> QED
  BY <1>1, <1>2, <1>3
  DEF EntryTaken, Follows, NextPrompt, Names, Settings, SubjectOf, Opens, E

-----------------------------------------------------------------------------
(* The invariant: what is left to type is the end of what the request asks *)
(* for, the panel asks for its first entry, and what it has written is what *)
(* the entries before it told it.  Only for an operation that found the     *)
(* panel as its builder supposes; what types and wirings are possible holds *)
(* for the others as well.                                                  *)

Written(r, b, k) ==
    {<<SubjectOf(r), b[i].for, b[i].is>> :
        i \in {j \in 1..(k - 1) : b[j].for \in Settings}}

At(r, k) ==
    /\ keys = SubSeq(Built(r), k, Len(Built(r)))
    /\ prompt = Built(r)[k].for
    /\ k > Opens(r) => subject = SubjectOf(r)
    /\ stored = Written(r, Built(r), k)

Typing(r) ==
    /\ request = r /\ ~Refuses(r) /\ OptionIsTrue(r)
    /\ \E k \in 1..Len(Built(r)) : At(r, k)

WiresABoardZone == prompt = "hardwire" => subject \in AsksWiring

WasSent(r) == request = r /\ stored = Asked(r)

MInv ==
    /\ TypeOK
    /\ DoublingIsVistas
    /\ WiresABoardZone
    /\ keys # <<>> /\ ready => \E r \in Requests : Typing(r)
    /\ outcome = "sent" /\ ready => /\ prompt = "normal"
                                    /\ \E r \in Requests : WasSent(r)

LEMMA BuiltIs ==
  ASSUME NEW r \in Requests, SomeModel
  PROVE  /\ Built(r) \in Seq(Entries) /\ Len(Built(r)) \in Nat
         /\ 1 \in 1..Len(Built(r)) /\ Built(r)[1].for = "normal"
         /\ Built(r)[Len(Built(r))].for = "field" /\ Len(Built(r)) > Opens(r)
<1>1. CASE r.op = "zone"
  <2>1. /\ Built(r) \in Seq(Entries) /\ Built(r)[1] = E("normal", 800)
        /\ Len(Built(r)) = 10 + Multi + Wires(r)
        /\ Built(r)[10 + Multi + Wires(r)] = E("field", 99)
    BY <1>1, ZoneBuilt
  <2>3. Opens(r) = 4
    BY <1>1 DEF Opens
  <2>2. Multi \in Nat /\ Wires(r) \in Nat
    BY <1>1, WiringIs DEF Multi, Wires
  <2> QED
    BY ONLY <2>1, <2>2, <2>3 DEF E
<1>2. CASE r.op = "timing"
  <2>1. /\ Built(r) \in Seq(Entries) /\ Built(r)[1] = E("normal", 800)
        /\ Len(Built(r)) = 4 /\ Built(r)[4] = E("field", 99)
    BY <1>2, TimingBuilt
  <2>2. Opens(r) = 2
    BY <1>2 DEF Opens
  <2> QED
    BY ONLY <2>1, <2>2 DEF E
<1>3. CASE r.op = "key"
  <2>1. /\ Built(r) \in Seq(Entries) /\ Built(r)[1] = E("normal", 800)
        /\ Len(Built(r)) = 7 /\ Built(r)[7] = E("field", 99)
    BY <1>3, KeyBuilt
  <2>2. Opens(r) = 3
    BY <1>3 DEF Opens
  <2> QED
    BY ONLY <2>1, <2>2 DEF E
<1> QED
  BY <1>1, <1>2, <1>3, RequestKinds

LEMMA EntryIsTaken ==
  ASSUME NEW r \in Requests, SomeModel, DoublingIsVistas, ~Refuses(r),
         OptionIsTrue(r), NEW k \in 1..Len(Built(r)), At(r, k)
  PROVE  EntryTaken(r, Built(r), k)
<1>1. CASE r.op = "zone"
  <2>1. KindOf(r) # "refused"
    BY <1>1 DEF Refuses
  <2>2. prompt = Built(r)[k].for /\ (k > Opens(r) => subject = r.zone)
    BY <1>1 DEF At, SubjectOf
  <2> QED
    BY <1>1, <2>1, <2>2, ZoneEntryTaken
<1>2. CASE r.op = "timing"
  BY <1>2, TimingEntryTaken DEF At
<1>3. CASE r.op = "key"
  BY <1>3, KeyEntryTaken DEF At
<1> QED
  BY <1>1, <1>2, <1>3, RequestKinds

LEMMA FirstOfTheRest ==
  ASSUME NEW b \in Seq(Entries), NEW k \in 1..Len(b)
  PROVE  LET s == SubSeq(b, k, Len(b))
         IN  /\ s # <<>> /\ Head(s) = b[k]
             /\ Tail(s) = SubSeq(b, k + 1, Len(b))
             /\ k = Len(b) => Tail(s) = <<>>
<1>1. Len(b) \in Nat
  OBVIOUS
<1>2. Len(b) \in k..Len(b) /\ k \in Int /\ Len(b) \in Int
  BY <1>1
<1>3. /\ Head(SubSeq(b, k, Len(b))) = b[k]
      /\ Tail(SubSeq(b, k, Len(b))) = SubSeq(b, k + 1, Len(b))
  BY <1>2, HeadTailOfSubSeq
<1>4. SubSeq(b, k, Len(b)) # <<>>
  <2>1. \A i \in k..Len(b) : b[i] \in Entries
    BY <1>1
  <2>2. Len(SubSeq(b, k, Len(b))) = Len(b) - k + 1
    BY <1>2, <2>1, SubSeqProperties
  <2> DEFINE s == SubSeq(b, k, Len(b))
  <2>3. Len(s) = Len(b) - k + 1
    BY <2>2
  <2> HIDE DEF s
  <2>4. Len(s) # 0
    BY ONLY <1>2, <2>3
  <2>5. s # <<>>
    BY ONLY <2>4
  <2> QED
    BY <2>5 DEF s
<1>5. k = Len(b) => SubSeq(b, k + 1, Len(b)) = <<>>
  BY <1>2, SubSeqEmpty
<1> QED
  BY <1>3, <1>4, <1>5

LEMMA Unmoved ==
  ASSUME UNCHANGED menuVars, NEW r
  PROVE  /\ Built(r)' = Built(r) /\ (Refuses(r)' <=> Refuses(r))
         /\ SubjectOf(r)' = SubjectOf(r) /\ Opens(r)' = Opens(r)
         /\ \A k : Written(r, Built(r), k)' = Written(r, Built(r), k)
<1> USE DEF menuVars, KindOf, DoublingUnclear, Doubled, WiringKnown, Layout, Residential
<1>1. KindOf(r)' = KindOf(r)
  OBVIOUS
<1>2. ZoneKeys(r)' = ZoneKeys(r)
  BY DEF ZoneKeys, Wiring, When
<1>3. Built(r)' = Built(r)
  BY <1>2 DEF Built, Wrapped, TimingKeys, FunctionKeyKeys
<1>4. GuardPasses(r)' <=> GuardPasses(r)
  BY <1>3 DEF GuardPasses
<1>5. Refuses(r)' <=> Refuses(r)
  BY <1>1, <1>4 DEF Refuses, TimingIsValid
<1>6. SubjectOf(r)' = SubjectOf(r) /\ Opens(r)' = Opens(r)
  BY DEF SubjectOf, Opens
<1>7. \A k : Written(r, Built(r), k)' = Written(r, Built(r), k)
  BY <1>3, <1>6 DEF Written, Settings
<1> QED
  BY <1>3, <1>5, <1>6, <1>7

\* One more entry typed is one more setting written, if it is one.
LEMMA OneMoreWritten ==
  ASSUME NEW r, NEW b, NEW k \in Nat, k >= 1
  PROVE  Written(r, b, k + 1) =
           IF b[k].for \in Settings
             THEN Written(r, b, k) \cup {<<SubjectOf(r), b[k].for, b[k].is>>}
             ELSE Written(r, b, k)
<1>1. 1..(k + 1 - 1) = 1..(k - 1) \cup {k}
  OBVIOUS
<1> DEFINE before == {j \in 1..(k - 1) : b[j].for \in Settings}
           through == {j \in 1..(k + 1 - 1) : b[j].for \in Settings}
<1>2. through = IF b[k].for \in Settings THEN before \cup {k} ELSE before
  BY <1>1
<1> DEFINE W(i) == <<SubjectOf(r), b[i].for, b[i].is>>
<1>3. /\ Written(r, b, k + 1) = {W(i) : i \in through}
      /\ Written(r, b, k) = {W(i) : i \in before}
  BY DEF Written
<1> HIDE DEF before, through, W
<1>4. {W(i) : i \in before \cup {k}} = {W(i) : i \in before} \cup {W(k)}
  OBVIOUS
<1>5. Written(r, b, k + 1) =
        IF b[k].for \in Settings THEN Written(r, b, k) \cup {W(k)}
        ELSE Written(r, b, k)
  BY ONLY <1>2, <1>3, <1>4
<1> QED
  BY <1>5 DEF W

-----------------------------------------------------------------------------
(* A whole sequence writes what the panel's own menu asks for.             *)

\* The entries of a zone's sequence that are settings.
ZoneTells(r) ==
    {E("type", r.type), E("report", r.report)}
        \cup (IF Multi = 1 THEN {E("partition", r.partition)} ELSE {})
        \cup {Wiring(r)[i] : i \in 1..Wires(r)}

LEMMA ZoneWrites ==
  ASSUME NEW r \in Requests, r.op = "zone", SomeModel, KindOf(r) # "refused"
  PROVE  Written(r, Built(r), Len(Built(r)) + 1) =
           {<<r.zone, e.for, e.is>> : e \in ZoneTells(r)}
<1> DEFINE b == Built(r)
           told == {j \in 1..Len(b) : b[j].for \in Settings}
<1>1. /\ Len(b) = 10 + Multi + Wires(r)
      /\ b[1] = E("normal", 800) /\ b[2] = E("field", 56)
      /\ b[3] = E("confirm", 0) /\ b[4] = E("zone", r.zone)
      /\ b[5] = E("summary", 0) /\ b[6] = E("type", r.type)
      /\ Multi = 1 => b[7] = E("partition", r.partition)
      /\ b[7 + Multi] = E("report", r.report)
      /\ \A i \in 1..Wires(r) : b[7 + Multi + i] = Wiring(r)[i]
      /\ b[8 + Multi + Wires(r)] = E("alpha", 0)
      /\ b[9 + Multi + Wires(r)] = E("zone", 0)
      /\ b[10 + Multi + Wires(r)] = E("field", 99)
  BY ZoneBuilt
<1>2. /\ Multi \in {0, 1} /\ Wires(r) \in {0, 1, 2}
      /\ \A i \in 1..Wires(r) :
            Wiring(r)[i] \in {E("hardwire", r.hardwire),
                              E("response", r.response), E("input", 2)}
  BY WiringIs DEF Multi, Wires
<1>3. Len(b) + 1 - 1 = Len(b)
  BY ONLY <1>1, <1>2
<1>4. Written(r, b, Len(b) + 1) = {<<r.zone, b[i].for, b[i].is>> : i \in told}
  BY <1>3 DEF Written, SubjectOf
<1> HIDE DEF b
<1>5. ASSUME NEW i \in told PROVE b[i] \in ZoneTells(r)
  <2>0. i \in 1..(10 + Multi + Wires(r)) /\ b[i].for \in Settings
    BY <1>1
  <2>1. i # 1 /\ i # 2 /\ i # 3 /\ i # 4 /\ i # 5
    BY ONLY <1>1, <2>0 DEF E, Settings
  <2>2. /\ i # 8 + Multi + Wires(r) /\ i # 9 + Multi + Wires(r)
        /\ i # 10 + Multi + Wires(r)
    BY ONLY <1>1, <2>0 DEF E, Settings
  <2>3. \/ i = 6 \/ (i = 7 /\ Multi = 1) \/ i = 7 + Multi
        \/ i - 7 - Multi \in 1..Wires(r) /\ i = 7 + Multi + (i - 7 - Multi)
    BY ONLY <1>2, <2>0, <2>1, <2>2
  <2>4. CASE i - 7 - Multi \in 1..Wires(r) /\ i = 7 + Multi + (i - 7 - Multi)
    <3>1. b[i] = Wiring(r)[i - 7 - Multi]
      BY ONLY <1>1, <2>4
    <3> QED
      BY <2>4, <3>1 DEF ZoneTells
  <2>5. CASE i = 6 \/ (i = 7 /\ Multi = 1) \/ i = 7 + Multi
    BY ONLY <1>1, <2>5 DEF ZoneTells
  <2> QED
    BY ONLY <2>3, <2>4, <2>5
<1>6. ASSUME NEW e \in ZoneTells(r) PROVE \E i \in told : b[i] = e
  <2>1. CASE e = E("type", r.type)
    <3>1. 6 \in 1..Len(b) /\ b[6] = e /\ b[6].for \in Settings
      BY ONLY <1>1, <1>2, <2>1 DEF E, Settings
    <3> QED
      BY <3>1
  <2>2. CASE e = E("report", r.report)
    <3>1. /\ 7 + Multi \in 1..Len(b) /\ b[7 + Multi] = e
          /\ b[7 + Multi].for \in Settings
      BY ONLY <1>1, <1>2, <2>2 DEF E, Settings
    <3> QED
      BY <3>1
  <2>3. CASE Multi = 1 /\ e = E("partition", r.partition)
    <3>1. 7 \in 1..Len(b) /\ b[7] = e /\ b[7].for \in Settings
      BY ONLY <1>1, <1>2, <2>3 DEF E, Settings
    <3> QED
      BY <3>1
  <2>4. CASE \E i \in 1..Wires(r) : e = Wiring(r)[i]
    <3>1. PICK i \in 1..Wires(r) : e = Wiring(r)[i]
      BY <2>4
    <3>2. 7 + Multi + i \in 1..Len(b) /\ b[7 + Multi + i] = e
      BY ONLY <1>1, <1>2, <3>1
    <3>3. e.for \in Settings
      BY ONLY <1>2, <3>1 DEF E, Settings
    <3> QED
      BY <3>2, <3>3
  <2> QED
    BY <2>1, <2>2, <2>3, <2>4 DEF ZoneTells
<1> HIDE DEF told
<1>7. {<<r.zone, b[i].for, b[i].is>> : i \in told}
        = {<<r.zone, e.for, e.is>> : e \in ZoneTells(r)}
  BY ONLY <1>5, <1>6
<1> QED
  BY <1>4, <1>7 DEF b

\* ... and those are the settings the panel has for the zone.
LEMMA ZoneIsAsked ==
  ASSUME NEW r \in Requests, r.op = "zone", SomeModel, KindOf(r) # "refused",
         DoublingIsVistas, OptionIsTrue(r)
  PROVE  {<<r.zone, e.for, e.is>> : e \in ZoneTells(r)} = Asked(r)
<1>1. /\ KindOf(r) \in {"doubled", "board", "aux_wired"}
      /\ KindOf(r) = "doubled" => AfterReport(r.zone) = "alpha"
      /\ KindOf(r) = "aux_wired" => AfterReport(r.zone) = "input"
      /\ KindOf(r) = "board" =>
           AfterReport(r.zone) = IF r.zone \in Layout[model].hardwirePrompt
                                   THEN "hardwire" ELSE "response"
  BY KindIs, ReportLeadsOn
<1>2. /\ AfterReport(r.zone) = "hardwire" <=> r.zone \in AsksWiring
      /\ AfterReport(r.zone) \in {"hardwire", "response"} <=> r.zone \in Board
      /\ Multi = 1 <=> AsksPartition
  BY DEF AfterReport, AsksWiring, Board, AsksPartition, Multi
<1>3. /\ KindOf(r) = "board" /\ r.zone \in Layout[model].hardwirePrompt =>
           /\ Wires(r) = 2 /\ Wiring(r)[1] = E("hardwire", r.hardwire)
           /\ Wiring(r)[2] = E("response", r.response)
      /\ KindOf(r) = "board" /\ r.zone \notin Layout[model].hardwirePrompt =>
           Wires(r) = 1 /\ Wiring(r)[1] = E("response", r.response)
      /\ KindOf(r) = "aux_wired" => Wires(r) = 1 /\ Wiring(r)[1] = E("input", 2)
      /\ KindOf(r) = "doubled" => Wires(r) = 0
  BY WiringIs DEF Wires
<1> DEFINE a == AskedZone(r)
           T(p, v) == <<r.zone, p, v>>
           wires == {Wiring(r)[i] : i \in 1..Wires(r)}
           W == {T(e.for, e.is) : e \in wires}
           P == IF Multi = 1 THEN {T("partition", r.partition)} ELSE {}
<1>4. /\ a["type"] = r.type /\ a["report"] = r.report
      /\ a["partition"] = r.partition /\ a["hardwire"] = r.hardwire
      /\ a["response"] = r.response /\ a["input"] = 2
  BY DEF AskedZone
<1>5. Asked(r) = {T(p, a[p]) : p \in ZoneSettings(r.zone)}
  BY DEF Asked
<1>6. {T(e.for, e.is) : e \in ZoneTells(r)} =
        {T("type", r.type), T("report", r.report)} \cup P \cup W
  <2> DEFINE F(e) == T(e.for, e.is)
             tell == {E("type", r.type), E("report", r.report)}
             part == E("partition", r.partition)
  <2>1. /\ {F(e) : e \in tell} = {T("type", r.type), T("report", r.report)}
        /\ F(part) = T("partition", r.partition)
        /\ W = {F(e) : e \in wires}
        /\ Multi = 1 => P = {T("partition", r.partition)}
        /\ Multi # 1 => P = {}
    <3> HIDE DEF wires, T
    <3> QED
      BY DEF E
  <2>2. ZoneTells(r) = IF Multi = 1 THEN tell \cup {part} \cup wires
                                    ELSE tell \cup wires
    BY DEF ZoneTells
  <2>3. {T(e.for, e.is) : e \in ZoneTells(r)} = {F(e) : e \in ZoneTells(r)}
    OBVIOUS
  <2> HIDE DEF F, tell, part, wires, P, W, T
  <2>4. {F(e) : e \in tell \cup {part} \cup wires} =
          {F(e) : e \in tell} \cup {F(part)} \cup {F(e) : e \in wires}
    OBVIOUS
  <2>5. {F(e) : e \in tell \cup wires} =
          {F(e) : e \in tell} \cup {F(e) : e \in wires}
    OBVIOUS
  <2>6. CASE Multi = 1
    BY ONLY <2>1, <2>2, <2>3, <2>4, <2>6
  <2>7. CASE Multi # 1
    BY ONLY <2>1, <2>2, <2>3, <2>5, <2>7
  <2> QED
    BY <2>6, <2>7
<1>a. /\ T("type", a["type"]) = T("type", r.type)
      /\ T("report", a["report"]) = T("report", r.report)
      /\ T("partition", a["partition"]) = T("partition", r.partition)
      /\ T("hardwire", a["hardwire"]) = T("hardwire", r.hardwire)
      /\ T("response", a["response"]) = T("response", r.response)
      /\ T("input", a["input"]) = T("input", 2)
  BY <1>4
<1> HIDE DEF a
<1>7. CASE KindOf(r) = "board" /\ r.zone \in Layout[model].hardwirePrompt
  <2>1. wires = {E("hardwire", r.hardwire), E("response", r.response)}
    BY <1>3, <1>7
  <2>2. ZoneSettings(r.zone) =
          {"type", "report", "hardwire", "response"}
            \cup (IF Multi = 1 THEN {"partition"} ELSE {})
    BY <1>1, <1>2, <1>7 DEF ZoneSettings
  <2> HIDE DEF wires, T
  <2>3. W = {T("hardwire", r.hardwire), T("response", r.response)}
    BY ONLY <2>1 DEF E
  <2> HIDE DEF W
  <2>4. {T(p, a[p]) : p \in ZoneSettings(r.zone)} =
          {T("type", r.type), T("report", r.report)} \cup P \cup W
    <3>1. CASE Multi = 1
      BY <1>a, <2>2, <2>3, <3>1
    <3>2. CASE Multi # 1
      BY <1>a, <2>2, <2>3, <3>2
    <3> QED
      BY <3>1, <3>2
  <2> QED
    BY <1>5, <1>6, <2>4 DEF T
<1>8. CASE KindOf(r) = "board" /\ r.zone \notin Layout[model].hardwirePrompt
  <2>1. wires = {E("response", r.response)}
    BY <1>3, <1>8
  <2>2. ZoneSettings(r.zone) =
          {"type", "report", "response"}
            \cup (IF Multi = 1 THEN {"partition"} ELSE {})
    BY <1>1, <1>2, <1>8 DEF ZoneSettings
  <2> HIDE DEF wires, T
  <2>3. W = {T("response", r.response)}
    BY ONLY <2>1 DEF E
  <2> HIDE DEF W
  <2>4. {T(p, a[p]) : p \in ZoneSettings(r.zone)} =
          {T("type", r.type), T("report", r.report)} \cup P \cup W
    <3>1. CASE Multi = 1
      BY <1>a, <2>2, <2>3, <3>1
    <3>2. CASE Multi # 1
      BY <1>a, <2>2, <2>3, <3>2
    <3> QED
      BY <3>1, <3>2
  <2> QED
    BY <1>5, <1>6, <2>4 DEF T
<1>9. CASE KindOf(r) = "aux_wired"
  <2>1. wires = {E("input", 2)}
    BY <1>3, <1>9
  <2>2. ZoneSettings(r.zone) =
          {"type", "report", "input"}
            \cup (IF Multi = 1 THEN {"partition"} ELSE {})
    BY <1>1, <1>2, <1>9 DEF ZoneSettings
  <2> HIDE DEF wires, T
  <2>3. W = {T("input", 2)}
    BY ONLY <2>1 DEF E
  <2> HIDE DEF W
  <2>4. {T(p, a[p]) : p \in ZoneSettings(r.zone)} =
          {T("type", r.type), T("report", r.report)} \cup P \cup W
    <3>1. CASE Multi = 1
      BY <1>a, <2>2, <2>3, <3>1
    <3>2. CASE Multi # 1
      BY <1>a, <2>2, <2>3, <3>2
    <3> QED
      BY <3>1, <3>2
  <2> QED
    BY <1>5, <1>6, <2>4 DEF T
<1>10. CASE KindOf(r) = "doubled"
  <2>1. wires = {}
    BY <1>3, <1>10
  <2>2. ZoneSettings(r.zone) =
          {"type", "report"} \cup (IF Multi = 1 THEN {"partition"} ELSE {})
    BY <1>1, <1>2, <1>10 DEF ZoneSettings
  <2> HIDE DEF wires, T
  <2>3. W = {}
    BY ONLY <2>1 DEF E
  <2> HIDE DEF W
  <2>4. {T(p, a[p]) : p \in ZoneSettings(r.zone)} =
          {T("type", r.type), T("report", r.report)} \cup P \cup W
    <3>1. CASE Multi = 1
      BY <1>a, <2>2, <2>3, <3>1
    <3>2. CASE Multi # 1
      BY <1>a, <2>2, <2>3, <3>2
    <3> QED
      BY <3>1, <3>2
  <2> QED
    BY <1>5, <1>6, <2>4 DEF T
<1> QED
  BY <1>1, <1>7, <1>8, <1>9, <1>10

LEMMA AllIsAsked ==
  ASSUME NEW r \in Requests, SomeModel, DoublingIsVistas, OptionIsTrue(r),
         ~Refuses(r)
  PROVE  Written(r, Built(r), Len(Built(r)) + 1) = Asked(r)
<1>1. CASE r.op = "zone"
  <2>1. KindOf(r) # "refused"
    BY <1>1 DEF Refuses
  <2> QED
    BY <1>1, <2>1, ZoneWrites, ZoneIsAsked
<1>2. CASE r.op = "timing"
  <2> DEFINE b == Built(r)
  <2>1. /\ Len(b) = 4 /\ b[1] = E("normal", 800) /\ b[2] = E("field", r.field)
        /\ b[3] = E("value", r.value) /\ b[4] = E("field", 99)
    BY <1>2, TimingBuilt
  <2> HIDE DEF b
  <2>2. {j \in 1..(Len(b) + 1 - 1) : b[j].for \in Settings} = {3}
    BY ONLY <2>1 DEF E, Settings
  <2>3. Written(r, b, Len(b) + 1) = {<<r.field, "value", r.value>>}
    BY <1>2, <2>1, <2>2 DEF Written, SubjectOf, E
  <2> QED
    BY <1>2, <2>3 DEF Asked, b
<1>3. CASE r.op = "key"
  <2> DEFINE b == Built(r)
  <2>1. /\ Len(b) = 7 /\ b[1] = E("normal", 800) /\ b[2] = E("field", 57)
        /\ b[3] = E("key", r.letter) /\ b[4] = E("key_partition", r.partition)
        /\ b[5] = E("key_function", r.action)
        /\ b[6] = E("key", 0) /\ b[7] = E("field", 99)
    BY <1>3, KeyBuilt
  <2> HIDE DEF b
  <2>2. {j \in 1..(Len(b) + 1 - 1) : b[j].for \in Settings} = {4, 5}
    BY ONLY <2>1 DEF E, Settings
  <2>3. Written(r, b, Len(b) + 1) =
          {<<r.letter, "key_partition", r.partition>>,
           <<r.letter, "key_function", r.action>>}
    BY <1>3, <2>1, <2>2 DEF Written, SubjectOf, E
  <2> QED
    BY <1>3, <2>3 DEF Asked, b
<1> QED
  BY <1>1, <1>2, <1>3, RequestKinds

LEMMA ZoneNeverReturns ==
  ASSUME NEW r \in Requests, r.op = "zone", SomeModel,
         NEW i \in 2..Len(Built(r))
  PROVE  Built(r)[i].for # "normal"
<1> DEFINE b == Built(r)
<1>1. /\ Len(b) = 10 + Multi + Wires(r)
      /\ b[2] = E("field", 56)
      /\ b[3] = E("confirm", 0) /\ b[4] = E("zone", r.zone)
      /\ b[5] = E("summary", 0) /\ b[6] = E("type", r.type)
      /\ Multi = 1 => b[7] = E("partition", r.partition)
      /\ b[7 + Multi] = E("report", r.report)
      /\ \A j \in 1..Wires(r) : b[7 + Multi + j] = Wiring(r)[j]
      /\ b[8 + Multi + Wires(r)] = E("alpha", 0)
      /\ b[9 + Multi + Wires(r)] = E("zone", 0)
      /\ b[10 + Multi + Wires(r)] = E("field", 99)
  BY ZoneBuilt
<1>2. /\ Multi \in {0, 1} /\ Wires(r) \in {0, 1, 2}
      /\ \A j \in 1..Wires(r) :
            Wiring(r)[j] \in {E("hardwire", r.hardwire),
                              E("response", r.response), E("input", 2)}
  BY WiringIs DEF Multi, Wires
<1>3. i \in 2..Len(b)
  BY DEF b
<1> HIDE DEF b
<1>4. \/ i \in 2..6 \/ (i = 7 /\ Multi = 1) \/ i = 7 + Multi
      \/ i - 7 - Multi \in 1..Wires(r) /\ i = 7 + Multi + (i - 7 - Multi)
      \/ i \in {8 + Multi + Wires(r), 9 + Multi + Wires(r), 10 + Multi + Wires(r)}
  <2>1. PICK m \in {0, 1} : m = Multi
    BY <1>2
  <2>2. PICK w \in {0, 1, 2} : w = Wires(r)
    BY <1>2
  <2>3. i \in 2..(10 + m + w)
    BY ONLY <1>1, <1>3, <2>1, <2>2
  <2>4. \/ i \in 2..6 \/ (i = 7 /\ m = 1) \/ i = 7 + m
        \/ i - 7 - m \in 1..w /\ i = 7 + m + (i - 7 - m)
        \/ i \in {8 + m + w, 9 + m + w, 10 + m + w}
    <3>1. CASE m = 0
      BY ONLY <2>2, <2>3, <3>1
    <3>2. CASE m = 1
      BY ONLY <2>2, <2>3, <3>2
    <3> QED
      BY ONLY <2>1, <3>1, <3>2
  <2> QED
    BY ONLY <2>1, <2>2, <2>4
<1>5. CASE i - 7 - Multi \in 1..Wires(r) /\ i = 7 + Multi + (i - 7 - Multi)
  <2>1. b[i] = Wiring(r)[i - 7 - Multi]
    BY ONLY <1>1, <1>5
  <2> QED
    BY <1>2, <1>5, <2>1 DEF E, b
<1>6. CASE i \in 2..6 \/ (i = 7 /\ Multi = 1) \/ i = 7 + Multi
  BY ONLY <1>1, <1>6 DEF E, b
<1>7. CASE i \in {8 + Multi + Wires(r), 9 + Multi + Wires(r), 10 + Multi + Wires(r)}
  BY ONLY <1>1, <1>7 DEF E, b
<1> QED
  BY ONLY <1>4, <1>5, <1>6, <1>7

-----------------------------------------------------------------------------
(* The steps.                                                              *)

\* Whatever is typed, only a board zone of the 21iP is ever doubled.
LEMMA AnyEntryKeeps ==
  ASSUME TypeOK, DoublingIsVistas, WiresABoardZone, SomeModel, NEW is,
         PanelTakes(is), UNCHANGED menuVars
  PROVE  /\ doubled' \subseteq 2..8 /\ DoublingIsVistas' /\ WiresABoardZone'
         /\ prompt' \in Prompts
<1>1. doubled \subseteq 2..8 /\ prompt \in Prompts
  BY DEF TypeOK
<1>2. doubled' \subseteq 2..8
  <2>1. CASE prompt = "hardwire" /\ model = "21iP"
    <3>1. subject \in 2..8
      BY <2>1 DEF WiresABoardZone, AsksWiring, Board
    <3> QED
      BY <1>1, <2>1, <3>1 DEF PanelTakes
  <2>2. CASE ~(prompt = "hardwire" /\ model = "21iP")
    BY <1>1, <2>2 DEF PanelTakes
  <2> QED
    BY <2>1, <2>2
<1>3. DoublingIsVistas'
  BY DEF DoublingIsVistas, PanelTakes, menuVars
<1>4. WiresABoardZone'
  <2> SUFFICES ASSUME prompt' = "hardwire" PROVE subject' \in AsksWiring'
    BY DEF WiresABoardZone
  <2>1. NextPrompt(is) = "hardwire"
    BY DEF PanelTakes
  <2>2. prompt = "report" /\ AfterReport(subject) = "hardwire"
    BY <1>1, <2>1 DEF NextPrompt, Prompts, Settings
  <2>3. subject \in AsksWiring
    BY <2>2 DEF AfterReport
  <2>4. subject' = subject /\ AsksWiring' = AsksWiring
    BY <2>2 DEF PanelTakes, Names, AsksWiring, Board, menuVars
  <2> QED
    BY <2>3, <2>4
<1>5. prompt' \in Prompts
  <2>1. AfterReport(subject) \in Prompts
    BY DEF AfterReport, Prompts, Settings
  <2>2. NextPrompt(is) \in Prompts
    BY <1>1, <2>1 DEF NextPrompt, Prompts, Settings
  <2> QED
    BY <2>2 DEF PanelTakes
<1> QED
  BY <1>2, <1>3, <1>4, <1>5

\* While a sequence is typed.
LEMMA TypesEntryKeeps ==
  ASSUME MInv, TypesEntry
  PROVE  MInv'
<1>1. SomeModel /\ DoublingIsVistas /\ WiresABoardZone /\ TypeOK
  BY MenuAssumption DEF MInv, TypeOK, SomeModel
<1>2. /\ PanelTakes(Head(keys).is) /\ keys # <<>> /\ keys' = Tail(keys)
      /\ outcome' = IF keys' = <<>> THEN "sent" ELSE outcome
      /\ UNCHANGED <<menuVars, count, request, ready>>
  BY DEF TypesEntry
<1>3. /\ doubled' \subseteq 2..8 /\ DoublingIsVistas' /\ WiresABoardZone'
      /\ prompt' \in Prompts
  BY <1>1, <1>2, AnyEntryKeeps
<1>4. TypeOK'
  BY <1>1, <1>2, <1>3 DEF TypeOK, menuVars
<1>5. ASSUME ready'
      PROVE  /\ keys' # <<>> => \E r \in Requests : Typing(r)'
             /\ outcome' = "sent" => /\ prompt' = "normal"
                                     /\ \E r \in Requests : WasSent(r)'
  <2>1. ready /\ keys # <<>>
    BY <1>2, <1>5
  <2>2. PICK r \in Requests : Typing(r)
    BY <2>1 DEF MInv
  <2>3. PICK k \in 1..Len(Built(r)) : At(r, k)
    BY <2>2 DEF Typing
  <2> DEFINE b == Built(r)
  <2>4. /\ b \in Seq(Entries) /\ Len(b) \in Nat
        /\ b[Len(b)].for = "field" /\ Len(b) > Opens(r)
    BY <1>1, BuiltIs
  <2>5. EntryTaken(r, b, k)
    BY <1>1, <2>2, <2>3, EntryIsTaken DEF Typing
  <2>6. /\ b' = b /\ (Refuses(r)' <=> Refuses(r))
        /\ SubjectOf(r)' = SubjectOf(r) /\ Opens(r)' = Opens(r)
        /\ Written(r, b, k + 1)' = Written(r, b, k + 1)
    BY <1>2, Unmoved
  <2>7. /\ keys = SubSeq(b, k, Len(b)) /\ prompt = b[k].for
        /\ k > Opens(r) => subject = SubjectOf(r)
        /\ stored = Written(r, b, k)
    BY <2>3 DEF At
  <2>8. k \in 1..Len(b) /\ Opens(r) \in Nat
    BY RequestKinds DEF Opens
  <2>9. request = r /\ ~Refuses(r) /\ OptionIsTrue(r)
    BY <2>2 DEF Typing
  <2>10. Written(r, b, Len(b) + 1) = Asked(r)
    BY <1>1, <2>9, AllIsAsked
  <2> HIDE DEF b
  <2>11. /\ Head(keys) = b[k] /\ Tail(keys) = SubSeq(b, k + 1, Len(b))
         /\ k = Len(b) => Tail(keys) = <<>>
    BY <2>4, <2>7, <2>8, FirstOfTheRest
  <2>12. PanelTakes(b[k].is)
    BY <1>2, <2>11
  <2>13. prompt' = Follows(b, k)
    BY <2>5, <2>12 DEF EntryTaken, PanelTakes
  <2>14. stored' = Written(r, b, k + 1)
    <3>1. Written(r, b, k + 1) =
            IF b[k].for \in Settings
              THEN Written(r, b, k) \cup {<<SubjectOf(r), b[k].for, b[k].is>>}
              ELSE Written(r, b, k)
      <4>1. k \in Nat /\ k >= 1
        BY <2>4, <2>8
      <4> QED
        BY ONLY <4>1, OneMoreWritten
    <3>2. prompt \in Settings => subject = SubjectOf(r)
      BY <2>5, <2>7 DEF EntryTaken
    <3> QED
      BY <2>7, <2>12, <3>1, <3>2 DEF PanelTakes
  <2>15. prompt = "hardwire" => r.op # "zone" \/ r.zone \in AsksWiring
    <3>1. prompt = "hardwire" => subject = SubjectOf(r) /\ subject \in AsksWiring
      BY <1>1, <2>5, <2>7 DEF EntryTaken, Settings, WiresABoardZone
    <3> QED
      BY <3>1 DEF SubjectOf
  <2>16. OptionIsTrue(r)'
    <3> SUFFICES ASSUME model = "21iP", r.op = "zone",
                        r.zone \in DoublingAffectedZones
                 PROVE  stated' = Truth'
      BY <1>2 DEF OptionIsTrue, menuVars
    <3>1. r.zone \notin AsksWiring
      BY DEF AsksWiring, Board, DoublingAffectedZones
    <3>2. doubled' = doubled
      BY <2>12, <2>15, <3>1 DEF PanelTakes
    <3> QED
      BY <1>2, <2>9, <3>2 DEF OptionIsTrue, Truth, menuVars
  <2>17. CASE k # Len(b)
    <3>1. k + 1 \in 1..Len(b)
      BY <2>4, <2>8, <2>17
    <3>2. keys' # <<>>
      BY <1>2, <2>4, <2>11, <3>1, FirstOfTheRest
    <3>3. prompt' = b[k + 1].for
      BY <2>13, <2>17 DEF Follows
    <3>4. k + 1 > Opens(r) => subject' = SubjectOf(r)
      <4>1. prompt' # "normal"
        <5>1. CASE r.op = "zone"
          BY <1>1, <2>9, <3>1, <3>3, <5>1, ZoneNeverReturns DEF b, Refuses
        <5>2. CASE r.op = "timing"
          <6>1. /\ Len(b) = 4 /\ b[2] = E("field", r.field)
                /\ b[3] = E("value", r.value) /\ b[4] = E("field", 99)
            BY <5>2, TimingBuilt DEF b
          <6>2. k + 1 \in {2, 3, 4}
            BY ONLY <2>8, <3>1, <6>1
          <6> QED
            BY ONLY <3>3, <6>1, <6>2 DEF E
        <5>3. CASE r.op = "key"
          <6>1. /\ Len(b) = 7 /\ b[2] = E("field", 57)
                /\ b[3] = E("key", r.letter)
                /\ b[4] = E("key_partition", r.partition)
                /\ b[5] = E("key_function", r.action)
                /\ b[6] = E("key", 0) /\ b[7] = E("field", 99)
            BY <5>3, KeyBuilt DEF b
          <6>2. k + 1 \in {2, 3, 4, 5, 6, 7}
            BY ONLY <2>8, <3>1, <6>1
          <6> QED
            BY ONLY <3>3, <6>1, <6>2 DEF E
        <5> QED
          BY <5>1, <5>2, <5>3, RequestKinds
      <4>2. subject' = IF Names(b[k].is) THEN b[k].is ELSE subject
        BY <2>12, <4>1 DEF PanelTakes
      <4>3. k + 1 > Opens(r) => k = Opens(r) \/ k > Opens(r)
        BY ONLY <2>8
      <4> QED
        BY <2>5, <2>7, <4>2, <4>3 DEF EntryTaken
    <3>5. At(r, k + 1)'
      BY <1>2, <2>6, <2>11, <2>14, <3>3, <3>4 DEF At, b
    <3>6. \E j \in 1..Len(Built(r)') : At(r, j)'
      BY <2>6, <3>1, <3>5 DEF b
    <3>7. Typing(r)'
      BY <1>2, <2>6, <2>9, <2>16, <3>6 DEF Typing
    <3>8. outcome' # "sent"
      BY <1>1, <1>2, <3>2 DEF TypeOK
    <3> QED
      BY <3>7, <3>8
  <2>18. CASE k = Len(b)
    <3>1. keys' = <<>> /\ prompt' = "normal"
      BY <1>2, <2>11, <2>13, <2>18 DEF Follows
    <3>2. doubled' = doubled
      <4>1. prompt = "field"
        BY <2>4, <2>7, <2>18
      <4> QED
        BY <2>12, <4>1 DEF PanelTakes
    <3>3. Asked(r)' = Asked(r)
      BY <1>2, <3>2 DEF Asked, ZoneSettings, AskedZone, AsksPartition,
         AsksWiring, Board, AfterReport, Truth, menuVars
    <3>4. WasSent(r)'
      BY <1>2, <2>9, <2>10, <2>14, <2>18, <3>3 DEF WasSent
    <3> QED
      BY <3>1, <3>4
  <2> QED
    BY <2>17, <2>18
<1> QED
  BY <1>3, <1>4, <1>5 DEF MInv

\* When an operation is asked for.
LEMMA SubmitKeeps ==
  ASSUME MInv, NEW r \in Requests, Submit(r)
  PROVE  MInv'
<1>1. SomeModel /\ DoublingIsVistas /\ WiresABoardZone /\ TypeOK
  BY MenuAssumption DEF MInv, TypeOK, SomeModel
<1>2. /\ UNCHANGED <<menuVars, doubled, prompt, subject>> /\ request' = r
      /\ stored' = {} /\ ready' = AsSupposed(r)
  BY DEF Submit
<1>3. Built(r)' = Built(r) /\ (Refuses(r)' <=> Refuses(r))
  BY <1>2, Unmoved
<1> DEFINE b == Built(r)
<1>4. /\ b \in Seq(Entries) /\ 1 \in 1..Len(b) /\ b[1].for = "normal"
  BY <1>1, BuiltIs
<1>5. b # <<>>
  <2> HIDE DEF b
  <2> QED
    BY <1>4
<1>6. ready' \in BOOLEAN
  BY <1>2 DEF AsSupposed
<1>7. outcome' \in {"refused", "sending"} /\ (outcome' = "sending" <=> keys' # <<>>)
  BY <1>5 DEF Submit
<1>8. DoublingIsVistas' /\ WiresABoardZone'
  BY <1>1, <1>2 DEF DoublingIsVistas, WiresABoardZone, AsksWiring, Board, menuVars
<1>9. TypeOK'
  <2>1. count' \in 0..MaxRequests
    BY <1>1, MenuAssumption DEF TypeOK, Submit
  <2>2. /\ model' \in Models /\ stated' \in Statements
        /\ doubled' \subseteq 2..8 /\ request' \in Requests
        /\ prompt' \in Prompts
    BY <1>1, <1>2 DEF TypeOK, menuVars
  <2> QED
    BY ONLY <1>6, <1>7, <2>1, <2>2 DEF TypeOK
<1>10. keys' # <<>> /\ ready' => Typing(r)'
  <2> SUFFICES ASSUME keys' # <<>>, ready' PROVE Typing(r)'
    OBVIOUS
  <2>1. ~Refuses(r) /\ keys' = b
    BY DEF Submit
  <2>2. b = SubSeq(b, 1, Len(b))
    <3> HIDE DEF b
    <3> QED
      BY <1>4, SubSeqFull
  <2>3. prompt' = b[1].for /\ OptionIsTrue(r)'
    BY <1>2, <1>4, <2>2 DEF AsSupposed, OptionIsTrue, Truth, menuVars
  <2>4. ~(1 > Opens(r)') /\ Written(r, Built(r), 1)' = {}
    <3>1. Opens(r)' = Opens(r) /\ Written(r, Built(r), 1)' = Written(r, Built(r), 1)
      BY <1>2, Unmoved
    <3>2. ~(1 > Opens(r))
      BY RequestKinds DEF Opens
    <3>3. Written(r, Built(r), 1) = {}
      BY DEF Written
    <3> QED
      BY <3>1, <3>2, <3>3
  <2>5. At(r, 1)'
    BY <1>2, <1>3, <2>1, <2>2, <2>3, <2>4 DEF At
  <2>6. \E k \in 1..Len(Built(r)') : At(r, k)'
    BY <1>3, <1>4, <2>5
  <2> QED
    BY <1>2, <1>3, <2>1, <2>3, <2>6 DEF Typing
<1> QED
  BY <1>7, <1>8, <1>9, <1>10 DEF MInv

LEMMA MenuInitially == Init => MInv
<1> SUFFICES ASSUME Init PROVE MInv
  OBVIOUS
<1>1. model \in Models
  BY DEF Init
<1>2. doubled \subseteq 2..8 /\ DoublingIsVistas /\ WiresABoardZone
  BY DEF Init, DoublingIsVistas, WiresABoardZone
<1>3. stated \in Statements
  BY <1>1 DEF Init, Statements
<1>4. TypeOK
  <2>1. /\ request \in Requests \cup {<<>>}
        /\ outcome = "none" /\ keys = <<>> /\ ready \in BOOLEAN
    BY DEF Init
  <2>3. count \in 0..MaxRequests
    <3>1. count = 0 /\ MaxRequests \in Nat
      BY MenuAssumption DEF Init
    <3> QED
      BY ONLY <3>1
  <2>2. prompt \in Prompts
    BY DEF Init, Prompts
  <2> QED
    BY <1>1, <1>2, <1>3, <2>1, <2>2, <2>3 DEF TypeOK
<1> QED
  BY <1>2, <1>4 DEF Init, MInv

LEMMA MenuSteps == MInv /\ [Next]_vars => MInv'
<1> SUFFICES ASSUME MInv, [Next]_vars PROVE MInv'
  OBVIOUS
<1> USE DEF Statements
<1>1. CASE SetOption
  <2>1. /\ keys' = <<>> /\ model = "21iP" /\ stated' \in Statements
        /\ UNCHANGED <<model, count, request, keys, outcome, ready, doubled,
                       prompt, subject, stored>>
    BY <1>1 DEF SetOption, panelVars
  <2>2. TypeOK' /\ DoublingIsVistas' /\ WiresABoardZone'
    BY <2>1 DEF MInv, TypeOK, DoublingIsVistas, WiresABoardZone, AsksWiring, Board
  <2>3. ASSUME NEW r \in Requests, WasSent(r) PROVE WasSent(r)'
    <3>1. Asked(r)' = Asked(r)
      BY <2>1 DEF Asked, ZoneSettings, AskedZone, AsksPartition, AsksWiring,
         Board, AfterReport, Truth
    <3> QED
      BY <2>1, <2>3, <3>1 DEF WasSent
  <2> QED
    BY <2>1, <2>2, <2>3 DEF MInv
<1>2. CASE TypesEntry
  BY <1>2, TypesEntryKeeps
<1>3. CASE Fails
  <2>1. /\ keys' = <<>> /\ outcome' = "failed"
        /\ UNCHANGED <<model, stated, count, request, ready, doubled, prompt,
                       subject, stored>>
    BY <1>3 DEF Fails, panelVars, menuVars
  <2>2. TypeOK' /\ DoublingIsVistas' /\ WiresABoardZone'
    BY <2>1 DEF MInv, TypeOK, DoublingIsVistas, WiresABoardZone, AsksWiring, Board
  <2> QED
    BY <2>1, <2>2 DEF MInv
<1>4. CASE LeavesByHand
  <2>1. /\ keys' = <<>> /\ prompt # "normal" /\ prompt' = "normal"
        /\ UNCHANGED <<model, stated, count, request, keys, outcome, ready,
                       doubled, stored>>
    BY <1>4 DEF LeavesByHand, menuVars
  <2>2. TypeOK' /\ DoublingIsVistas' /\ WiresABoardZone'
    BY <2>1 DEF MInv, TypeOK, DoublingIsVistas, WiresABoardZone, Prompts
  <2>3. ~(outcome' = "sent" /\ ready')
    BY <2>1 DEF MInv
  <2> QED
    BY <2>1, <2>2, <2>3 DEF MInv
<1>5. ASSUME NEW r \in Requests, Submit(r) PROVE MInv'
  BY <1>5, SubmitKeeps
<1>6. CASE UNCHANGED vars
  <2>1. UNCHANGED <<model, stated, count, request, keys, outcome, ready,
                    doubled, prompt, subject, stored>>
    BY <1>6 DEF vars, menuVars, panelVars
  <2>2. TypeOK' /\ DoublingIsVistas' /\ WiresABoardZone'
    BY <2>1 DEF MInv, TypeOK, DoublingIsVistas, WiresABoardZone, AsksWiring, Board
  <2>3. ASSUME NEW r \in Requests, WasSent(r) PROVE WasSent(r)'
    <3>1. Asked(r)' = Asked(r)
      BY <2>1 DEF Asked, ZoneSettings, AskedZone, AsksPartition, AsksWiring,
         Board, AfterReport, Truth
    <3> QED
      BY <2>1, <2>3, <3>1 DEF WasSent
  <2>4. ASSUME NEW r \in Requests, Typing(r) PROVE Typing(r)'
    <3>1. /\ Built(r)' = Built(r) /\ (Refuses(r)' <=> Refuses(r))
          /\ SubjectOf(r)' = SubjectOf(r) /\ Opens(r)' = Opens(r)
          /\ \A k : Written(r, Built(r), k)' = Written(r, Built(r), k)
      BY <2>1, Unmoved DEF menuVars
    <3>2. PICK k \in 1..Len(Built(r)) : At(r, k)
      BY <2>4 DEF Typing
    <3>3. At(r, k)'
      BY <2>1, <3>1, <3>2 DEF At
    <3> QED
      BY <2>1, <2>4, <3>1, <3>3 DEF Typing, OptionIsTrue, Truth
  <2> QED
    BY <2>1, <2>2, <2>3, <2>4 DEF MInv
<1> QED
  BY <1>1, <1>2, <1>3, <1>4, <1>5, <1>6 DEF Next

-----------------------------------------------------------------------------
(* What follows from it.                                                   *)

\* The types of the state, whatever the models, the zones and the number of
\* operations; a refused or failed sequence leaves nothing to type.
THEOREM MenuIsTyped == Spec => []TypeOK
<1>1. MInv => TypeOK
  BY DEF MInv
<1> QED
  BY <1>1, MenuInitially, MenuSteps, PTL DEF Spec

\* Whatever the model, the zone and its wiring, each entry of a sequence is
\* typed at the prompt it was built for, and only zones 9 to 16 need the
\* option to be true for that.  (classify_zone and the builders.)
THEOREM EveryEntryMeetsItsPrompt == Spec => []EntriesMeetTheirPrompts
<1>1. MInv => EntriesMeetTheirPrompts
  <2> SUFFICES ASSUME MInv, keys # <<>>, ready PROVE Head(keys).for = prompt
    BY DEF EntriesMeetTheirPrompts
  <2>1. PICK r \in Requests : Typing(r)
    BY DEF MInv
  <2>2. PICK k \in 1..Len(Built(r)) : At(r, k)
    BY <2>1 DEF Typing
  <2>3. SomeModel
    BY MenuAssumption DEF MInv, TypeOK, SomeModel
  <2>4. Built(r) \in Seq(Entries)
    BY <2>3, BuiltIs
  <2>5. Head(keys) = Built(r)[k]
    BY <2>2, <2>4, FirstOfTheRest DEF At
  <2> QED
    BY <2>2, <2>5 DEF At
<1> QED
  BY <1>1, MenuInitially, MenuSteps, PTL DEF Spec

\* A sequence that is through has written every setting the panel has for the
\* zone, field or key asked for, as asked, and nothing else, and has left
\* Program Mode.
THEOREM SentIsDoneAsAsked == Spec => []DoneAsAsked
<1>1. MInv => DoneAsAsked
  BY DEF MInv, DoneAsAsked, WasSent
<1> QED
  BY <1>1, MenuInitially, MenuSteps, PTL DEF Spec

-----------------------------------------------------------------------------
(* What is refused.                                                        *)

LEMMA GuardAddsNothing ==
  ASSUME NEW r \in Requests, SomeModel
  PROVE  GuardPasses(r)
<1> DEFINE b == Built(r)
           letters == {i \in DOMAIN b : b[i].for = "key" /\ b[i].is # 0}
<1>1. b \in Seq(Entries) /\ DOMAIN b = 1..Len(b)
  BY BuiltIs
<1>2. CASE r.op = "zone"
  <2>1. /\ Len(b) = 10 + Multi + Wires(r)
        /\ b[1] = E("normal", 800) /\ b[2] = E("field", 56)
        /\ b[3] = E("confirm", 0) /\ b[4] = E("zone", r.zone)
        /\ b[5] = E("summary", 0) /\ b[6] = E("type", r.type)
        /\ Multi = 1 => b[7] = E("partition", r.partition)
        /\ b[7 + Multi] = E("report", r.report)
        /\ \A i \in 1..Wires(r) : b[7 + Multi + i] = Wiring(r)[i]
        /\ b[8 + Multi + Wires(r)] = E("alpha", 0)
        /\ b[9 + Multi + Wires(r)] = E("zone", 0)
        /\ b[10 + Multi + Wires(r)] = E("field", 99)
    BY <1>2, ZoneBuilt
  <2>2. /\ Multi \in {0, 1} /\ Wires(r) \in {0, 1, 2}
        /\ \A i \in 1..Wires(r) :
              Wiring(r)[i] \in {E("hardwire", r.hardwire),
                               E("response", r.response), E("input", 2)}
    BY <1>2, WiringIs DEF Multi, Wires
  <2> HIDE DEF b
  <2>3. ASSUME NEW i \in 1..Len(b) PROVE b[i].for # "key"
    <3>1. CASE i \in 1..6
      BY ONLY <2>1, <3>1 DEF E
    <3>2. CASE i \in {7, 7 + Multi}
      BY ONLY <2>1, <2>2, <3>2 DEF E
    <3>3. CASE i > 7 + Multi /\ i <= 7 + Multi + Wires(r)
      <4>1. i - 7 - Multi \in 1..Wires(r) /\ 7 + Multi + (i - 7 - Multi) = i
        BY ONLY <2>2, <2>3, <3>3
      <4>2. b[i] = Wiring(r)[i - 7 - Multi]
        BY ONLY <2>1, <4>1
      <4> QED
        BY ONLY <2>2, <4>1, <4>2 DEF E
    <3>4. CASE i \in {8 + Multi + Wires(r), 9 + Multi + Wires(r), 10 + Multi + Wires(r)}
      BY ONLY <2>1, <3>4 DEF E
    <3>5. i \in Int /\ 1 <= i /\ i <= 10 + Multi + Wires(r)
      BY ONLY <2>1, <2>2, <2>3
    <3>6. \/ i \in 1..6 \/ i \in {7, 7 + Multi}
          \/ i > 7 + Multi /\ i <= 7 + Multi + Wires(r)
          \/ i \in {8 + Multi + Wires(r), 9 + Multi + Wires(r),
                    10 + Multi + Wires(r)}
      BY ONLY <2>2, <3>5
    <3> QED
      BY ONLY <3>1, <3>2, <3>3, <3>4, <3>6
  <2>4. letters = {}
    BY <1>1, <2>3
  <2> QED
    BY <2>4 DEF GuardPasses, b
<1>3. CASE r.op = "timing"
  <2>1. /\ Len(b) = 4 /\ b[1] = E("normal", 800) /\ b[2] = E("field", r.field)
        /\ b[3] = E("value", r.value) /\ b[4] = E("field", 99)
    BY <1>3, TimingBuilt
  <2> HIDE DEF b
  <2>2. \A i \in 1..4 : b[i].for # "key"
    BY ONLY <2>1 DEF E
  <2>3. letters = {}
    BY <1>1, <2>1, <2>2
  <2> QED
    BY <2>3 DEF GuardPasses, b
<1>4. CASE r.op = "key"
  <2>1. /\ Len(b) = 7 /\ b[1] = E("normal", 800) /\ b[2] = E("field", 57)
        /\ b[3] = E("key", r.letter) /\ b[4] = E("key_partition", r.partition)
        /\ b[5] = E("key_function", r.action)
        /\ b[6] = E("key", 0) /\ b[7] = E("field", 99)
    BY <1>4, KeyBuilt
  <2>2. r.letter \in {1, 4}
    BY <1>4, KeyFields
  <2> HIDE DEF b
  <2>3. \A i \in 1..7 : (b[i].for = "key" /\ b[i].is # 0) <=> i = 3
    BY ONLY <2>1, <2>2 DEF E
  <2>4. letters = {3}
    BY <1>1, <2>1, <2>3
  <2>5. Cardinality(letters) = 1
    BY <2>4, FS_Singleton
  <2>6. b[3 - 1] = E("field", 57) /\ \E j \in 1..(3 - 1) : b[j] = E("normal", 800)
    BY <2>1
  <2>7. \A i \in letters : /\ b[i - 1] = E("field", 57)
                          /\ \E j \in 1..(i - 1) : b[j] = E("normal", 800)
    BY <2>4, <2>6
  <2> QED
    BY <1>4, <2>5, <2>7 DEF GuardPasses, b
<1> QED
  BY <1>2, <1>3, <1>4, RequestKinds

LEMMA ZoneRefusals ==
  ASSUME NEW r \in Requests, r.op = "zone", SomeModel, DoublingIsVistas,
         stated \in Statements
  PROVE  KindOf(r) = "refused" <=> DocumentedZoneRefusal(r)
<1>1. r.zone \in 1..64 /\ r.hardwire \in 0..4
  BY ZoneFields
<1> USE DEF KindOf, Doubled, DoublingUnclear, WiringKnown, DoubledZones,
            DoublingAffectedZones, ZoneDoublingType, DocumentedZoneRefusal,
            AsksWiring, Board, Statements
<1>2. CASE model = "21iP"
  BY <1>1, <1>2, LayoutOf
<1>3. CASE model = "15P"
  BY <1>1, <1>3, LayoutOf DEF DoublingIsVistas
<1>4. CASE model = "10P"
  BY <1>1, <1>4, LayoutOf DEF DoublingIsVistas
<1> QED
  BY <1>2, <1>3, <1>4 DEF SomeModel

\* Every request is sent or refused as README.md's table says; the guard that
\* reads the finished sequence adds nothing.
THEOREM RefusalsAreDocumented == Spec => RefusedAsDocumented
<1>1. MInv /\ [Next]_vars =>
        [count' # count => (outcome' = "refused" <=> DocumentedRefusal(request'))]_vars
  <2> SUFFICES ASSUME MInv, [Next]_vars, count' # count
               PROVE  outcome' = "refused" <=> DocumentedRefusal(request')
    OBVIOUS
  <2>1. PICK r \in Requests : Submit(r)
    BY DEF Next, vars, SetOption, TypesEntry, Fails, LeavesByHand
  <2>2. /\ SomeModel /\ DoublingIsVistas
        /\ stated \in Statements
    BY MenuAssumption DEF MInv, TypeOK, SomeModel
  <2>3. request' = r /\ (outcome' = "refused" <=> Refuses(r))
    BY <2>1 DEF Submit
  <2>4. GuardPasses(r)
    BY <2>2, GuardAddsNothing
  <2>5. r.op = "zone" => (KindOf(r) = "refused" <=> DocumentedZoneRefusal(r))
    BY <2>2, ZoneRefusals
  <2>6. ASSUME r.op = "timing"
        PROVE  ~TimingIsValid(r) <=> \/ r.field = 84 /\ r.value > 3
                                     \/ r.field = 34 /\ r.value > 97
    <3>1. r.field \in {34, 35, 84} /\ r.value \in {0, 3, 97, 98}
      BY <2>6, TimingFields
    <3>a. /\ r.value \in 0..3 <=> ~(r.value > 3)
          /\ r.value \in 0..97 <=> ~(r.value > 97)
          /\ r.value \in 0..99
      BY ONLY <3>1
    <3>b. 84 # 34 /\ 35 # 34 /\ 35 # 84
      OBVIOUS
    <3>2. CASE r.field = 84
      <4>1. TimingIsValid(r) <=> r.value \in 0..3
        BY ONLY <3>2 DEF TimingIsValid
      <4> QED
        BY ONLY <3>a, <3>b, <3>2, <4>1
    <3>3. CASE r.field = 34
      <4>1. TimingIsValid(r) <=> r.value \in 0..97
        BY ONLY <3>3 DEF TimingIsValid
      <4> QED
        BY ONLY <3>a, <3>b, <3>3, <4>1
    <3>4. CASE r.field = 35
      <4>1. TimingIsValid(r) <=> r.value \in 0..99
        BY ONLY <3>4 DEF TimingIsValid
      <4> QED
        BY ONLY <3>a, <3>b, <3>4, <4>1
    <3> QED
      BY ONLY <3>1, <3>2, <3>3, <3>4
  <2>7. Refuses(r) <=> DocumentedRefusal(r)
    <3>1. CASE r.op = "zone"
      BY ONLY <2>4, <2>5, <3>1 DEF Refuses, DocumentedRefusal
    <3>2. CASE r.op = "timing"
      <4>1. Refuses(r) <=> ~TimingIsValid(r)
        BY ONLY <2>4, <3>2 DEF Refuses
      <4>2. DocumentedRefusal(r) <=> \/ r.field = 84 /\ r.value > 3
                                     \/ r.field = 34 /\ r.value > 97
        BY ONLY <3>2 DEF DocumentedRefusal
      <4> QED
        BY ONLY <2>6, <3>2, <4>1, <4>2
    <3>3. CASE r.op = "key"
      BY ONLY <2>4, <3>3 DEF Refuses, DocumentedRefusal
    <3> QED
      BY <3>1, <3>2, <3>3, RequestKinds
  <2> QED
    BY ONLY <2>3, <2>7
<1> QED
  BY <1>1, MenuInitially, MenuSteps, PTL DEF Spec, RefusedAsDocumented
=============================================================================
