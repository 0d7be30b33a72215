-------------------------- MODULE TelemetryProofs ---------------------------
(***************************************************************************)
(* No record disappears, for any set of tasks, any depths of the queues,   *)
(* any flash and any number of records and power losses.  What makes it    *)
(* so: a record that the flash was given is from then on in the flash,     *)
(* with the broker or lost in a known way, whatever becomes of its copies. *)
(***************************************************************************)
EXTENDS Telemetry, SequenceTheorems, TLAPS

-----------------------------------------------------------------------------
(* What a sequence holds.                                                  *)

LEMMA RangeAppend ==
    ASSUME NEW S, NEW s \in Seq(S), NEW x \in S
    PROVE  Append(s, x) \in Seq(S) /\ Range(Append(s, x)) = Range(s) \cup {x}
<1>1. /\ Append(s, x) \in Seq(S) /\ Len(Append(s, x)) = Len(s) + 1
      /\ \A i \in 1..Len(s) : Append(s, x)[i] = s[i]
      /\ Append(s, x)[Len(s) + 1] = x
  BY AppendProperties
<1>2. DOMAIN s = 1..Len(s) /\ DOMAIN Append(s, x) = 1..(Len(s) + 1) /\ Len(s) \in Nat
  BY <1>1, LenProperties
<1> QED
  BY <1>1, <1>2 DEF Range

LEMMA RangeTail ==
    ASSUME NEW S, NEW s \in Seq(S), s # <<>>
    PROVE  /\ Head(s) \in S /\ Tail(s) \in Seq(S) /\ Len(Tail(s)) = Len(s) - 1
           /\ Range(s) = Range(Tail(s)) \cup {Head(s)}
<1>1. /\ Head(s) \in S /\ Tail(s) \in Seq(S) /\ Len(Tail(s)) = Len(s) - 1
      /\ \A i \in 1..(Len(s) - 1) : Tail(s)[i] = s[i + 1]
  BY HeadTailProperties
<1>2. Len(s) \in Nat \ {0} /\ Head(s) = s[1]
  BY EmptySeq, LenProperties
<1>3. Range(s) = {s[i] : i \in 1..Len(s)} /\ Range(Tail(s)) = {Tail(s)[i] : i \in 1..(Len(s) - 1)}
  BY <1>1, RangeEquality
<1>4. ASSUME NEW i \in 1..Len(s) PROVE s[i] \in Range(Tail(s)) \cup {Head(s)}
  <2>1. CASE i = 1
    BY <1>2, <2>1
  <2>2. CASE i - 1 \in 1..(Len(s) - 1)
    BY <1>1, <1>2, <1>3, <2>2
  <2> QED
    BY <1>2, <2>1, <2>2
<1>5. ASSUME NEW i \in 1..(Len(s) - 1) PROVE Tail(s)[i] \in Range(s)
  BY <1>1, <1>2, <1>3
<1> QED
  BY <1>1, <1>2, <1>3, <1>4, <1>5

LEMMA RangePush ==
    ASSUME NEW S, NEW s \in Seq(S), NEW x \in S
    PROVE  /\ <<x>> \o s \in Seq(S) /\ Len(<<x>> \o s) = Len(s) + 1
           /\ Range(<<x>> \o s) = Range(s) \cup {x}
<1>1. <<x>> \in Seq(S) /\ Len(<<x>>) = 1 /\ <<x>>[1] = x
  OBVIOUS
<1>2. <<x>> \o s \in Seq(S) /\ Len(<<x>> \o s) = Len(s) + 1
  BY <1>1, ConcatProperties
<1>3. Range(<<x>>) = {x}
  <2>1. Range(<<x>>) = {<<x>>[i] : i \in 1..1}
    BY <1>1, RangeEquality, Zenon
  <2> QED
    BY <1>1, <2>1
<1> QED
  <2>1. Range(<<x>> \o s) = Range(<<x>>) \cup Range(s)
    BY <1>1, RangeConcatenation, Zenon
  <2> QED
    BY <1>2, <1>3, <2>1

LEMMA RangeSplit ==
    ASSUME NEW S, NEW s \in Seq(S), NEW n \in 0..Len(s)
    PROVE  /\ SubSeq(s, n + 1, Len(s)) \in Seq(S)
           /\ Len(SubSeq(s, n + 1, Len(s))) = Len(s) - n
           /\ Range(SubSeq(s, 1, n)) \subseteq S
           /\ Range(s) = Range(SubSeq(s, 1, n)) \cup Range(SubSeq(s, n + 1, Len(s)))
<1>1. Len(s) \in Nat /\ \A i \in 1..Len(s) : s[i] \in S
  BY LenProperties
<1>2. /\ SubSeq(s, 1, n) \in Seq(S) /\ Len(SubSeq(s, 1, n)) = n
      /\ \A i \in 1..n : SubSeq(s, 1, n)[i] = s[i]
  <2>1. /\ SubSeq(s, 1, n) \in Seq(S)
        /\ Len(SubSeq(s, 1, n)) = IF 1 <= n THEN n - 1 + 1 ELSE 0
        /\ \A i \in 1..(n - 1 + 1) : SubSeq(s, 1, n)[i] = s[1 + i - 1]
    BY <1>1, SubSeqProperties
  <2> QED
    BY <1>1, <2>1
<1>3. /\ SubSeq(s, n + 1, Len(s)) \in Seq(S)
      /\ Len(SubSeq(s, n + 1, Len(s))) = Len(s) - n
      /\ \A i \in 1..(Len(s) - n) : SubSeq(s, n + 1, Len(s))[i] = s[n + i]
  <2>1. PICK m \in Int, l \in Nat : m = n + 1 /\ l = Len(s)
    BY <1>1
  <2>2. \A i \in m..l : s[i] \in S
    BY <1>1, <2>1
  <2>3. /\ SubSeq(s, m, l) \in Seq(S)
        /\ Len(SubSeq(s, m, l)) = IF m <= l THEN l - m + 1 ELSE 0
        /\ \A i \in 1..(l - m + 1) : SubSeq(s, m, l)[i] = s[m + i - 1]
    BY <2>1, <2>2, SubSeqProperties
  <2>4. l - m + 1 = Len(s) - n /\ \A i \in 1..(Len(s) - n) : m + i - 1 = n + i
    BY <1>1, <2>1
  <2>5. Len(SubSeq(s, m, l)) = Len(s) - n
    BY <1>1, <2>1, <2>3
  <2> QED
    BY <2>1, <2>3, <2>4, <2>5, Zenon
<1> DEFINE a == SubSeq(s, 1, n)
           b == SubSeq(s, n + 1, Len(s))
<1> HIDE DEF a, b
<1>4. /\ Range(s) = {s[i] : i \in 1..Len(s)}
      /\ Range(a) = {a[i] : i \in 1..n} /\ Range(b) = {b[i] : i \in 1..(Len(s) - n)}
  BY <1>2, <1>3, RangeEquality DEF a, b
<1>5. ASSUME NEW i \in 1..Len(s) PROVE s[i] \in Range(a) \cup Range(b)
  <2>1. CASE i \in 1..n
    BY <1>2, <1>4, <2>1 DEF a
  <2>2. CASE i - n \in 1..(Len(s) - n)
    <3>1. b[i - n] = s[n + (i - n)] /\ n + (i - n) = i
      BY <1>1, <1>3, <2>2 DEF b
    <3> QED
      BY <1>4, <2>2, <3>1
  <2> QED
    BY <1>1, <2>1, <2>2
<1>6. \A i \in 1..n : a[i] \in Range(s) /\ a[i] \in S
  BY <1>1, <1>2, <1>4 DEF a
<1>7. ASSUME NEW i \in 1..(Len(s) - n) PROVE b[i] \in Range(s)
  <2>1. n + i \in 1..Len(s) /\ b[i] = s[n + i]
    BY <1>1, <1>3 DEF b
  <2> QED
    BY <1>4, <2>1
<1>8. Range(s) = Range(a) \cup Range(b) /\ Range(a) \subseteq S
  BY <1>4, <1>5, <1>6, <1>7
<1> QED
  BY <1>3, <1>8 DEF a, b

-----------------------------------------------------------------------------
(* Types.                                                                  *)

Origins == [task : Tasks, kind : {"telemetry", "event", "writeAhead"}]
Doings == [at : {"idle", "look", "append", "offer", "fallback"}, rec : 0..Len(origin), stores : BOOLEAN]
Sendings == [rec : 0..Len(origin), from : {"none", "urgent", "live", "flash"}]

\* Who does something does it with a record.
Engaged ==
    /\ \A t \in Tasks : doing[t].at # "idle" => doing[t].rec \in Ids
    /\ sending # Nothing => sending.rec \in Ids

Types == TypeOK /\ origin \in Seq(Origins) /\ Engaged

\* What the tasks have in hand.
InHands == {doing[t].rec : t \in Tasks}

LEMMA Proceeding ==
    ASSUME Types, NEW t \in Tasks, NEW a \in {"look", "append", "offer", "fallback"}, NEW s \in BOOLEAN,
           Proceed(t, a, s), UNCHANGED origin
    PROVE  /\ doing' \in [Tasks -> Doings] /\ InHands' = InHands
           /\ doing'[t] = [at |-> a, rec |-> doing[t].rec, stores |-> s]
           /\ \A u \in Tasks : u # t => doing'[u] = doing[u]
<1>1. doing \in [Tasks -> Doings]
  BY DEF Types, TypeOK, Doings
<1>2. /\ doing'[t] = [at |-> a, rec |-> doing[t].rec, stores |-> s]
      /\ \A u \in Tasks : u # t => doing'[u] = doing[u]
      /\ doing' \in [Tasks -> Doings]
  BY <1>1 DEF Proceed, Doings
<1>3. \A u \in Tasks : doing'[u].rec = doing[u].rec
  BY <1>2
<1> QED
  BY <1>2, <1>3 DEF InHands

LEMMA Finishing ==
    ASSUME Types, NEW t \in Tasks, Finish(t), UNCHANGED origin
    PROVE  /\ doing' \in [Tasks -> Doings] /\ InHands \subseteq InHands' \cup {doing[t].rec}
           /\ doing'[t] = Idle /\ \A u \in Tasks : u # t => doing'[u] = doing[u]
<1>1. doing \in [Tasks -> Doings] /\ Len(origin) \in Nat
  BY LenProperties DEF Types, TypeOK, Doings
<1>2. /\ doing'[t] = Idle /\ \A u \in Tasks : u # t => doing'[u] = doing[u]
      /\ doing' \in [Tasks -> Doings]
  BY <1>1 DEF Finish, Idle, Doings
<1> QED
  BY <1>2 DEF InHands

LEMMA MoreLost ==
    ASSUME TypeOK, NEW w \in Ways, NEW S \in SUBSET Ids, Losing(w, S), UNCHANGED origin
    PROVE  /\ lost' \in [Ways -> SUBSET Ids'] /\ Lost' = Lost \cup S
           /\ lost'[w] = lost[w] \cup S /\ \A v \in Ways : v # w => lost'[v] = lost[v]
<1>1. /\ lost'[w] = lost[w] \cup S /\ \A v \in Ways : v # w => lost'[v] = lost[v]
      /\ lost' \in [Ways -> SUBSET Ids']
  BY DEF Losing, TypeOK, Ids
<1> QED
  BY <1>1 DEF Lost

LEMMA InitTypes == Init => Types
<1> SUFFICES ASSUME Init PROVE Types
  OBVIOUS
<1>1. origin = <<>> /\ Len(origin) = 0 /\ origin \in Seq(Origins)
  BY EmptySeq DEF Init
<1>2. live \in Seq(Ids) /\ urgent \in Seq(Ids) /\ stored \in Seq(Ids)
  BY EmptySeq DEF Init
<1>3. Len(live) <= LiveDepth /\ Len(urgent) <= UrgentDepth /\ Len(stored) <= Capacity
  BY EmptySeq, SizeAssumption DEF Init
<1>4. doing \in [Tasks -> Doings] /\ sending \in Sendings
  BY <1>1 DEF Init, Idle, Nothing, Doings, Sendings
<1>5. connected \in BOOLEAN /\ forwarded \subseteq Ids /\ lost \in [Ways -> SUBSET Ids]
  BY DEF Init
<1> QED
  BY <1>1, <1>2, <1>3, <1>4, <1>5 DEF Types, TypeOK, Doings, Sendings, Engaged, Init, Idle

LEMMA StepTypes == Types /\ [Next]_vars => Types'
<1> SUFFICES ASSUME Types, [Next]_vars PROVE Types'
  OBVIOUS
<1>0. /\ connected \in BOOLEAN
      /\ live \in Seq(Ids) /\ Len(live) <= LiveDepth
      /\ urgent \in Seq(Ids) /\ Len(urgent) <= UrgentDepth
      /\ stored \in Seq(Ids) /\ Len(stored) <= Capacity
      /\ doing \in [Tasks -> Doings] /\ sending \in Sendings
      /\ forwarded \subseteq Ids /\ lost \in [Ways -> SUBSET Ids]
      /\ origin \in Seq(Origins) /\ Len(origin) \in Nat
      /\ Engaged
  BY LenProperties DEF Types, TypeOK, Doings, Sendings
<1> DEFINE Rest == /\ connected' \in BOOLEAN /\ sending' \in Sendings' /\ forwarded' \subseteq Ids'
                   /\ lost' \in [Ways -> SUBSET Ids'] /\ origin' \in Seq(Origins)
           Queues == /\ live' \in Seq(Ids') /\ Len(live') <= LiveDepth
                     /\ urgent' \in Seq(Ids') /\ Len(urgent') <= UrgentDepth
                     /\ stored' \in Seq(Ids') /\ Len(stored') <= Capacity
<1>G. ASSUME Rest, Queues, doing' \in [Tasks -> Doings'], Engaged' PROVE Types'
  BY <1>G DEF Types, TypeOK, Doings, Sendings
<1>S. ASSUME UNCHANGED origin PROVE Ids' = Ids /\ Doings' = Doings /\ Sendings' = Sendings
  BY <1>S DEF Ids, Doings, Sendings
<1>1. ASSUME NEW t \in Tasks, Make(t) PROVE Types'
  <2>1. PICK k \in Kinds[t] : origin' = Append(origin, [task |-> t, kind |-> k])
    BY <1>1 DEF Make
  <2>2. [task |-> t, kind |-> k] \in Origins
    BY TaskAssumption DEF Origins, Kinds
  <2>3. origin' \in Seq(Origins) /\ Len(origin') = Len(origin) + 1
    BY <1>0, <2>1, <2>2, AppendProperties
  <2>4. Ids \subseteq Ids' /\ Len(origin') \in Ids' /\ 0..Len(origin) \subseteq 0..Len(origin')
    BY <1>0, <2>3 DEF Ids
  <2>5. Queues
    BY <1>0, <1>1, <2>4, SeqMonotonic DEF Make
  <2>6. Rest
    BY <1>0, <1>1, <2>3, <2>4 DEF Make, Sendings
  <2>7. doing' \in [Tasks -> Doings'] /\ Engaged'
    <3>1. /\ doing' \in [Tasks -> Doings'] /\ doing'[t].rec \in Ids'
          /\ \A u \in Tasks : u # t => doing'[u] = doing[u]
      BY <1>0, <1>1, <2>4 DEF Make, Doings, Ids
    <3> QED
      BY <1>0, <1>1, <2>4, <3>1 DEF Make, Engaged
  <2> QED
    BY <1>G, <2>5, <2>6, <2>7
<1>2. ASSUME NEW t \in Tasks, doing[t].at # "idle", UNCHANGED <<origin, sending>>,
             Finish(t) \/ \E a \in {"look", "append", "offer", "fallback"}, s \in BOOLEAN : Proceed(t, a, s)
      PROVE  doing' \in [Tasks -> Doings'] /\ Engaged'
  <2>1. CASE Finish(t)
    BY <1>0, <1>2, <1>S, <2>1, Finishing DEF Engaged, Idle
  <2>2. ASSUME NEW a \in {"look", "append", "offer", "fallback"}, NEW s \in BOOLEAN, Proceed(t, a, s)
        PROVE  doing' \in [Tasks -> Doings'] /\ Engaged'
    <3>1. /\ doing' \in [Tasks -> Doings]
          /\ doing'[t] = [at |-> a, rec |-> doing[t].rec, stores |-> s]
          /\ \A u \in Tasks : u # t => doing'[u] = doing[u]
      BY <1>2, <2>2, Proceeding, Zenon
    <3>2. doing'[t].rec \in Ids
      BY <1>0, <1>2, <3>1 DEF Engaged
    <3> QED
      BY <1>0, <1>2, <1>S, <3>1, <3>2 DEF Engaged
  <2> QED
    BY <1>2, <2>1, <2>2
<1>3. ASSUME NEW t \in Tasks, Look(t) PROVE Types'
  <2>1. \E a \in {"look", "append", "offer", "fallback"}, s \in BOOLEAN : Proceed(t, a, s)
    BY <1>3 DEF Look
  <2>2. doing[t].at # "idle" /\ UNCHANGED <<origin, sending, live, urgent, stored, connected, forwarded, lost>>
    BY <1>3 DEF Look
  <2>3. doing' \in [Tasks -> Doings'] /\ Engaged'
    BY <1>2, <2>1, <2>2
  <2> QED
    BY <1>0, <1>S, <1>G, <2>2, <2>3
<1>A. ASSUME NEW t \in Tasks, AfterAppend(t), Appending(t), UNCHANGED <<origin, sending>>
      PROVE  doing' \in [Tasks -> Doings'] /\ Engaged' /\ doing[t].rec \in Ids
  BY <1>0, <1>A, <1>2 DEF AfterAppend, Appending, Engaged
<1>4. ASSUME NEW t \in Tasks, AppendStored(t) PROVE Types'
  <2>1. UNCHANGED <<origin, sending, live, urgent, connected, forwarded>> /\ AfterAppend(t) /\ Appending(t)
    BY <1>4 DEF AppendStored
  <2>2. doing' \in [Tasks -> Doings'] /\ Engaged' /\ doing[t].rec \in Ids
    BY <1>A, <2>1
  <2>3. PICK n \in 0..ReclaimUnit :
          /\ n > 0 => Len(stored) > Capacity - ReclaimUnit /\ n <= Len(stored)
          /\ Len(stored) - n < Capacity
          /\ stored' = Append(SubSeq(stored, n + 1, Len(stored)), doing[t].rec)
          /\ Losing("reclaimed", Range(SubSeq(stored, 1, n)))
    BY <1>4 DEF AppendStored
  <2>4. Len(stored) \in Nat /\ n \in 0..Len(stored)
    BY <1>0, <2>3, LenProperties, SizeAssumption
  <2>5. /\ SubSeq(stored, n + 1, Len(stored)) \in Seq(Ids)
        /\ Len(SubSeq(stored, n + 1, Len(stored))) = Len(stored) - n
        /\ Range(SubSeq(stored, 1, n)) \subseteq Ids
    BY <1>0, <2>4, RangeSplit
  <2>6. stored' \in Seq(Ids) /\ Len(stored') = Len(stored) - n + 1
    BY <2>2, <2>3, <2>5, AppendProperties
  <2>7. Len(stored') <= Capacity
    BY <2>3, <2>4, <2>6, SizeAssumption
  <2>8. lost' \in [Ways -> SUBSET Ids']
    BY <2>1, <2>3, <2>5, MoreLost DEF Types, Ways
  <2> QED
    BY <1>0, <1>S, <1>G, <2>1, <2>2, <2>6, <2>7, <2>8
<1>5. ASSUME NEW t \in Tasks, AppendRefused(t) PROVE Types'
  <2>1. UNCHANGED <<origin, sending, live, urgent, stored, connected, forwarded>> /\ AfterAppend(t) /\ Appending(t)
        /\ Losing("refused", {doing[t].rec})
    BY <1>5 DEF AppendRefused
  <2>2. doing' \in [Tasks -> Doings'] /\ Engaged' /\ doing[t].rec \in Ids
    BY <1>A, <2>1
  <2>3. lost' \in [Ways -> SUBSET Ids']
    BY <2>1, <2>2, MoreLost DEF Types, Ways
  <2> QED
    BY <1>0, <1>S, <1>G, <2>1, <2>2, <2>3
<1>6. ASSUME NEW t \in Tasks, OfferLive(t) PROVE Types'
  <2>1. UNCHANGED <<origin, sending, urgent, stored, connected, forwarded, lost>> /\ doing[t].at # "idle"
    BY <1>6 DEF OfferLive
  <2>2. Finish(t) \/ Proceed(t, "fallback", FALSE)
    BY <1>6 DEF OfferLive
  <2>3. doing' \in [Tasks -> Doings'] /\ Engaged' /\ doing[t].rec \in Ids
    BY <1>0, <1>2, <2>1, <2>2 DEF Engaged
  <2>4. live' \in Seq(Ids) /\ Len(live') <= LiveDepth
    <3>1. CASE live' = live
      BY <1>0, <3>1
    <3>2. CASE Len(live) < LiveDepth /\ live' = Append(live, doing[t].rec)
      <4>1. live' \in Seq(Ids) /\ Len(live') = Len(live) + 1 /\ Len(live) \in Nat
        BY <1>0, <2>3, <3>2, AppendProperties, LenProperties
      <4> QED
        BY <3>2, <4>1, SizeAssumption
    <3> QED
      BY <1>6, <3>1, <3>2 DEF OfferLive
  <2> QED
    BY <1>0, <1>S, <1>G, <2>1, <2>3, <2>4
<1>7. ASSUME NEW t \in Tasks, OfferUrgent(t) PROVE Types'
  <2>1. UNCHANGED <<origin, sending, live, stored, connected, forwarded, lost>> /\ doing[t].at # "idle"
    BY <1>7 DEF OfferUrgent
  <2>2. Finish(t) \/ Proceed(t, "fallback", FALSE)
    BY <1>7 DEF OfferUrgent
  <2>3. doing' \in [Tasks -> Doings'] /\ Engaged' /\ doing[t].rec \in Ids
    BY <1>0, <1>2, <2>1, <2>2 DEF Engaged
  <2>4. urgent' \in Seq(Ids) /\ Len(urgent') <= UrgentDepth
    <3>1. CASE urgent' = urgent
      BY <1>0, <3>1
    <3>2. CASE Len(urgent) < UrgentDepth /\ urgent' = <<doing[t].rec>> \o urgent
      <4>1. urgent' \in Seq(Ids) /\ Len(urgent') = Len(urgent) + 1 /\ Len(urgent) \in Nat
        BY <1>0, <2>3, <3>2, RangePush, LenProperties
      <4> QED
        BY <3>2, <4>1, SizeAssumption
    <3> QED
      BY <1>7, <3>1, <3>2 DEF OfferUrgent
  <2> QED
    BY <1>0, <1>S, <1>G, <2>1, <2>3, <2>4
<1>8. ASSUME NEW t \in Tasks, OfferNobody(t) PROVE Types'
  <2>1. UNCHANGED <<origin, sending, live, urgent, stored, connected, forwarded>> /\ doing[t].at # "idle" /\ Finish(t)
        /\ Losing("raced", IF doing[t].stores THEN {} ELSE {doing[t].rec})
    BY <1>8 DEF OfferNobody
  <2>2. doing' \in [Tasks -> Doings'] /\ Engaged' /\ doing[t].rec \in Ids
    BY <1>0, <1>2, <2>1 DEF Engaged
  <2>3. (IF doing[t].stores THEN {} ELSE {doing[t].rec}) \in SUBSET Ids
    BY <2>2
  <2>4. lost' \in [Ways -> SUBSET Ids']
    BY <2>1, <2>3, MoreLost DEF Types, Ways
  <2> QED
    BY <1>0, <1>S, <1>G, <2>1, <2>2, <2>4
<1>9. CASE Connect \/ Disconnect
  <2>1. UNCHANGED <<live, urgent, stored, doing, sending, origin, forwarded, lost>> /\ connected' \in BOOLEAN
    BY <1>9 DEF Connect, Disconnect
  <2>2. Engaged'
    BY <1>0, <1>S, <2>1 DEF Engaged
  <2> QED
    BY <1>0, <1>S, <1>G, <2>1, <2>2
<1>10. CASE Take
  <2>1. UNCHANGED <<connected, stored, doing, origin, forwarded, lost>>
    BY <1>10 DEF Take
  <2>2. /\ live' \in Seq(Ids) /\ Len(live') <= LiveDepth
        /\ urgent' \in Seq(Ids) /\ Len(urgent') <= UrgentDepth
        /\ sending' \in Sendings /\ sending'.rec \in Ids
    <3>0. Ids \subseteq 0..Len(origin) /\ Len(live) \in Nat /\ Len(urgent) \in Nat
      BY <1>0, LenProperties DEF Ids
    <3>1. CASE TakeUrgent
      <4>1. urgent # <<>> /\ UNCHANGED live /\ urgent' = Tail(urgent) /\ sending' = [rec |-> Head(urgent), from |-> "urgent"]
        BY <3>1 DEF TakeUrgent
      <4>2. Head(urgent) \in Ids /\ Tail(urgent) \in Seq(Ids) /\ Len(Tail(urgent)) = Len(urgent) - 1
        BY <1>0, <4>1, RangeTail
      <4>3. sending' \in Sendings /\ sending'.rec \in Ids
        BY <3>0, <4>1, <4>2 DEF Sendings
      <4>4. urgent' \in Seq(Ids) /\ Len(urgent') <= UrgentDepth
        BY <1>0, <3>0, <4>1, <4>2, SizeAssumption
      <4> QED
        BY <1>0, <4>1, <4>3, <4>4
    <3>2. CASE TakeLive
      <4>1. live # <<>> /\ UNCHANGED urgent /\ live' = Tail(live) /\ sending' = [rec |-> Head(live), from |-> "live"]
        BY <3>2 DEF TakeLive
      <4>2. Head(live) \in Ids /\ Tail(live) \in Seq(Ids) /\ Len(Tail(live)) = Len(live) - 1
        BY <1>0, <4>1, RangeTail
      <4>3. sending' \in Sendings /\ sending'.rec \in Ids
        BY <3>0, <4>1, <4>2 DEF Sendings
      <4>4. live' \in Seq(Ids) /\ Len(live') <= LiveDepth
        BY <1>0, <3>0, <4>1, <4>2, SizeAssumption
      <4> QED
        BY <1>0, <4>1, <4>3, <4>4
    <3>3. CASE TakeStored
      <4>1. stored # <<>> /\ UNCHANGED <<live, urgent>> /\ sending' = [rec |-> Head(stored), from |-> "flash"]
        BY <3>3 DEF TakeStored
      <4>2. Head(stored) \in Ids
        BY <1>0, <4>1, RangeTail
      <4> QED
        BY <1>0, <3>0, <4>1, <4>2 DEF Sendings
    <3> QED
      BY <1>10, <3>1, <3>2, <3>3 DEF Take
  <2>3. Engaged'
    BY <1>0, <1>S, <2>1, <2>2 DEF Engaged
  <2> QED
    BY <1>0, <1>S, <1>G, <2>1, <2>2, <2>3
<1>11. CASE PublishOk
  <2>1. UNCHANGED <<connected, live, urgent, doing, origin>> /\ sending' = Nothing /\ sending # Nothing
        /\ forwarded' = forwarded \cup {sending.rec}
    BY <1>11 DEF PublishOk
  <2>2. sending' \in Sendings /\ forwarded' \subseteq Ids /\ Engaged'
    BY <1>0, <1>S, <2>1 DEF Engaged, Nothing, Sendings
  <2>3. stored' \in Seq(Ids) /\ Len(stored') <= Capacity /\ lost' \in [Ways -> SUBSET Ids']
    <3>1. CASE UNCHANGED <<stored, lost>>
      BY <1>0, <1>S, <2>1, <3>1
    <3>2. CASE stored # <<>> /\ stored' = Tail(stored) /\ Losing("skipped", {Head(stored)} \ forwarded')
      <4>1. Head(stored) \in Ids /\ Tail(stored) \in Seq(Ids) /\ Len(Tail(stored)) = Len(stored) - 1 /\ Len(stored) \in Nat
        BY <1>0, <3>2, RangeTail, LenProperties
      <4>2. lost' \in [Ways -> SUBSET Ids']
        BY <2>1, <3>2, <4>1, MoreLost DEF Types, Ways
      <4> QED
        BY <1>0, <3>2, <4>1, <4>2, SizeAssumption
    <3> QED
      BY <1>11, <3>1, <3>2 DEF PublishOk
  <2> QED
    BY <1>0, <1>S, <1>G, <2>1, <2>2, <2>3
<1>12. CASE PublishFails
  <2>1. UNCHANGED <<live, urgent, stored, origin, lost>> /\ sending' = Nothing /\ sending # Nothing
        /\ forwarded' \in {forwarded, forwarded \cup {sending.rec}} /\ connected' \in {connected, FALSE}
    BY <1>12 DEF PublishFails
  <2>2. sending' \in Sendings /\ forwarded' \subseteq Ids
    <3>1. Nothing \in Sendings
      BY <1>0 DEF Nothing, Sendings
    <3>2. sending.rec \in Ids
      BY <1>0, <2>1 DEF Engaged
    <3> QED
      BY <1>0, <2>1, <3>1, <3>2
  <2>3. /\ doing' \in [Tasks -> Doings] /\ (doing'["network"] = Idle \/ doing'["network"].rec \in Ids)
        /\ \A u \in Tasks : u # "network" => doing'[u] = doing[u]
    <3>1. Ids \subseteq 0..Len(origin) /\ sending.rec \in Ids
      BY <1>0, <2>1 DEF Ids, Engaged
    <3> DEFINE d == IF sending.from = "flash" THEN Idle ELSE [at |-> "fallback", rec |-> sending.rec, stores |-> FALSE]
    <3>2. d \in Doings /\ (d = Idle \/ d.rec \in Ids)
      <4>1. Idle \in Doings
        BY <1>0 DEF Doings, Idle
      <4>2. [at |-> "fallback", rec |-> sending.rec, stores |-> FALSE] \in Doings
        BY <3>1 DEF Doings
      <4>3. CASE sending.from = "flash"
        BY <4>1, <4>3
      <4>4. CASE sending.from # "flash"
        BY <3>1, <4>2, <4>4
      <4> QED
        BY <4>3, <4>4
    <3>3. doing' = [doing EXCEPT !["network"] = d]
      BY <1>12 DEF PublishFails
    <3> HIDE DEF d
    <3> QED
      BY <1>0, <3>2, <3>3, TaskAssumption
  <2>4. Engaged'
    BY <1>0, <1>S, <2>1, <2>3 DEF Engaged, Idle
  <2> QED
    BY <1>0, <1>S, <1>G, <2>1, <2>2, <2>3, <2>4
<1>13. CASE PowerLoss
  <2>1. UNCHANGED <<origin, forwarded>> /\ connected' = FALSE /\ live' = <<>> /\ urgent' = <<>> /\ sending' = Nothing
        /\ doing' = [t \in Tasks |-> Idle]
    BY <1>13 DEF PowerLoss
  <2>2. doing' \in [Tasks -> Doings] /\ Engaged' /\ sending' \in Sendings
    BY <1>0, <1>S, <2>1 DEF Engaged, Idle, Nothing, Doings, Sendings
  <2>3. live' \in Seq(Ids) /\ Len(live') <= LiveDepth /\ urgent' \in Seq(Ids) /\ Len(urgent') <= UrgentDepth
    BY <2>1, EmptySeq, SizeAssumption
  <2>a. PICK n \in 0..Len(stored) : \E kept \in [1..n -> DOMAIN stored] :
          stored' = [i \in 1..n |-> stored[kept[i]]]
    BY <1>13 DEF PowerLoss
  <2>4. PICK kept \in [1..n -> DOMAIN stored] : stored' = [i \in 1..n |-> stored[kept[i]]]
    BY <2>a
  <2>5. DOMAIN stored = 1..Len(stored) /\ Len(stored) \in Nat /\ \A i \in 1..Len(stored) : stored[i] \in Ids
    BY <1>0, LenProperties
  <2>6. stored' \in Seq(Ids) /\ Len(stored') <= Capacity
    <3>1. \A i \in 1..n : stored[kept[i]] \in Ids
      BY <2>4, <2>5
    <3>2. n \in Nat /\ stored' \in [1..n -> Ids]
      BY <2>4, <2>5, <3>1
    <3>3. stored' \in Seq(Ids) /\ Len(stored') = n
      BY <3>2
    <3> QED
      BY <1>0, <2>4, <2>5, <3>3, SizeAssumption
  <2>7. lost' \in [Ways -> SUBSET Ids']
    <3>1. Range(stored) \subseteq Ids
      BY <1>0, RangeOfSeq
    <3>2. InRam \ {0} \subseteq Ids
      <4>1. Range(live) \subseteq Ids /\ Range(urgent) \subseteq Ids
        BY <1>0, RangeOfSeq
      <4>2. \A t \in Tasks : doing[t].rec \in 0..Len(origin)
        BY <1>0 DEF Doings
      <4>3. sending.rec \in 0..Len(origin)
        BY <1>0 DEF Sendings
      <4>4. \A x \in 0..Len(origin) : x # 0 => x \in Ids
        BY <1>0 DEF Ids
      <4> QED
        BY <4>1, <4>2, <4>3, <4>4 DEF InRam
    <3>3. lost' = [lost EXCEPT !["torn"] = @ \cup (Range(stored) \ Range(stored')),
                               !["power"] = @ \cup (InRam \ (forwarded \cup Range(stored) \cup {0}))]
      BY <1>13 DEF PowerLoss
    <3>4. Range(stored) \ Range(stored') \subseteq Ids
      BY <3>1
    <3>5. InRam \ (forwarded \cup Range(stored) \cup {0}) \subseteq Ids
      BY <3>2
    <3>6. lost' \in [Ways -> SUBSET Ids]
      BY <1>0, <3>3, <3>4, <3>5
    <3> QED
      BY <1>S, <2>1, <3>6
  <2> QED
    BY <1>0, <1>S, <1>G, <2>1, <2>2, <2>3, <2>6, <2>7
<1>14. CASE UNCHANGED vars
  BY <1>14 DEF vars, Types, TypeOK, Engaged, Ids
<1> QED
  BY <1>1, <1>3, <1>4, <1>5, <1>6, <1>7, <1>8, <1>9, <1>10, <1>11, <1>12, <1>13, <1>14 DEF Next, Deliver

\* Type correctness of tasks, queues and flash (makeRecord, enqueueLive, emitEvent,
\* networkTask).
THEOREM TypeCorrect == Spec => []TypeOK
<1>1. Spec => []Types
  BY InitTypes, StepTypes, PTL DEF Spec
<1> QED
  BY <1>1, PTL DEF Types

-----------------------------------------------------------------------------
(* Nothing disappears.                                                     *)

\* What cannot be lost with RAM: the flash has it, the broker has it, or it
\* is gone already.
Kept == Range(stored) \cup forwarded \cup Lost

\* Where task t is with its record.  Until the first offer it is one of its
\* own; an offer of a record that was stored can be dropped; one that was not
\* is no write-ahead event, and the network task makes it with a connection.
Placed(t) ==
    /\ doing[t].at \in {"look", "append", "offer"} => origin[doing[t].rec].task = t
    /\ doing[t].at = "offer" /\ doing[t].stores => doing[t].rec \in Kept
    /\ doing[t].at = "offer" /\ ~doing[t].stores =>
          Kind(t) # "writeAhead" /\ (t = "network" => connected)

\* While the network task publishes it makes nothing, and a record it has
\* copied from the flash needs no second copy.
Publishing ==
    sending # Nothing =>
        doing["network"] = Idle /\ (sending.from = "flash" => sending.rec \in Kept)

Safe == Types /\ (\A t \in Tasks : Placed(t)) /\ Publishing /\ Accounted /\ OnlyPlainEventsRace

LEMMA AllHeld == Held \cup forwarded \cup Lost = InHands \cup Range(live) \cup Range(urgent) \cup {sending.rec} \cup Kept
BY DEF Held, InRam, InHands, Kept

\* Nothing is lost by a step that keeps what is kept, and what leaves RAM is
\* kept.
LEMMA StillAccounted ==
    ASSUME Accounted, UNCHANGED origin, Kept \subseteq Kept',
           \A r \in Ids : r \in InHands => r \in InHands' \cup Range(live') \cup Range(urgent') \cup {sending'.rec} \cup Kept',
           \A r \in Ids : r \in Range(live) \cup Range(urgent) \cup {sending.rec} =>
               r \in InHands' \cup Range(live') \cup Range(urgent') \cup {sending'.rec} \cup Kept'
    PROVE  Accounted'
<1>1. Ids' = Ids
  BY DEF Ids
<1>2. (Held \cup forwarded \cup Lost)' = InHands' \cup Range(live') \cup Range(urgent') \cup {sending'.rec} \cup Kept'
  BY AllHeld DEF Held, InRam, InHands, Kept
<1> QED
  BY <1>1, <1>2, AllHeld DEF Accounted

\* A task that moves on, or has finished, leaves the others where they are.
LEMMA StillPlaced ==
    ASSUME Safe, UNCHANGED <<origin, sending, connected>>, Kept \subseteq Kept',
           NEW t \in Tasks, doing[t].at # "idle", \A u \in Tasks : u # t => doing'[u] = doing[u],
           Placed(t)'
    PROVE  (\A u \in Tasks : Placed(u)') /\ Publishing'
<1>1. \A u \in Tasks : Placed(u)'
  BY DEF Safe, Placed, Kind
<1>2. Publishing'
  BY TaskAssumption DEF Safe, Publishing, Idle, Nothing
<1> QED
  BY <1>1, <1>2

LEMMA InitSafe == Init => Safe
<1> SUFFICES ASSUME Init PROVE Safe
  OBVIOUS
<1>1. Types
  BY InitTypes
<1>2. \A t \in Tasks : Placed(t)
  BY DEF Init, Placed, Idle
<1>3. Len(origin) = 0
  BY EmptySeq DEF Init
<1>4. Publishing /\ Accounted /\ OnlyPlainEventsRace
  BY <1>3 DEF Init, Publishing, Accounted, OnlyPlainEventsRace, Ids, Ways
<1> QED
  BY <1>1, <1>2, <1>4 DEF Safe

LEMMA MakeSafe == ASSUME Safe, NEW t \in Tasks, Make(t), Types' PROVE Safe'
<1>1. PICK k \in Kinds[t] : origin' = Append(origin, [task |-> t, kind |-> k])
  BY DEF Make
<1>2. origin \in Seq(Origins) /\ [task |-> t, kind |-> k] \in Origins
  BY TaskAssumption DEF Safe, Types, Origins, Kinds
<1>3. /\ Len(origin') = Len(origin) + 1 /\ Len(origin) \in Nat
      /\ \A r \in Ids : origin'[r] = origin[r]
      /\ origin'[Len(origin')] = [task |-> t, kind |-> k]
  BY <1>1, <1>2, AppendProperties, LenProperties DEF Ids
<1>4. Kept' = Kept
  BY DEF Make, Kept, Lost
<1>5. /\ doing'[t] = [at |-> "look", rec |-> Len(origin'), stores |-> FALSE]
      /\ \A u \in Tasks : u # t => doing'[u] = doing[u]
      /\ doing[t] = Idle
  BY DEF Make, Free, Safe, Types, TypeOK
<1>6. \A u \in Tasks : Placed(u)'
  <2>1. Placed(t)'
    BY <1>3, <1>5 DEF Placed
  <2>2. ASSUME NEW u \in Tasks, u # t PROVE Placed(u)'
    <3>1. Placed(u) /\ connected' = connected /\ doing'[u] = doing[u]
      BY <1>5, <2>2 DEF Safe, Make
    <3>2. doing[u].at # "idle" => origin'[doing[u].rec] = origin[doing[u].rec]
      BY <1>3 DEF Safe, Types, Engaged
    <3>3. CASE doing[u].at \in {"look", "append", "offer"}
      BY <1>4, <3>1, <3>2, <3>3 DEF Placed, Kind
    <3>4. CASE doing[u].at \notin {"look", "append", "offer"}
      BY <3>1, <3>4 DEF Placed
    <3> QED
      BY <3>3, <3>4
  <2> QED
    BY <2>1, <2>2
<1>7. Publishing'
  BY <1>4, <1>5, TaskAssumption DEF Safe, Publishing, Make, Free
<1>8. Accounted'
  <2>1. Ids' = Ids \cup {Len(origin')}
    BY <1>3 DEF Ids
  <2>2. (Held \cup forwarded \cup Lost)' = InHands' \cup Range(live') \cup Range(urgent') \cup {sending'.rec} \cup Kept'
    BY AllHeld DEF Held, InRam, InHands, Kept
  <2>3. \A r \in Ids : r \in InHands => r \in InHands'
    BY <1>5 DEF InHands, Idle, Ids
  <2>4. Len(origin') \in InHands'
    BY <1>5 DEF InHands
  <2> QED
    BY <1>4, <2>1, <2>2, <2>3, <2>4, AllHeld DEF Safe, Accounted, Make
<1>9. OnlyPlainEventsRace'
  BY <1>3 DEF Safe, Types, TypeOK, OnlyPlainEventsRace, Make, Ways
<1> QED
  BY <1>6, <1>7, <1>8, <1>9 DEF Safe


LEMMA LookSafe == ASSUME Safe, NEW t \in Tasks, Look(t), Types' PROVE Safe'
<1>1. UNCHANGED <<connected, live, urgent, stored, sending, origin, forwarded, lost>> /\ doing[t].at = "look"
  BY DEF Look
<1>2. Kept' = Kept
  BY <1>1 DEF Kept, Lost
<1>3. PICK a \in {"append", "offer", "fallback"}, s \in BOOLEAN :
         /\ Proceed(t, a, s)
         /\ a = "offer" => ~s /\ Kind(t) # "writeAhead" /\ connected
  BY DEF Look
<1>4. /\ InHands' = InHands /\ doing'[t] = [at |-> a, rec |-> doing[t].rec, stores |-> s]
      /\ \A u \in Tasks : u # t => doing'[u] = doing[u]
  BY <1>1, <1>3, Proceeding DEF Safe
<1>5. Placed(t)'
  BY <1>1, <1>3, <1>4 DEF Safe, Placed, Kind
<1>6. (\A u \in Tasks : Placed(u)') /\ Publishing'
  BY <1>1, <1>2, <1>4, <1>5, StillPlaced
<1>7. Accounted' /\ OnlyPlainEventsRace'
  BY <1>1, <1>2, <1>4, StillAccounted DEF Safe, OnlyPlainEventsRace
<1> QED
  BY <1>6, <1>7 DEF Safe

\* After an append, whatever came of it, the record is kept.
LEMMA AfterAppendSafe ==
    ASSUME Safe, NEW t \in Tasks, Appending(t), AfterAppend(t), Types',
           UNCHANGED <<connected, live, urgent, sending, origin, forwarded>>,
           Kept \subseteq Kept', doing[t].rec \in Kept', lost'["raced"] = lost["raced"]
    PROVE  Safe'
<1>1. /\ InHands \subseteq InHands' \cup {doing[t].rec}
      /\ \A u \in Tasks : u # t => doing'[u] = doing[u]
      /\ Placed(t)'
  <2>1. CASE doing[t].at = "append"
    <3>1. Proceed(t, "offer", TRUE)
      BY <2>1 DEF AfterAppend
    <3>2. /\ InHands' = InHands /\ doing'[t] = [at |-> "offer", rec |-> doing[t].rec, stores |-> TRUE]
          /\ \A u \in Tasks : u # t => doing'[u] = doing[u]
      BY <3>1, Proceeding DEF Safe
    <3> QED
      BY <2>1, <3>2 DEF Safe, Placed
  <2>2. CASE doing[t].at # "append"
    <3>1. Finish(t)
      BY <2>2 DEF AfterAppend
    <3> QED
      BY <3>1, Finishing DEF Safe, Placed, Idle
  <2> QED
    BY <2>1, <2>2
<1>2. (\A u \in Tasks : Placed(u)') /\ Publishing'
  BY <1>1, StillPlaced DEF Appending
<1>3. Accounted' /\ OnlyPlainEventsRace'
  BY <1>1, StillAccounted DEF Safe, OnlyPlainEventsRace
<1> QED
  BY <1>2, <1>3 DEF Safe

LEMMA AppendSafe == ASSUME Safe, NEW t \in Tasks, AppendStored(t) \/ AppendRefused(t), Types' PROVE Safe'
<1>0. /\ UNCHANGED <<connected, live, urgent, sending, origin, forwarded>>
      /\ Appending(t) /\ AfterAppend(t) /\ doing[t].rec \in Ids /\ TypeOK
  BY DEF AppendStored, AppendRefused, Appending, Safe, Types, Engaged
<1>1. CASE AppendStored(t)
  <2>1. PICK n \in 0..ReclaimUnit :
          /\ n > 0 => Len(stored) > Capacity - ReclaimUnit /\ n <= Len(stored)
          /\ stored' = Append(SubSeq(stored, n + 1, Len(stored)), doing[t].rec)
          /\ Losing("reclaimed", Range(SubSeq(stored, 1, n)))
    BY <1>1 DEF AppendStored
  <2>2. stored \in Seq(Ids) /\ n \in 0..Len(stored)
    BY <1>0, <2>1, LenProperties, SizeAssumption DEF TypeOK
  <2>3. /\ SubSeq(stored, n + 1, Len(stored)) \in Seq(Ids)
        /\ Range(SubSeq(stored, 1, n)) \subseteq Ids
        /\ Range(stored) = Range(SubSeq(stored, 1, n)) \cup Range(SubSeq(stored, n + 1, Len(stored)))
    BY <2>2, RangeSplit
  <2>4. Range(stored') = Range(SubSeq(stored, n + 1, Len(stored))) \cup {doing[t].rec}
    <3>1. ASSUME NEW b \in Seq(Ids), stored' = Append(b, doing[t].rec)
          PROVE  Range(stored') = Range(b) \cup {doing[t].rec}
      BY <1>0, <3>1, RangeAppend
    <3> QED
      BY <2>1, <2>3, <3>1
  <2>5. Lost' = Lost \cup Range(SubSeq(stored, 1, n)) /\ lost'["raced"] = lost["raced"]
    BY <1>0, <2>1, <2>3, MoreLost DEF Ways
  <2>6. Kept \subseteq Kept' /\ doing[t].rec \in Kept'
    BY <1>0, <2>3, <2>4, <2>5 DEF Kept
  <2> QED
    BY <1>0, <2>5, <2>6, AfterAppendSafe
<1>2. CASE AppendRefused(t)
  <2>1. stored' = stored /\ Losing("refused", {doing[t].rec})
    BY <1>2 DEF AppendRefused
  <2>2. Lost' = Lost \cup {doing[t].rec} /\ lost'["raced"] = lost["raced"]
    BY <1>0, <2>1, MoreLost DEF Ways
  <2>3. Kept \subseteq Kept' /\ doing[t].rec \in Kept'
    BY <1>0, <2>1, <2>2 DEF Kept
  <2> QED
    BY <1>0, <2>2, <2>3, AfterAppendSafe
<1> QED
  BY <1>1, <1>2


LEMMA OfferLiveSafe == ASSUME Safe, NEW t \in Tasks, OfferLive(t), Types' PROVE Safe'
<1>1. UNCHANGED <<connected, urgent, stored, sending, origin, forwarded, lost>> /\ doing[t].at = "offer"
      /\ live \in Seq(Ids) /\ doing[t].rec \in Ids
  BY DEF OfferLive, Safe, Types, TypeOK, Engaged
<1>2. Kept' = Kept
  BY <1>1 DEF Kept, Lost
<1>3. /\ Range(live) \subseteq Range(live') /\ InHands \subseteq InHands' \cup Range(live')
      /\ \A u \in Tasks : u # t => doing'[u] = doing[u]
      /\ Placed(t)'
  <2>1. CASE live' = Append(live, doing[t].rec) /\ Finish(t)
    <3>1. Range(live') = Range(live) \cup {doing[t].rec}
      BY <1>1, <2>1, RangeAppend
    <3> QED
      BY <1>1, <2>1, <3>1, Finishing DEF Safe, Placed, Idle
  <2>2. CASE live' = live /\ Proceed(t, "fallback", FALSE)
    <3>1. /\ InHands' = InHands /\ doing'[t] = [at |-> "fallback", rec |-> doing[t].rec, stores |-> FALSE]
          /\ \A u \in Tasks : u # t => doing'[u] = doing[u]
      BY <1>1, <2>2, Proceeding DEF Safe
    <3>2. Placed(t)'
      BY <3>1 DEF Placed
    <3> QED
      BY <2>2, <3>1, <3>2
  <2> QED
    BY <2>1, <2>2 DEF OfferLive
<1>4. (\A u \in Tasks : Placed(u)') /\ Publishing'
  BY <1>1, <1>2, <1>3, StillPlaced
<1>5. Accounted' /\ OnlyPlainEventsRace'
  BY <1>1, <1>2, <1>3, StillAccounted DEF Safe, OnlyPlainEventsRace
<1> QED
  BY <1>4, <1>5 DEF Safe

LEMMA OfferUrgentSafe == ASSUME Safe, NEW t \in Tasks, OfferUrgent(t), Types' PROVE Safe'
<1>1. UNCHANGED <<connected, live, stored, sending, origin, forwarded, lost>> /\ doing[t].at = "offer"
      /\ urgent \in Seq(Ids) /\ doing[t].rec \in Ids
  BY DEF OfferUrgent, Safe, Types, TypeOK, Engaged
<1>2. Kept' = Kept
  BY <1>1 DEF Kept, Lost
<1>3. /\ Range(urgent) \subseteq Range(urgent') /\ InHands \subseteq InHands' \cup Range(urgent') \cup Kept
      /\ \A u \in Tasks : u # t => doing'[u] = doing[u]
      /\ Placed(t)'
  <2>1. CASE urgent' = <<doing[t].rec>> \o urgent /\ Finish(t)
    <3>1. Range(urgent') = Range(urgent) \cup {doing[t].rec}
      BY <1>1, <2>1, RangePush
    <3> QED
      BY <1>1, <2>1, <3>1, Finishing DEF Safe, Placed, Idle
  <2>2. CASE urgent' = urgent /\ doing[t].stores /\ Finish(t)
    BY <1>1, <2>2, Finishing DEF Safe, Placed, Idle
  <2>3. CASE urgent' = urgent /\ Proceed(t, "fallback", FALSE)
    <3>1. /\ InHands' = InHands /\ doing'[t] = [at |-> "fallback", rec |-> doing[t].rec, stores |-> FALSE]
          /\ \A u \in Tasks : u # t => doing'[u] = doing[u]
      BY <1>1, <2>3, Proceeding DEF Safe
    <3>2. Placed(t)'
      BY <3>1 DEF Placed
    <3> QED
      BY <2>3, <3>1, <3>2
  <2> QED
    BY <2>1, <2>2, <2>3 DEF OfferUrgent
<1>4. (\A u \in Tasks : Placed(u)') /\ Publishing'
  BY <1>1, <1>2, <1>3, StillPlaced
<1>5. Accounted' /\ OnlyPlainEventsRace'
  BY <1>1, <1>2, <1>3, StillAccounted DEF Safe, OnlyPlainEventsRace
<1> QED
  BY <1>4, <1>5 DEF Safe

\* The race: what the second look drops is a plain event of a task other than
\* the network task, or is kept.
LEMMA OfferNobodySafe == ASSUME Safe, NEW t \in Tasks, OfferNobody(t), Types' PROVE Safe'
<1> DEFINE S == IF doing[t].stores THEN {} ELSE {doing[t].rec}
<1>1. UNCHANGED <<connected, live, urgent, stored, sending, origin, forwarded>> /\ doing[t].at = "offer"
      /\ ~connected /\ Kind(t) # "telemetry" /\ Losing("raced", S) /\ Finish(t)
  BY DEF OfferNobody
<1>2. TypeOK /\ doing[t].rec \in Ids /\ doing[t].stores \in BOOLEAN /\ S \in SUBSET Ids
  BY <1>1 DEF Safe, Types, TypeOK, Engaged
<1>3. Lost' = Lost \cup S /\ lost'["raced"] = lost["raced"] \cup S
  BY <1>1, <1>2, MoreLost DEF Ways
<1>4. Kept' = Kept \cup S /\ doing[t].rec \in Kept'
  BY <1>1, <1>2, <1>3 DEF Kept, Safe, Placed
<1>5. InHands \subseteq InHands' \cup {doing[t].rec} /\ Placed(t)'
      /\ \A u \in Tasks : u # t => doing'[u] = doing[u]
  BY <1>1, Finishing DEF Safe, Placed, Idle
<1>6. (\A u \in Tasks : Placed(u)') /\ Publishing'
  BY <1>1, <1>4, <1>5, StillPlaced
<1>7. Accounted'
  BY <1>1, <1>4, <1>5, StillAccounted DEF Safe
<1>8. \A r \in S : origin[r].kind = "event" /\ origin[r].task # "network"
  <2>1. origin[doing[t].rec] \in Origins
    BY <1>2, LenProperties DEF Safe, Types, Ids
  <2>2. ~doing[t].stores => origin[doing[t].rec].task = t /\ Kind(t) # "writeAhead" /\ t # "network"
    BY <1>1 DEF Safe, Placed
  <2> QED
    BY <1>1, <1>2, <2>1, <2>2 DEF Origins, Kind
<1>9. OnlyPlainEventsRace'
  BY <1>1, <1>3, <1>8 DEF Safe, OnlyPlainEventsRace
<1> QED
  BY <1>6, <1>7, <1>9 DEF Safe


LEMMA SessionSafe == ASSUME Safe, Connect \/ Disconnect, Types' PROVE Safe'
<1>1. UNCHANGED <<live, urgent, stored, doing, sending, origin, forwarded, lost>>
      /\ doing["network"] = Idle /\ sending = Nothing
  BY DEF Connect, Disconnect, Free
<1>2. Kept' = Kept
  BY <1>1 DEF Kept, Lost
<1>3. (\A u \in Tasks : Placed(u)') /\ Publishing'
  BY <1>1, <1>2 DEF Safe, Placed, Kind, Publishing, Idle
<1>4. Accounted' /\ OnlyPlainEventsRace'
  BY <1>1 DEF Safe, Accounted, OnlyPlainEventsRace, Held, InRam, Lost, Ids
<1> QED
  BY <1>3, <1>4 DEF Safe

LEMMA TakeSafe == ASSUME Safe, Take, Types' PROVE Safe'
<1>1. UNCHANGED <<connected, stored, doing, origin, forwarded, lost>>
      /\ doing["network"] = Idle /\ sending = Nothing
  BY DEF Take, Free
<1>2. Kept' = Kept
  BY <1>1 DEF Kept, Lost
<1>3. live \in Seq(Ids) /\ urgent \in Seq(Ids) /\ stored \in Seq(Ids)
  BY DEF Safe, Types, TypeOK
<1>4. /\ Range(live) \cup Range(urgent) \subseteq Range(live') \cup Range(urgent') \cup {sending'.rec}
      /\ sending'.from = "flash" => sending'.rec \in Range(stored)
  <2>1. CASE TakeUrgent
    <3>1. Range(urgent) = Range(Tail(urgent)) \cup {Head(urgent)}
      BY <1>3, <2>1, RangeTail DEF TakeUrgent
    <3> QED
      BY <2>1, <3>1 DEF TakeUrgent
  <2>2. CASE TakeLive
    <3>1. Range(live) = Range(Tail(live)) \cup {Head(live)}
      BY <1>3, <2>2, RangeTail DEF TakeLive
    <3> QED
      BY <2>2, <3>1 DEF TakeLive
  <2>3. CASE TakeStored
    <3>1. Range(stored) = Range(Tail(stored)) \cup {Head(stored)}
      BY <1>3, <2>3, RangeTail DEF TakeStored
    <3> QED
      BY <2>3, <3>1 DEF TakeStored
  <2> QED
    BY <2>1, <2>2, <2>3 DEF Take
<1>5. (\A u \in Tasks : Placed(u)') /\ Publishing'
  <2>1. Range(stored) \subseteq Kept'
    BY <1>2 DEF Kept
  <2> QED
    BY <1>1, <1>2, <1>4, <2>1 DEF Safe, Placed, Kind, Publishing
<1>6. InHands' = InHands
  BY <1>1 DEF InHands
<1>7. Accounted' /\ OnlyPlainEventsRace'
  <2>1. \A r \in Ids : r # 0
    BY DEF Ids
  <2> QED
    BY <1>1, <1>2, <1>4, <1>6, <2>1, StillAccounted DEF Safe, OnlyPlainEventsRace, Nothing
<1> QED
  BY <1>5, <1>7 DEF Safe

LEMMA PublishOkSafe == ASSUME Safe, PublishOk, Types' PROVE Safe'
<1>1. UNCHANGED <<connected, live, urgent, doing, origin>> /\ sending' = Nothing /\ sending # Nothing
      /\ forwarded' = forwarded \cup {sending.rec}
  BY DEF PublishOk
<1>2. stored \in Seq(Ids) /\ TypeOK
  BY DEF Safe, Types, TypeOK
<1>3. Kept \subseteq Kept' /\ sending.rec \in Kept' /\ lost'["raced"] = lost["raced"]
  <2>1. CASE UNCHANGED <<stored, lost>>
    BY <1>1, <2>1 DEF Kept, Lost
  <2>2. CASE stored # <<>> /\ stored' = Tail(stored) /\ Losing("skipped", {Head(stored)} \ forwarded')
    <3>1. Range(stored) = Range(Tail(stored)) \cup {Head(stored)} /\ Head(stored) \in Ids
      BY <1>2, <2>2, RangeTail
    <3>2. Lost' = Lost \cup ({Head(stored)} \ forwarded') /\ lost'["raced"] = lost["raced"]
      <4>1. {Head(stored)} \ forwarded' \in SUBSET Ids
        BY <3>1
      <4> QED
        BY <1>1, <1>2, <2>2, <4>1, MoreLost DEF Ways
    <3> QED
      BY <1>1, <2>2, <3>1, <3>2 DEF Kept
  <2> QED
    BY <2>1, <2>2 DEF PublishOk
<1>4. (\A u \in Tasks : Placed(u)') /\ Publishing'
  BY <1>1, <1>3 DEF Safe, Placed, Kind, Publishing
<1>5. InHands' = InHands
  BY <1>1 DEF InHands
<1>6. Accounted' /\ OnlyPlainEventsRace'
  BY <1>1, <1>3, <1>5, StillAccounted DEF Safe, OnlyPlainEventsRace
<1> QED
  BY <1>4, <1>6 DEF Safe


LEMMA PublishFailsSafe == ASSUME Safe, PublishFails, Types' PROVE Safe'
<1> DEFINE d == IF sending.from = "flash" THEN Idle ELSE [at |-> "fallback", rec |-> sending.rec, stores |-> FALSE]
<1>1. UNCHANGED <<live, urgent, stored, origin, lost>> /\ sending' = Nothing /\ sending # Nothing
      /\ forwarded \subseteq forwarded' /\ doing' = [doing EXCEPT !["network"] = d]
  BY DEF PublishFails
<1>2. Kept \subseteq Kept'
  BY <1>1 DEF Kept, Lost
<1>3. /\ doing["network"] = Idle /\ doing'["network"] = d
      /\ \A u \in Tasks : u # "network" => doing'[u] = doing[u]
      /\ d.at \in {"idle", "fallback"}
      /\ sending.from # "flash" => d.rec = sending.rec
      /\ sending.from = "flash" => sending.rec \in Kept
  BY <1>1, TaskAssumption DEF Safe, Publishing, Types, TypeOK, Idle
<1> HIDE DEF d
<1>4. (\A u \in Tasks : Placed(u)') /\ Publishing'
  <2>1. Placed("network")'
    BY <1>3 DEF Placed
  <2>2. \A u \in Tasks : u # "network" => Placed(u)'
    BY <1>1, <1>2, <1>3 DEF Safe, Placed, Kind
  <2> QED
    BY <1>1, <2>1, <2>2 DEF Publishing
<1>5. Accounted'
  <2>1. \A r \in Ids : r \in InHands => r \in InHands'
    BY <1>3 DEF InHands, Idle, Ids
  <2>2. sending.rec \in InHands' \cup Kept'
    BY <1>2, <1>3, TaskAssumption DEF InHands
  <2> QED
    BY <1>1, <1>2, <2>1, <2>2, StillAccounted DEF Safe
<1>6. OnlyPlainEventsRace'
  BY <1>1 DEF Safe, OnlyPlainEventsRace
<1> QED
  BY <1>4, <1>5, <1>6 DEF Safe

LEMMA PowerLossSafe == ASSUME Safe, PowerLoss, Types' PROVE Safe'
<1> DEFINE torn == Range(stored) \ Range(stored')
           ram == InRam \ (forwarded \cup Range(stored) \cup {0})
<1>1. UNCHANGED <<origin, forwarded>> /\ live' = <<>> /\ urgent' = <<>> /\ sending' = Nothing
      /\ doing' = [t \in Tasks |-> Idle]
      /\ lost' = [lost EXCEPT !["torn"] = @ \cup torn, !["power"] = @ \cup ram]
  BY DEF PowerLoss
<1> HIDE DEF torn, ram
<1>2. /\ lost'["torn"] = lost["torn"] \cup torn /\ lost'["power"] = lost["power"] \cup ram
      /\ \A w \in Ways \ {"torn", "power"} : lost'[w] = lost[w]
  BY <1>1 DEF Safe, Types, TypeOK, Ways
<1>3. Lost' = Lost \cup torn \cup ram
  BY <1>2 DEF Lost, Ways
<1>4. Kept \subseteq Kept' /\ \A r \in Ids : r \in InRam => r \in Kept'
  <2>1. Range(stored) \subseteq Range(stored') \cup torn
    BY DEF torn
  <2>2. \A r \in Ids : r \in InRam => r \in forwarded \cup Range(stored) \cup ram
    BY DEF ram, Ids
  <2> QED
    BY <1>1, <1>3, <2>1, <2>2 DEF Kept
<1>5. Accounted'
  BY <1>1, <1>4, StillAccounted DEF Safe, InRam, InHands
<1>6. (\A u \in Tasks : Placed(u)') /\ Publishing'
  BY <1>1 DEF Placed, Publishing, Idle
<1>7. OnlyPlainEventsRace'
  BY <1>1, <1>2 DEF Safe, OnlyPlainEventsRace, Ways
<1> QED
  BY <1>5, <1>6, <1>7 DEF Safe

LEMMA StepSafe == Safe /\ [Next]_vars => Safe'
<1> SUFFICES ASSUME Safe, [Next]_vars PROVE Safe'
  OBVIOUS
<1>1. Types'
  BY StepTypes DEF Safe
<1>2. ASSUME NEW t \in Tasks, Make(t) PROVE Safe'
  BY <1>1, <1>2, MakeSafe
<1>3. ASSUME NEW t \in Tasks, Deliver(t) PROVE Safe'
  BY <1>1, <1>3, LookSafe, AppendSafe, OfferLiveSafe, OfferUrgentSafe, OfferNobodySafe DEF Deliver
<1>4. CASE Connect \/ Disconnect \/ Take \/ PublishOk \/ PublishFails \/ PowerLoss
  BY <1>1, <1>4, SessionSafe, TakeSafe, PublishOkSafe, PublishFailsSafe, PowerLossSafe
<1>5. CASE UNCHANGED vars
  BY <1>1, <1>5 DEF vars, Safe, Placed, Kind, Publishing, Accounted, OnlyPlainEventsRace, Kept, Held, InRam, Lost, Ids
<1> QED
  BY <1>2, <1>3, <1>4, <1>5 DEF Next

\* No record just disappears between the tasks, the queues, the flash and the
\* broker, and the race at emitEvent's two looks at the connection only ever
\* costs plain events (makeRecord, enqueueLive, emitEvent, networkTask).
THEOREM RecordsAccounted == Spec => []NothingDisappears
<1>1. Spec => []Safe
  BY InitSafe, StepSafe, PTL DEF Spec
<1>2. Safe => NothingDisappears
  BY DEF Safe, NothingDisappears
<1> QED
  BY <1>1, <1>2, PTL

-----------------------------------------------------------------------------
(* The events that are stored before anybody is told of them.              *)

\* Lost by the flash or after it, not for being in RAM only.
Gone == UNION {lost[w] : w \in Ways \ {"power", "raced"}}

\* The flash has had it.
Given == Range(stored) \cup forwarded \cup Gone

\* The records in RAM whose task has got past their first append.
Copies == Range(live) \cup Range(urgent) \cup {sending.rec}
            \cup {doing[t].rec : t \in {u \in Tasks : doing[u].at \in {"offer", "fallback"}}}

\* A copy of a write-ahead event is a copy of something the flash has had, and
\* a task that is idle has no record.
Announced ==
    /\ \A r \in Copies \cap Ids : origin[r].kind = "writeAhead" => r \in Given
    /\ \A t \in Tasks : doing[t].at = "idle" => doing[t].rec = 0

LEMMA MoreGone ==
    ASSUME TypeOK, NEW w \in Ways, NEW S \in SUBSET Ids, Losing(w, S), UNCHANGED origin
    PROVE  Gone \subseteq Gone' /\ (w \notin {"power", "raced"} => S \subseteq Gone')
BY MoreLost DEF Gone

LEMMA StillGiven ==
    ASSUME Announced, UNCHANGED origin, Given \subseteq Given',
           \A r \in Copies' \cap Ids : r \in Copies \cup Given' \/ origin[r].kind # "writeAhead"
    PROVE  \A r \in Copies' \cap Ids' : origin'[r].kind = "writeAhead" => r \in Given'
BY DEF Announced, Ids

\* Whether a task moves on or finishes, no other task's record becomes a copy.
LEMMA CopiesOfOne ==
    ASSUME Types, NEW t \in Tasks, UNCHANGED <<live, urgent, sending>>,
           \A u \in Tasks : u # t => doing'[u] = doing[u]
    PROVE  \A r \in Copies' : r \in Copies \/ (r = doing'[t].rec /\ doing'[t].at \in {"offer", "fallback"})
<1>1. ASSUME NEW u \in Tasks, doing'[u].at \in {"offer", "fallback"}, u # t
      PROVE  doing'[u].rec \in Copies
  BY <1>1 DEF Copies
<1>2. ASSUME NEW r \in Copies', r \notin Copies
      PROVE  \E u \in Tasks : doing'[u].at \in {"offer", "fallback"} /\ r = doing'[u].rec
  BY <1>2 DEF Copies
<1> QED
  BY <1>1, <1>2

LEMMA MakeAnnounced == ASSUME Safe, Announced, NEW t \in Tasks, Make(t) PROVE Announced'
<1>1. PICK k \in Kinds[t] : origin' = Append(origin, [task |-> t, kind |-> k])
  BY DEF Make
<1>2. origin \in Seq(Origins) /\ [task |-> t, kind |-> k] \in Origins
  BY TaskAssumption DEF Safe, Types, Origins, Kinds
<1>3. /\ Len(origin') = Len(origin) + 1 /\ Len(origin) \in Nat
      /\ \A r \in Ids : origin'[r] = origin[r]
  BY <1>1, <1>2, AppendProperties, LenProperties DEF Ids
<1>4. /\ doing'[t] = [at |-> "look", rec |-> Len(origin'), stores |-> FALSE]
      /\ \A u \in Tasks : u # t => doing'[u] = doing[u]
      /\ UNCHANGED <<live, urgent, sending, stored, forwarded, lost>>
  BY DEF Make, Safe, Types, TypeOK
<1>5. Given' = Given /\ Copies' \subseteq Copies
  BY <1>4 DEF Given, Gone, Copies
<1>6. Copies \subseteq 0..Len(origin)
  <2>1. Range(live) \subseteq Ids /\ Range(urgent) \subseteq Ids
    BY RangeOfSeq DEF Safe, Types, TypeOK
  <2>2. Ids \subseteq 0..Len(origin)
    BY <1>3 DEF Ids
  <2> QED
    BY <2>1, <2>2 DEF Copies, Safe, Types, TypeOK
<1>7. \A r \in Copies \cap Ids' : r \in Ids
  BY <1>3, <1>6 DEF Ids
<1> QED
  BY <1>3, <1>4, <1>5, <1>7 DEF Announced

LEMMA LookAnnounced == ASSUME Safe, Announced, NEW t \in Tasks, Look(t) PROVE Announced'
<1>1. UNCHANGED <<live, urgent, stored, sending, origin, forwarded, lost>> /\ doing[t].at = "look"
  BY DEF Look
<1>2. PICK a \in {"append", "offer", "fallback"}, s \in BOOLEAN :
         Proceed(t, a, s) /\ (a # "append" => Kind(t) # "writeAhead")
  BY DEF Look
<1>3. /\ doing'[t] = [at |-> a, rec |-> doing[t].rec, stores |-> s]
      /\ \A u \in Tasks : u # t => doing'[u] = doing[u]
  BY <1>1, <1>2, Proceeding DEF Safe
<1>4. Given' = Given
  BY <1>1 DEF Given, Gone
<1>5. \A r \in Copies' : r \in Copies \/ origin[r].kind # "writeAhead"
  BY <1>1, <1>2, <1>3, CopiesOfOne DEF Safe, Kind
<1> QED
  BY <1>1, <1>3, <1>4, <1>5, StillGiven DEF Announced

LEMMA AppendAnnounced ==
    ASSUME Safe, Announced, NEW t \in Tasks, AppendStored(t) \/ AppendRefused(t) PROVE Announced'
<1>0. /\ UNCHANGED <<connected, live, urgent, sending, origin, forwarded>>
      /\ Appending(t) /\ AfterAppend(t) /\ doing[t].rec \in Ids /\ TypeOK
  BY DEF AppendStored, AppendRefused, Appending, Safe, Types, Engaged
<1>1. Given \subseteq Given' /\ doing[t].rec \in Given'
  <2>1. CASE AppendStored(t)
    <3>1. PICK n \in 0..ReclaimUnit :
            /\ n > 0 => Len(stored) > Capacity - ReclaimUnit /\ n <= Len(stored)
            /\ stored' = Append(SubSeq(stored, n + 1, Len(stored)), doing[t].rec)
            /\ Losing("reclaimed", Range(SubSeq(stored, 1, n)))
      BY <2>1 DEF AppendStored
    <3>2. stored \in Seq(Ids) /\ n \in 0..Len(stored)
      BY <1>0, <3>1, LenProperties, SizeAssumption DEF TypeOK
    <3>3. /\ SubSeq(stored, n + 1, Len(stored)) \in Seq(Ids)
          /\ Range(SubSeq(stored, 1, n)) \subseteq Ids
          /\ Range(stored) = Range(SubSeq(stored, 1, n)) \cup Range(SubSeq(stored, n + 1, Len(stored)))
      BY <3>2, RangeSplit
    <3>4. Range(stored') = Range(SubSeq(stored, n + 1, Len(stored))) \cup {doing[t].rec}
      <4>1. ASSUME NEW b \in Seq(Ids), stored' = Append(b, doing[t].rec)
            PROVE  Range(stored') = Range(b) \cup {doing[t].rec}
        BY <1>0, <4>1, RangeAppend
      <4> QED
        BY <3>1, <3>3, <4>1
    <3>5. Gone \subseteq Gone' /\ Range(SubSeq(stored, 1, n)) \subseteq Gone'
      BY <1>0, <3>1, <3>3, MoreGone DEF Ways
    <3> QED
      BY <1>0, <3>3, <3>4, <3>5 DEF Given
  <2>2. CASE AppendRefused(t)
    <3>1. stored' = stored /\ Losing("refused", {doing[t].rec})
      BY <2>2 DEF AppendRefused
    <3>2. Gone \subseteq Gone' /\ doing[t].rec \in Gone'
      BY <1>0, <3>1, MoreGone DEF Ways
    <3> QED
      BY <1>0, <3>1, <3>2 DEF Given
  <2> QED
    BY <2>1, <2>2
<1>2. /\ doing'[t].rec \in {0, doing[t].rec} /\ (doing'[t].at = "idle" => doing'[t].rec = 0)
      /\ \A u \in Tasks : u # t => doing'[u] = doing[u]
  <2>1. CASE doing[t].at = "append"
    <3>1. Proceed(t, "offer", TRUE)
      BY <1>0, <2>1 DEF AfterAppend
    <3>2. /\ doing'[t] = [at |-> "offer", rec |-> doing[t].rec, stores |-> TRUE]
          /\ \A u \in Tasks : u # t => doing'[u] = doing[u]
      BY <1>0, <3>1, Proceeding DEF Safe
    <3> QED
      BY <3>2
  <2>2. CASE doing[t].at # "append"
    BY <1>0, <2>2, Finishing DEF AfterAppend, Safe, Idle
  <2> QED
    BY <2>1, <2>2
<1>3. \A r \in Copies' \cap Ids : r \in Copies \cup Given'
  BY <1>0, <1>1, <1>2, CopiesOfOne DEF Safe, Ids
<1> QED
  BY <1>0, <1>1, <1>2, <1>3, StillGiven DEF Announced

LEMMA OfferAnnounced ==
    ASSUME Safe, Announced, NEW t \in Tasks, OfferLive(t) \/ OfferUrgent(t) \/ OfferNobody(t) PROVE Announced'
<1>0. /\ doing[t].at = "offer" /\ doing[t].rec \in Copies /\ doing[t].rec \in Ids
      /\ UNCHANGED <<stored, sending, origin, forwarded>>
      /\ TypeOK /\ live \in Seq(Ids) /\ urgent \in Seq(Ids)
  BY DEF OfferLive, OfferUrgent, OfferNobody, Copies, Safe, Types, TypeOK, Engaged
<1>1. Gone \subseteq Gone'
  <2>1. CASE OfferNobody(t)
    <3> DEFINE S == IF doing[t].stores THEN {} ELSE {doing[t].rec}
    <3>1. Losing("raced", S) /\ S \in SUBSET Ids
      BY <1>0, <2>1 DEF OfferNobody
    <3> QED
      BY <1>0, <3>1, MoreGone DEF Ways
  <2> QED
    BY <2>1 DEF Gone, OfferLive, OfferUrgent
<1>2. Finish(t) \/ Proceed(t, "fallback", FALSE)
  BY DEF OfferLive, OfferUrgent, OfferNobody
<1>3. /\ doing'[t].rec \in {0, doing[t].rec} /\ (doing'[t].at = "idle" => doing'[t].rec = 0)
      /\ \A u \in Tasks : u # t => doing'[u] = doing[u]
  <2>1. CASE Finish(t)
    BY <1>0, <2>1, Finishing DEF Safe, Idle
  <2>2. CASE Proceed(t, "fallback", FALSE)
    <3>1. /\ doing'[t] = [at |-> "fallback", rec |-> doing[t].rec, stores |-> FALSE]
          /\ \A u \in Tasks : u # t => doing'[u] = doing[u]
      BY <1>0, <2>2, Proceeding DEF Safe
    <3> QED
      BY <3>1
  <2> QED
    BY <1>2, <2>1, <2>2
<1>4. Range(live') \cup Range(urgent') \subseteq Range(live) \cup Range(urgent) \cup {doing[t].rec}
  <2>1. Range(Append(live, doing[t].rec)) = Range(live) \cup {doing[t].rec}
    BY <1>0, RangeAppend
  <2>2. Range(<<doing[t].rec>> \o urgent) = Range(urgent) \cup {doing[t].rec}
    BY <1>0, RangePush
  <2> QED
    BY <2>1, <2>2 DEF OfferLive, OfferUrgent, OfferNobody
<1>5. \A r \in Copies' \cap Ids : r \in Copies
  BY <1>0, <1>3, <1>4 DEF Copies, Ids
<1> QED
  BY <1>0, <1>1, <1>3, <1>5, StillGiven DEF Announced, Given

LEMMA NetworkAnnounced ==
    ASSUME Safe, Announced, Connect \/ Disconnect \/ Take \/ PublishOk \/ PublishFails PROVE Announced'
<1>0. TypeOK /\ live \in Seq(Ids) /\ urgent \in Seq(Ids) /\ stored \in Seq(Ids) /\ UNCHANGED origin
  BY DEF Safe, Types, TypeOK, Connect, Disconnect, Take, PublishOk, PublishFails
<1>1. CASE Connect \/ Disconnect
  BY <1>1 DEF Connect, Disconnect, Announced, Copies, Given, Gone, Ids
<1>2. CASE Take
  <2>1. UNCHANGED <<stored, doing, forwarded, lost>>
    BY <1>2 DEF Take
  <2>2. Range(live') \cup Range(urgent') \cup {sending'.rec} \subseteq Range(live) \cup Range(urgent) \cup Range(stored)
    <3>1. CASE TakeUrgent
      BY <1>0, <3>1, RangeTail DEF TakeUrgent
    <3>2. CASE TakeLive
      BY <1>0, <3>2, RangeTail DEF TakeLive
    <3>3. CASE TakeStored
      BY <1>0, <3>3, RangeTail DEF TakeStored
    <3> QED
      BY <1>2, <3>1, <3>2, <3>3 DEF Take
  <2>3. Given' = Given
    BY <2>1 DEF Given, Gone
  <2>4. \A r \in Copies' \cap Ids : r \in Copies \cup Given'
    BY <2>1, <2>2, <2>3 DEF Copies, Given
  <2> QED
    BY <1>0, <2>1, <2>3, <2>4, StillGiven DEF Announced
<1>3. CASE PublishOk
  <2>1. UNCHANGED <<live, urgent, doing>> /\ sending' = Nothing /\ forwarded' = forwarded \cup {sending.rec}
    BY <1>3 DEF PublishOk
  <2>2. Given \subseteq Given'
    <3>1. CASE UNCHANGED <<stored, lost>>
      BY <2>1, <3>1 DEF Given, Gone
    <3>2. CASE stored # <<>> /\ stored' = Tail(stored) /\ Losing("skipped", {Head(stored)} \ forwarded')
      <4>1. Range(stored) = Range(Tail(stored)) \cup {Head(stored)} /\ Head(stored) \in Ids
        BY <1>0, <3>2, RangeTail
      <4>2. {Head(stored)} \ forwarded' \in SUBSET Ids
        BY <4>1
      <4>3. Gone \subseteq Gone' /\ {Head(stored)} \ forwarded' \subseteq Gone'
        BY <1>0, <3>2, <4>2, MoreGone DEF Ways
      <4> QED
        BY <2>1, <3>2, <4>1, <4>3 DEF Given
    <3> QED
      BY <1>3, <3>1, <3>2 DEF PublishOk
  <2>3. \A r \in Copies' \cap Ids : r \in Copies
    BY <2>1 DEF Copies, Nothing, Ids
  <2> QED
    BY <1>0, <2>1, <2>2, <2>3, StillGiven DEF Announced
<1>4. CASE PublishFails
  <2> DEFINE d == IF sending.from = "flash" THEN Idle ELSE [at |-> "fallback", rec |-> sending.rec, stores |-> FALSE]
  <2>1. /\ UNCHANGED <<live, urgent, stored, lost>> /\ sending' = Nothing
        /\ forwarded \subseteq forwarded' /\ doing' = [doing EXCEPT !["network"] = d]
    BY <1>4 DEF PublishFails
  <2>2. /\ doing'["network"] = d /\ \A u \in Tasks : u # "network" => doing'[u] = doing[u]
        /\ d.at = "idle" => d.rec = 0
        /\ d.rec \in {0, sending.rec}
    BY <2>1, TaskAssumption DEF Safe, Types, TypeOK, Idle
  <2> HIDE DEF d
  <2>3. Given \subseteq Given'
    BY <2>1 DEF Given, Gone
  <2>4. \A r \in Copies' \cap Ids : r \in Copies
    BY <2>1, <2>2 DEF Copies, Nothing, Ids
  <2> QED
    BY <1>0, <2>2, <2>3, <2>4, StillGiven DEF Announced
<1> QED
  BY <1>1, <1>2, <1>3, <1>4

LEMMA PowerLossAnnounced == ASSUME Safe, Announced, PowerLoss PROVE Announced'
<1>1. /\ live' = <<>> /\ urgent' = <<>> /\ sending' = Nothing /\ doing' = [t \in Tasks |-> Idle]
  BY DEF PowerLoss
<1>2. Copies' \subseteq {0}
  <2>1. Range(live') = {} /\ Range(urgent') = {}
    BY <1>1, DOMAIN <<>> = {} DEF Range
  <2>2. sending'.rec = 0 /\ \A t \in Tasks : doing'[t].rec = 0
    BY <1>1 DEF Idle, Nothing
  <2> QED
    BY <2>1, <2>2 DEF Copies
<1> QED
  BY <1>1, <1>2 DEF Announced, Ids, Idle

LEMMA StepAnnounced == Safe /\ Announced /\ [Next]_vars => Announced'
<1> SUFFICES ASSUME Safe, Announced, [Next]_vars PROVE Announced'
  OBVIOUS
<1>1. ASSUME NEW t \in Tasks, Make(t) \/ Deliver(t) PROVE Announced'
  BY <1>1, MakeAnnounced, LookAnnounced, AppendAnnounced, OfferAnnounced DEF Deliver
<1>2. CASE Connect \/ Disconnect \/ Take \/ PublishOk \/ PublishFails \/ PowerLoss
  BY <1>2, NetworkAnnounced, PowerLossAnnounced
<1>3. CASE UNCHANGED vars
  BY <1>3 DEF vars, Announced, Copies, Given, Gone, Ids
<1> QED
  BY <1>1, <1>2, <1>3 DEF Next

\* Only a power loss takes records with the RAM, and of those none that is stored.
LEMMA PowerTakes ==
    ASSUME Safe, Next, NEW r \in lost'["power"] \ lost["power"]
    PROVE  r \in InRam \cap Ids /\ r \notin Range(stored) \cup forwarded
<1>0. TypeOK /\ lost \in [Ways -> SUBSET Ids] /\ "power" \in Ways
  BY DEF Safe, Types, TypeOK, Ways
<1>1. ASSUME NEW w \in Ways \ {"power"}, NEW S, Losing(w, S) PROVE FALSE
  BY <1>0, <1>1 DEF Losing
<1>2. ASSUME NEW t \in Tasks, Make(t) \/ Deliver(t) PROVE FALSE
  <2>1. Make(t) \/ Look(t) \/ OfferLive(t) \/ OfferUrgent(t) => FALSE
    BY DEF Make, Look, OfferLive, OfferUrgent
  <2>2. AppendStored(t) \/ AppendRefused(t) \/ OfferNobody(t) => FALSE
    BY <1>1 DEF AppendStored, AppendRefused, OfferNobody, Ways
  <2> QED
    BY <1>2, <2>1, <2>2 DEF Deliver
<1>3. ~(Connect \/ Disconnect \/ Take \/ PublishOk \/ PublishFails)
  BY <1>1 DEF Connect, Disconnect, Take, PublishOk, PublishFails, Ways
<1>4. PowerLoss
  BY <1>2, <1>3 DEF Next
<1>5. lost'["power"] = lost["power"] \cup (InRam \ (forwarded \cup Range(stored) \cup {0}))
  BY <1>0, <1>4 DEF PowerLoss
<1>6. \A x \in InRam : x \in Ids \cup {0}
  <2>1. Range(live) \subseteq Ids /\ Range(urgent) \subseteq Ids /\ Len(origin) \in Nat
    BY RangeOfSeq, LenProperties DEF Safe, Types, TypeOK
  <2> QED
    BY <2>1 DEF InRam, Safe, Types, TypeOK, Ids
<1> QED
  BY <1>5, <1>6

\* Whoever has returned from emitEvent with a write-ahead event need not fear the power
\* loss that it announces (emitEvent, powerTask, PowerMonitor).
THEOREM WriteAheadSafe == Spec => WriteAheadKept
<1> DEFINE Step == \A r \in lost'["power"] \ lost["power"] :
                      origin[r].kind = "writeAhead" =>
                         \/ \E t \in Tasks : doing[t].rec = r /\ doing[t].at \in {"look", "append"}
                         \/ r \in UNION {lost[w] : w \in Ways \ {"power", "raced"}}
<1>1. Init => Announced
  BY DEF Init, Announced, Copies, Idle, Nothing, Ids
<1>2. Safe /\ Announced /\ [Next]_vars => [Step]_vars
  <2> SUFFICES ASSUME Safe, Announced, Next, NEW r \in lost'["power"] \ lost["power"],
                      origin[r].kind = "writeAhead",
                      \A t \in Tasks : ~(doing[t].rec = r /\ doing[t].at \in {"look", "append"})
               PROVE  r \in Gone
    BY DEF Gone
  <2>1. r \in InRam \cap Ids /\ r \notin Range(stored) \cup forwarded
    BY PowerTakes
  <2>2. r \in Copies
    BY <2>1 DEF InRam, Copies, Announced, Ids, Safe, Types, TypeOK
  <2> QED
    BY <2>1, <2>2 DEF Announced, Given
<1> QED
  BY <1>1, <1>2, InitSafe, StepSafe, StepAnnounced, PTL DEF Spec, WriteAheadKept
=============================================================================
