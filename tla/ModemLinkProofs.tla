--------------------------- MODULE ModemLinkProofs ---------------------------
(***************************************************************************)
(* A session the firmware uses is the production client's, however late    *)
(* the modem answers and however often it fails.                           *)
(***************************************************************************)
EXTENDS ModemLink, SequenceTheorems, TLAPS

-----------------------------------------------------------------------------
(* Sequences whose elements have no type.                                  *)

IsSeq(s) == Len(s) \in Nat /\ s = [i \in 1..Len(s) |-> s[i]]

LEMMA SeqOf ==
    ASSUME NEW s, IsSeq(s)
    PROVE  s \in Seq({s[i] : i \in 1..Len(s)})
  BY SeqDef DEF IsSeq

LEMMA AnySeq ==
    ASSUME NEW S, NEW s \in Seq(S)
    PROVE  IsSeq(s)
  BY DEF IsSeq

LEMMA EmptyIsSeq == IsSeq(<<>>) /\ Len(<<>>) = 0
  BY DEF IsSeq

LEMMA Appends ==
    ASSUME NEW s, IsSeq(s), NEW x
    PROVE  /\ IsSeq(Append(s, x)) /\ Len(Append(s, x)) = Len(s) + 1
           /\ \A i \in 1..Len(s) : Append(s, x)[i] = s[i]
           /\ Append(s, x)[Len(s) + 1] = x
<1> DEFINE S == {s[i] : i \in 1..Len(s)}
<1>1. s \in Seq(S \cup {x})
  <2>1. s \in [1..Len(s) -> S \cup {x}]
    BY DEF IsSeq
  <2> QED BY <2>1, SeqDef DEF IsSeq
<1>2. x \in S \cup {x}
  OBVIOUS
<1> HIDE DEF S
<1>3. Append(s, x) \in Seq(S \cup {x})
  BY <1>1, <1>2
<1>4. IsSeq(Append(s, x))
  BY <1>3, AnySeq
<1> QED BY <1>1, <1>2, <1>4

LEMMA Empties ==
    ASSUME NEW s, IsSeq(s)
    PROVE  s = <<>> <=> Len(s) = 0
  BY DEF IsSeq

LEMMA Pops ==
    ASSUME NEW s, IsSeq(s), s # <<>>
    PROVE  /\ Len(s) \in Nat /\ Len(s) >= 1 /\ Head(s) = s[1]
           /\ IsSeq(Tail(s)) /\ Len(Tail(s)) = Len(s) - 1
           /\ \A i \in 1..(Len(s) - 1) : Tail(s)[i] = s[i + 1]
<1> DEFINE S == {s[i] : i \in 1..Len(s)}
<1>1. s \in Seq(S)
  BY SeqOf
<1> HIDE DEF S
<1>2. Tail(s) \in Seq(S) /\ Head(s) = s[1] /\ Len(Tail(s)) = Len(s) - 1
      /\ \A i \in 1..(Len(s) - 1) : Tail(s)[i] = s[i + 1]
  BY <1>1, HeadTailProperties
<1>3. IsSeq(Tail(s))
  BY <1>2, AnySeq
<1>4. Len(s) \in Nat /\ Len(s) # 0
  BY Empties DEF IsSeq
<1> QED BY <1>2, <1>3, <1>4

LEMMA AppendsTwo ==
    ASSUME NEW s, IsSeq(s), NEW x, NEW y
    PROVE  /\ IsSeq(s \o <<x, y>>) /\ Len(s \o <<x, y>>) = Len(s) + 2
           /\ \A i \in 1..Len(s) : (s \o <<x, y>>)[i] = s[i]
           /\ (s \o <<x, y>>)[Len(s) + 1] = x
           /\ (s \o <<x, y>>)[Len(s) + 2] = y
<1> DEFINE S == {s[i] : i \in 1..Len(s)}
           T == S \cup {x, y}
<1>1. s \in Seq(T)
  <2>1. s \in [1..Len(s) -> T]
    BY DEF IsSeq
  <2> QED BY <2>1, SeqDef DEF IsSeq
<1>2. <<x, y>> \in Seq(T)
  OBVIOUS
<1> HIDE DEF T
<1>3. s \o <<x, y>> \in Seq(T)
  BY <1>1, <1>2
<1>4. IsSeq(s \o <<x, y>>)
  BY <1>3, AnySeq
<1> QED BY <1>1, <1>2, <1>4

LEMMA Maps ==
    ASSUME NEW s, IsSeq(s), NEW t, t = [i \in DOMAIN s |-> t[i]]
    PROVE  IsSeq(t) /\ Len(t) = Len(s) /\ DOMAIN s = 1..Len(s)
<1>1. DOMAIN s = 1..Len(s) /\ Len(s) \in Nat
  BY DEF IsSeq
<1>2. t \in [1..Len(s) -> {t[i] : i \in 1..Len(s)}]
  BY <1>1
<1>3. t \in Seq({t[i] : i \in 1..Len(s)}) /\ Len(t) = Len(s)
  BY <1>1, <1>2, SeqDef
<1> QED BY <1>1, <1>3, AnySeq

-----------------------------------------------------------------------------
(* The programs.                                                           *)

\* What the task runs while it has a session.
Everyday == {"subscribe", "timestamp", "publish", "rssi"}

\* The commands and texts that leave the client, the authmode and the SNI of a
\* production session alone.
Harmless == {"CCLK", "CSQ", "SUBTOPIC", "TOPIC", "PAYLOAD", "SUB", "PUB",
             "topic", "payload", "other_text", "rest",
             "SNI_on", "files", "START", "ACCQ_prod", "SSLCFG", "CONNECT"}

\* at_mqtt_connect, step by step.
LEMMA ConnectSteps ==
    LET P == Program("connect")
    IN  /\ Len(P) = 12
        /\ \A i \in 1..12 : P[i].cmd \notin Prompts \cup Retried /\ P[i].how \in {"cmd", "two"}
        /\ P[1].cmd = "DISC"
        /\ P[6] = Must("authmode_2") /\ P[7] = Must("SNI_on") /\ P[10] = Must("ACCQ_prod")
        /\ P[12] = TwoStage("CONNECT")
        /\ \A i \in 7..12 : P[i].cmd \in Harmless
<1> DEFINE R == <<Exchange("cmd", "CCERTLIST", {"silent"}), May("CCLK"), Must("authmode_2"), Must("SNI_on"),
                  Must("files"), Exchange("two", "START", {"refused"}), Must("ACCQ_prod"), Must("SSLCFG"),
                  TwoStage("CONNECT")>>
<1>1. Program("connect") = <<May("DISC"), May("REL"), May("STOP")>> \o R
  BY DEF Program, MqttConnect, Teardown
<1> DEFINE P == <<May("DISC"), May("REL"), May("STOP"), R[1], R[2], R[3], R[4], R[5], R[6], R[7], R[8], R[9]>>
<1>2. Program("connect") = P
  BY <1>1
<1> QED BY <1>2 DEF Exchange, May, Must, TwoStage, Prompts, Retried, Harmless

\* What is run with a session sends nothing that harms it.
LEMMA EverydaySteps ==
    ASSUME NEW p \in Everyday
    PROVE  /\ Len(Program(p)) \in 1..3
           /\ \A i \in 1..Len(Program(p)) : Program(p)[i].cmd \in Harmless \ Retried
<1>1. CASE p = "subscribe"
  <2>1. Program(p) = <<Prompted("SUBTOPIC"), TwoStage("SUB")>>
    BY <1>1 DEF Program
  <2> QED BY <2>1 DEF Exchange, Prompted, TwoStage, Harmless, Retried
<1>2. CASE p = "timestamp"
  <2>1. Program(p) = <<Ask("CCLK")>>
    BY <1>2 DEF Program
  <2> QED BY <2>1 DEF Exchange, Ask, Harmless, Retried
<1>3. CASE p = "rssi"
  <2>1. Program(p) = <<Ask("CSQ")>>
    BY <1>3 DEF Program
  <2> QED BY <2>1 DEF Exchange, Ask, Harmless, Retried
<1>4. CASE p = "publish"
  <2>1. Program(p) = <<Prompted("TOPIC"), Prompted("PAYLOAD"), TwoStage("PUB")>>
    BY <1>4 DEF Program
  <2> QED BY <2>1 DEF Exchange, Prompted, TwoStage, Harmless, Retried
<1> QED BY <1>1, <1>2, <1>3, <1>4 DEF Everyday

\* What the task goes on with after it.
LEMMA NextPrograms ==
    /\ \A p \in Everyday, ok \in BOOLEAN : Following(p, ok) \in {"timestamp", "idle"}
    /\ Following("connect", TRUE) = "subscribe"
<1>1. DOMAIN Diagnosis \cap (Everyday \cup {"connect"}) = {}
  BY DEF Diagnosis, Everyday
<1>2. DOMAIN DiagnosisFails \cap (Everyday \cup {"connect"}) = {}
  BY DEF DiagnosisFails, Everyday
<1> QED BY <1>1, <1>2 DEF Following, Successor, Alternative, Everyday

-----------------------------------------------------------------------------
(* The inductive invariant.                                                *)

\* The records and sequences of the state, and what the task may wait for.
ModemType ==
    [started : BOOLEAN, client : {"none", "ACCQ_prod", "ACCQ_diag"}, session : BOOLEAN,
     authmode : {"authmode_0", "authmode_2", "authmode_3"}, sni : BOOLEAN,
     asks : {"none"} \cup Prompts, topic : {"none"} \cup Texts, payload : {"none"} \cup Texts,
     busy : {"none"} \cup TwoStageCmds, sending : {"none"} \cup Texts]

Entry(x) == x = [cmd |-> x.cmd, old |-> x.old] /\ x.old \in BOOLEAN

TypeOK ==
    /\ IsSeq(uart) /\ IsSeq(inbox) /\ \A i \in 1..Len(inbox) : Entry(inbox[i])
    /\ modem \in ModemType
    /\ task = [prog |-> task.prog, step |-> task.step, wait |-> task.wait]
    /\ task.prog \in Everyday \cup {"connect"} => task.step \in 1..Len(Program(task.prog))
    /\ task.prog = "idle" <=> task.wait = "none"
    /\ task.prog = "connect" => task.wait \in {"send", "line"} \/ (task.wait = "urc" /\ Now.how = "two")
    /\ connected \in BOOLEAN /\ disturbed \in BOOLEAN

\* Once an exchange is over, all the modem still owes belongs to the past.
AllOld == task.wait \in {"send", "none"} => \A i \in 1..Len(inbox) : inbox[i].old

\* What is in the inbox cannot spoil a production session.
OnlyHarmless == \A i \in 1..Len(inbox) : inbox[i].cmd \in Harmless

Prod == modem.client = "ACCQ_prod" /\ modem.authmode = "authmode_2" /\ modem.sni

\* The command that is being answered is the last that was written.
Answers(c) == c = Now.cmd \/ (c = "rest" /\ Now.cmd \in Queries)
FreshLast ==
    \A i \in 1..Len(inbox) :
        ~inbox[i].old => i = Len(inbox) /\ Answers(inbox[i].cmd)

\* Whatever swallows a command for a text has swallowed the first one of the
\* attempt, at the latest: no prompt is open behind it.
DiscAfter(n) == \E j \in 1..Len(inbox) : j > n /\ inbox[j].cmd = "DISC"
PromptsBefore ==
    /\ modem.asks # "none" => DiscAfter(0)
    /\ \A i \in 1..Len(inbox) : inbox[i].cmd \in Prompts => DiscAfter(i)

\* What a command that the modem has carried out leaves behind.
Done(c) ==
    /\ c = "authmode_2" => modem.authmode = c
    /\ c = "SNI_on" => modem.sni
    /\ c = "ACCQ_prod" => modem.client = c

FreshOK == \E i \in 1..Len(uart) : uart[i].text = "OK" /\ ~uart[i].old

\* at_mqtt_connect: an OK that belongs to the command says that it was carried
\* out, and by then the modem has done with everything older.
Configured ==
    /\ task.step > 6 => modem.authmode = "authmode_2" /\ OnlyHarmless
    /\ task.step > 7 => modem.sni
    /\ task.step > 10 => modem.client = "ACCQ_prod"
Answered ==
    /\ task.step > 1 \/ task.wait # "send" => PromptsBefore
    /\ task.wait # "send" => FreshLast
    /\ task.wait = "line" /\ FreshOK => inbox = <<>> /\ Done(Now.cmd)
Connecting == task.prog = "connect" /\ ~disturbed => Configured /\ Answered

\* With a session the task runs what does no harm to it.
Settled == connected => task.prog \in Everyday \cup {"idle"}
Production == connected /\ ~disturbed => Prod /\ OnlyHarmless

IInv == TypeOK /\ AllOld /\ Connecting /\ Settled /\ Production

LEMMA InitHolds == Init => IInv
<1> SUFFICES ASSUME Init PROVE IInv
  OBVIOUS
<1>1. modem \in ModemType
  BY DEF Init, Off, ModemType
<1>2. IsSeq(uart) /\ IsSeq(inbox) /\ Len(inbox) = 0
  BY EmptyIsSeq DEF Init
<1>3. task = [prog |-> "idle", step |-> 0, wait |-> "none"]
  BY DEF Init, Idle
<1>4. task.prog = "idle" /\ task.wait = "none"
      /\ task = [prog |-> task.prog, step |-> task.step, wait |-> task.wait]
  BY <1>3
<1>5. \A i \in 1..Len(inbox) : FALSE
  BY <1>2
<1>6. connected \in BOOLEAN /\ disturbed \in BOOLEAN
  BY DEF Init
<1>7. task.prog \notin Everyday \cup {"connect"}
  BY <1>4 DEF Everyday
<1>8. TypeOK
  BY <1>1, <1>2, <1>4, <1>5, <1>6, <1>7, Zenon DEF TypeOK
<1> QED BY <1>2, <1>4, <1>8 DEF Init, IInv, AllOld, Connecting, Settled, Production

\* The session the invariant speaks of is the one of the property.
LEMMA InvariantSuffices == IInv => ProductionSession
  BY DEF IInv, Production, Prod, ProductionSession

-----------------------------------------------------------------------------
(* The modem's steps.                                                      *)

\* An entry of the inbox that has stayed, or has been answered with its value.
Same(x, y) ==
    /\ Entry(x) /\ x.old = y.old
    /\ x.cmd = y.cmd \/ (x.cmd = "rest" /\ y.cmd \in Queries)

\* The modem keeps the invariant if it takes its inbox from the front, if harmless
\* commands do no harm, if it asks for a text only while the first command of the
\* attempt is still to come, and if it says OK to a command it has carried out.
LEMMA ModemKeeps ==
    ASSUME IInv, UNCHANGED <<task, connected, disturbed>>,
           IsSeq(uart'), IsSeq(inbox'), modem' \in ModemType,
           NEW k \in {0, 1}, Len(inbox') = Len(inbox) - k,
           \A i \in 1..Len(inbox') : Same(inbox'[i], inbox[i + k]),
           OnlyHarmless /\ modem.authmode = "authmode_2" => modem'.authmode = "authmode_2",
           OnlyHarmless /\ modem.sni => modem'.sni,
           OnlyHarmless /\ modem.client = "ACCQ_prod" => modem'.client = "ACCQ_prod",
           PromptsBefore /\ modem'.asks # "none" => DiscAfter(k),
           task.prog = "connect" /\ ~disturbed /\ Answered /\ task.wait = "line" /\ FreshOK' =>
               inbox' = <<>> /\ Done(Now.cmd)'
    PROVE  IInv'
<1>1. Now' = Now
  BY DEF Now
<1>2. Len(inbox) \in Nat /\ Len(inbox') \in Nat
  BY DEF IInv, TypeOK, IsSeq
<1>3. \A i \in 1..Len(inbox') : i + k \in 1..Len(inbox)
  BY <1>2
<1>4. TypeOK'
  <2>1. \A i \in 1..Len(inbox') : Entry(inbox'[i])
    BY DEF Same
  <2>2. (\A i \in 1..Len(inbox) : Entry(inbox[i]))'
    BY <2>1 DEF Entry
  <2> QED BY <1>1, <2>2 DEF IInv, TypeOK
<1>5. AllOld'
  BY <1>2, <1>3 DEF IInv, AllOld, Same
<1>6. OnlyHarmless => OnlyHarmless'
  BY <1>3 DEF OnlyHarmless, Same, Harmless
<1>7. Production' /\ Settled'
  BY <1>6 DEF IInv, Production, Prod, Settled
<1>8. ASSUME task.prog = "connect", ~disturbed
      PROVE  Configured' /\ Answered'
  <2>1. Configured /\ Answered
    BY <1>8 DEF IInv, Connecting
  <2>2. Configured'
    <3>1. task.step \in 1..12
      BY <1>8, ConnectSteps DEF IInv, TypeOK
    <3> QED BY <1>6, <2>1, <3>1 DEF Configured
  <2>3. FreshLast => FreshLast'
    BY <1>1, <1>2, <1>3 DEF FreshLast, Same, Answers, Queries
  <2>4. PromptsBefore => PromptsBefore'
    <3>1. \A n \in 1..Len(inbox') \cup {0} : DiscAfter(n + k) => DiscAfter(n)'
      <4> SUFFICES ASSUME NEW n \in 1..Len(inbox') \cup {0}, DiscAfter(n + k)
                   PROVE  DiscAfter(n)'
        OBVIOUS
      <4>1. PICK j \in 1..Len(inbox) : j > n + k /\ inbox[j].cmd = "DISC"
        BY DEF DiscAfter
      <4>2. j - k \in 1..Len(inbox') /\ j - k > n /\ (j - k) + k = j
        BY <1>2, <4>1
      <4>3. Same(inbox'[j - k], inbox[j])
        BY <4>2
      <4>4. inbox'[j - k].cmd = "DISC"
        BY <4>1, <4>3 DEF Same, Queries
      <4> QED BY <4>2, <4>4 DEF DiscAfter
    <3>2. ASSUME PromptsBefore, NEW i \in 1..Len(inbox'), inbox'[i].cmd \in Prompts
          PROVE  DiscAfter(i)'
      <4>1. inbox[i + k].cmd \in Prompts
        BY <3>2 DEF Same, Prompts
      <4>2. DiscAfter(i + k)
        BY <1>3, <3>2, <4>1 DEF PromptsBefore
      <4> QED BY <3>1, <4>2
    <3>3. ASSUME PromptsBefore, modem'.asks # "none"
          PROVE  DiscAfter(0)'
      BY <3>1, <3>3
    <3> QED BY <3>2, <3>3 DEF PromptsBefore
  <2>5. task'.wait = "line" /\ FreshOK' => inbox' = <<>> /\ Done(Now.cmd)'
    BY <1>8, <2>1
  <2> QED BY <2>1, <2>2, <2>3, <2>4, <2>5 DEF Answered
<1> QED BY <1>4, <1>5, <1>7, <1>8 DEF IInv, Connecting

\* A command that harms nothing.
LEMMA HarmlessApplies ==
    ASSUME modem \in ModemType, NEW c
    PROVE  /\ Applied(c) \in ModemType
           /\ c \in Harmless =>
                  /\ Applied(c).client \in {modem.client, "ACCQ_prod"}
                  /\ Applied(c).authmode = modem.authmode
                  /\ Applied(c).sni \in {modem.sni, TRUE}
           /\ c = "authmode_2" => Applied(c).authmode = c
           /\ c = "SNI_on" => Applied(c).sni
           /\ c = "ACCQ_prod" => Applied(c).client = c
           /\ Applied(c).asks = IF c \in Prompts THEN c ELSE modem.asks
<1>1. CASE c = "DISC" \/ c = "REL" \/ c = "STOP"
  BY <1>1 DEF Applied, ModemType, Harmless, Prompts
<1>2. CASE c = "START"
  BY <1>2 DEF Applied, ModemType, Harmless, Prompts, TwoStageCmds
<1>3. CASE c \in {"ACCQ_prod", "ACCQ_diag"}
  BY <1>3 DEF Applied, ModemType, Harmless, Prompts
<1>4. CASE c \in {"authmode_0", "authmode_2", "authmode_3"}
  BY <1>4 DEF Applied, ModemType, Harmless, Prompts
<1>5. CASE c \in {"SNI_on", "SNI_off"}
  BY <1>5 DEF Applied, ModemType, Harmless, Prompts
<1>6. CASE c \in Prompts
  BY <1>6 DEF Applied, ModemType, Harmless, Prompts
<1>7. CASE c \in {"CONNECT", "SUB", "CDNSGIP", "HTTPACTION", "HTTPREAD"}
  BY <1>7 DEF Applied, ModemType, Harmless, Prompts, TwoStageCmds
<1>8. CASE c = "PUB"
  BY <1>8 DEF Applied, ModemType, Harmless, Prompts, TwoStageCmds
<1>9. CASE c \notin {"DISC", "REL", "STOP", "START", "ACCQ_prod", "ACCQ_diag", "authmode_0",
                    "authmode_2", "authmode_3", "SNI_on", "SNI_off", "CONNECT", "SUB",
                    "CDNSGIP", "HTTPACTION", "HTTPREAD", "PUB"} \cup Prompts
  <2>1. Applied(c) = modem
    BY <1>9 DEF Applied
  <2> QED BY <1>9, <2>1
<1> QED BY <1>1, <1>2, <1>3, <1>4, <1>5, <1>6, <1>7, <1>8, <1>9

\* Lines that are not OK leave what was read of it.
LEMMA NoNewOK ==
    ASSUME IsSeq(uart), IsSeq(uart'), Len(uart') >= Len(uart),
           \A i \in 1..Len(uart) : uart'[i] = uart[i],
           \A i \in 1..Len(uart') : i > Len(uart) => uart'[i].text # "OK" \/ uart'[i].old
    PROVE  FreshOK' => FreshOK
  BY DEF FreshOK, IsSeq

\* The command that is being answered is the last in the inbox.
LEMMA FreshHead ==
    ASSUME IsSeq(inbox), inbox # <<>>, FreshLast, ~inbox[1].old
    PROVE  /\ Tail(inbox) = <<>> /\ Len(inbox) = 1
           /\ Answers(inbox[1].cmd)
<1>1. PICK t : /\ t = Tail(inbox) /\ Len(inbox) \in Nat /\ Len(inbox) >= 1
               /\ IsSeq(t) /\ Len(t) = Len(inbox) - 1
  BY Pops
<1>2. Len(inbox) \in Nat /\ Len(inbox) >= 1 /\ IsSeq(t) /\ Len(t) = Len(inbox) - 1
  BY <1>1
<1>3. 1 = Len(inbox) /\ Answers(inbox[1].cmd)
  <2>1. 1 \in 1..Len(inbox)
    BY <1>2
  <2> QED BY <2>1 DEF FreshLast
<1>4. t = <<>>
  <2>1. ASSUME NEW m, NEW n, m = 1, n = m - 1 PROVE n = 0
    BY <2>1
  <2>2. Len(t) = 0
    BY <1>2, <1>3, <2>1, Zenon
  <2> QED BY <1>2, <2>2, Empties
<1> QED BY <1>1, <1>3, <1>4

\* What the task waits for in at_mqtt_connect is not a text.
LEMMA Connects ==
    ASSUME TypeOK, task.prog = "connect"
    PROVE  /\ task.step \in 1..12 /\ Now.cmd \notin Prompts \cup Retried
           /\ Now.how \in {"cmd", "two"}
           /\ task.step = 1 => Now.cmd = "DISC"
           /\ task.step = 6 => Now = Must("authmode_2")
           /\ task.step = 7 => Now = Must("SNI_on")
           /\ task.step = 10 => Now = Must("ACCQ_prod")
           /\ task.step = 12 => Now = TwoStage("CONNECT")
           /\ task.step > 6 => Now.cmd \in Harmless
<1>1. task.step \in 1..12 /\ Now = Program("connect")[task.step]
  BY ConnectSteps DEF TypeOK, Now
<1> QED BY <1>1, ConnectSteps

LEMMA CarryKeeps == IInv /\ Carry => IInv'
<1> SUFFICES ASSUME IInv, Carry PROVE IInv'
  OBVIOUS
<1> PICK c : c = inbox[1].cmd
  OBVIOUS
<1>1. /\ IsSeq(inbox) /\ IsSeq(uart) /\ modem \in ModemType /\ TypeOK
      /\ \A i \in 1..Len(inbox) : Entry(inbox[i])
  BY DEF IInv, TypeOK
<1>2. inbox # <<>>
  BY DEF Carry
<1>n. Len(inbox) \in Nat
  BY <1>1 DEF IsSeq
<1>3. /\ Len(inbox) \in Nat /\ Len(inbox) >= 1 /\ Head(inbox) = inbox[1] /\ IsSeq(Tail(inbox))
      /\ Len(Tail(inbox)) = Len(inbox) - 1
      /\ \A i \in 1..(Len(inbox) - 1) : Tail(inbox)[i] = inbox[i + 1]
  BY <1>1, <1>2, Pops
<1>4. /\ modem' = Applied(c) /\ UNCHANGED <<task, connected, disturbed>>
      /\ modem.asks = "none" \/ c = "rest"
  BY <1>3 DEF Carry, modemOnly, history
<1>5. OnlyHarmless => c \in Harmless
  BY <1>3 DEF OnlyHarmless
<1>6. /\ modem' \in ModemType
      /\ OnlyHarmless /\ modem.authmode = "authmode_2" => modem'.authmode = "authmode_2"
      /\ OnlyHarmless /\ modem.sni => modem'.sni
      /\ OnlyHarmless /\ modem.client = "ACCQ_prod" => modem'.client = "ACCQ_prod"
      /\ modem'.asks = IF c \in Prompts THEN c ELSE modem.asks
      /\ Done(c)'
  BY <1>1, <1>4, <1>5, HarmlessApplies DEF Done
<1>7. Now' = Now
  BY <1>4 DEF Now
<1>8. CASE c \in Queries
  <2> DEFINE t == [inbox EXCEPT ![1].cmd = "rest"]
             l == Line(c, inbox[1].old)
  <2>1. uart' = Append(uart, l) /\ inbox' = t
    BY <1>3, <1>8 DEF Carry
  <2>2. t = [i \in DOMAIN inbox |-> t[i]]
    BY <1>1, <1>3 DEF IsSeq
  <2>3. IsSeq(t) /\ Len(t) = Len(inbox) /\ DOMAIN inbox = 1..Len(inbox)
    BY <1>1, <2>2, Maps
  <2>4. \A i \in 1..Len(t) : Same(t[i], inbox[i + 0])
    <3> SUFFICES ASSUME NEW i \in 1..Len(t) PROVE Same(t[i], inbox[i])
      OBVIOUS
    <3>1. CASE i = 1
      <4>1. inbox[1] = [cmd |-> inbox[1].cmd, old |-> inbox[1].old] /\ inbox[1].old \in BOOLEAN
        BY <1>1, <1>3 DEF Entry
      <4>2. t[1] = [inbox[1] EXCEPT !.cmd = "rest"]
        BY <1>3, <2>3
      <4>3. t[1] = [cmd |-> "rest", old |-> inbox[1].old]
        BY <4>1, <4>2
      <4> QED BY <1>8, <3>1, <4>1, <4>3 DEF Same, Entry
    <3>2. CASE i # 1
      BY <1>1, <2>3, <3>2 DEF Same
    <3> QED BY <3>1, <3>2
  <2>5. PromptsBefore /\ modem'.asks # "none" => DiscAfter(0)
    BY <1>6, <1>8 DEF PromptsBefore, Queries, Prompts
  <2>6. IsSeq(uart') /\ (FreshOK' => FreshOK)
    <3> HIDE DEF l
    <3>1. l.text # "OK"
      BY <1>8 DEF l, Line, Queries
    <3>2. /\ IsSeq(uart') /\ Len(uart') = Len(uart) + 1 /\ Len(uart) \in Nat
          /\ \A i \in 1..Len(uart) : uart'[i] = uart[i]
          /\ uart'[Len(uart) + 1] = l
      BY <1>1, <2>1, Appends DEF IsSeq
    <3> QED BY <1>1, <3>1, <3>2, NoNewOK
  <2>7. ~(Answered /\ task.wait = "line" /\ FreshOK)
    BY <1>2 DEF Answered
  <2> HIDE DEF t
  <2> QED BY <1>4, <1>6, <2>1, <2>3, <2>4, <2>5, <2>6, <2>7, ModemKeeps
<1>9. CASE c \notin Queries
  <2> DEFINE l == IF c \in Prompts THEN Line(">", FALSE) ELSE Line("OK", inbox[1].old)
  <2>1. uart' = Append(uart, l) /\ inbox' = Tail(inbox)
    BY <1>3, <1>9 DEF Carry
  <2>2. \A i \in 1..(Len(inbox) - 1) : Same(Tail(inbox)[i], inbox[i + 1])
    BY <1>1, <1>3 DEF Same
  <2>3. ASSUME PromptsBefore, modem'.asks # "none" PROVE DiscAfter(1)
    <3>1. CASE c \in Prompts
      BY <1>3, <2>3, <3>1 DEF PromptsBefore
    <3>2. CASE c \notin Prompts
      <4>1. modem.asks # "none" /\ c = "rest"
        BY <1>4, <1>6, <2>3, <3>2
      <4>2. PICK j \in 1..Len(inbox) : inbox[j].cmd = "DISC"
        BY <2>3, <4>1 DEF PromptsBefore, DiscAfter
      <4>3. j # 1
        BY <4>1, <4>2
      <4>4. j > 1
        BY <1>n, <4>3
      <4> QED BY <4>2, <4>4 DEF DiscAfter
    <3> QED BY <3>1, <3>2
  <2>4. ASSUME task.prog = "connect", ~disturbed, Answered, task.wait = "line", FreshOK'
        PROVE  inbox' = <<>> /\ Done(Now.cmd)'
    <3>1. ~FreshOK /\ FreshLast
      BY <1>2, <2>4 DEF Answered
    <3> HIDE DEF l
    <3>2. /\ IsSeq(uart') /\ Len(uart') = Len(uart) + 1 /\ Len(uart) \in Nat
          /\ \A i \in 1..Len(uart) : uart'[i] = uart[i]
          /\ uart'[Len(uart) + 1] = l
      BY <1>1, <2>1, Appends DEF IsSeq
    <3>3. ~(l.text # "OK" \/ l.old)
      BY <1>1, <2>4, <3>1, <3>2, NoNewOK
    <3>4. ~inbox[1].old
      BY <3>3 DEF l, Line
    <3>5. Tail(inbox) = <<>> /\ Answers(c)
      BY <1>1, <1>2, <3>1, <3>4, FreshHead
    <3>6. CASE c = Now.cmd
      <4>1. Done(c)' <=> Done(Now.cmd)'
        BY <1>7, <3>6 DEF Done
      <4> QED BY <1>6, <2>1, <3>5, <4>1
    <3>7. CASE Now.cmd \in Queries
      <4>1. Done(Now.cmd)'
        BY <1>7, <3>7 DEF Done, Queries
      <4> QED BY <2>1, <3>5, <4>1
    <3> QED BY <3>5, <3>6, <3>7 DEF Answers
  <2>5. IsSeq(uart')
    BY <1>1, <2>1, Appends
  <2> HIDE DEF l
  <2> QED BY <1>3, <1>4, <1>6, <2>1, <2>2, <2>3, <2>4, <2>5, ModemKeeps
<1> QED BY <1>8, <1>9

\* The modem takes an entry from the inbox.
LEMMA TakesOne ==
    ASSUME TypeOK, inbox # <<>>
    PROVE  /\ Len(inbox) \in Nat /\ Head(inbox) = inbox[1] /\ IsSeq(Tail(inbox))
           /\ Len(Tail(inbox)) = Len(inbox) - 1
           /\ \A i \in 1..Len(Tail(inbox)) : Same(Tail(inbox)[i], inbox[i + 1])
<1>1. IsSeq(inbox) /\ \A i \in 1..Len(inbox) : Entry(inbox[i])
  BY DEF TypeOK
<1> PICK t : t = Tail(inbox)
  OBVIOUS
<1>2. /\ Len(inbox) \in Nat /\ Head(inbox) = inbox[1] /\ IsSeq(t) /\ Len(t) = Len(inbox) - 1
      /\ \A i \in 1..(Len(inbox) - 1) : t[i] = inbox[i + 1]
  BY <1>1, Pops
<1>3. \A i \in 1..Len(t) : Same(t[i], inbox[i + 1])
  BY <1>1, <1>2 DEF Same
<1> QED BY <1>2, <1>3

\* The modem leaves its inbox as it is.
LEMMA TakesNone ==
    ASSUME TypeOK
    PROVE  Len(inbox) = Len(inbox) - 0 /\ \A i \in 1..Len(inbox) : Same(inbox[i], inbox[i + 0])
<1>1. Len(inbox) \in Nat /\ \A i \in 1..Len(inbox) : Entry(inbox[i])
  BY DEF TypeOK, IsSeq
<1> QED BY <1>1 DEF Same

\* Nothing is in order to be said that no OK was said to before.
LEMMA StaysUnanswered ==
    ASSUME inbox # <<>>, Answered, task.wait = "line", FreshOK
    PROVE  FALSE
  BY DEF Answered

LEMMA RefuseKeeps == IInv /\ Refuse => IInv'
<1> SUFFICES ASSUME IInv, Refuse PROVE IInv'
  OBVIOUS
<1>1. TypeOK /\ IsSeq(uart) /\ modem \in ModemType /\ inbox # <<>>
  BY DEF IInv, TypeOK, Refuse
<1>2. UNCHANGED <<task, connected, disturbed, modem>> /\ inbox' = Tail(inbox) /\ modem.asks = "none"
  BY DEF Refuse, modemOnly, history
<1>3. IsSeq(uart') /\ (FreshOK' => FreshOK)
  <2> PICK e : e = Line("ERROR", Head(inbox).old)
    OBVIOUS
  <2> PICK u : u = Urc(Head(inbox).cmd, "other")
    OBVIOUS
  <2>1. e.text # "OK"
    BY DEF Line
  <2>2. CASE uart' = Append(uart, e)
    <3>1. /\ IsSeq(uart') /\ Len(uart') = Len(uart) + 1 /\ Len(uart) \in Nat
          /\ \A i \in 1..Len(uart) : uart'[i] = uart[i]
          /\ uart'[Len(uart) + 1] = e
      BY <1>1, <2>2, Appends DEF IsSeq
    <3> QED BY <1>1, <2>1, <3>1, NoNewOK
  <2>3. CASE uart' = uart \o <<u, e>> /\ Head(inbox).cmd \in TwoStageCmds
    <3>1. /\ IsSeq(uart') /\ Len(uart') = Len(uart) + 2 /\ Len(uart) \in Nat
          /\ \A i \in 1..Len(uart) : uart'[i] = uart[i]
          /\ uart'[Len(uart) + 1] = u /\ uart'[Len(uart) + 2] = e
      BY <1>1, <2>3, AppendsTwo DEF IsSeq
    <3>2. u.text # "OK"
      BY <2>3 DEF Urc, TwoStageCmds
    <3> QED BY <1>1, <2>1, <3>1, <3>2, NoNewOK
  <2> QED BY <2>2, <2>3 DEF Refuse
<1>4. ~(Answered /\ task.wait = "line" /\ FreshOK')
  BY <1>1, <1>3, StaysUnanswered
<1>5. /\ IsSeq(inbox') /\ Len(inbox') = Len(inbox) - 1
      /\ \A i \in 1..Len(inbox') : Same(inbox'[i], inbox[i + 1])
  BY <1>1, <1>2, TakesOne
<1> QED BY <1>1, <1>2, <1>3, <1>4, <1>5, ModemKeeps

LEMMA TakeTextKeeps == IInv /\ TakeText => IInv'
<1> SUFFICES ASSUME IInv, TakeText PROVE IInv'
  OBVIOUS
<1>1. TypeOK /\ IsSeq(uart) /\ modem \in ModemType /\ inbox # <<>> /\ IsSeq(inbox)
  BY DEF IInv, TypeOK, TakeText
<1>2. /\ UNCHANGED <<task, connected, disturbed>> /\ inbox' = Tail(inbox)
      /\ Head(inbox) = inbox[1] /\ modem.asks # "none" /\ inbox[1].cmd # "rest"
      /\ uart' = Append(uart, Line("OK", inbox[1].old))
  BY <1>1, TakesOne DEF TakeText, modemOnly, history
<1>3. /\ modem' \in ModemType /\ modem'.asks = "none" /\ modem'.authmode = modem.authmode
      /\ modem'.sni = modem.sni /\ modem'.client = modem.client
  <2>1. PICK text \in Texts : modem' = [modem EXCEPT !.asks = "none",
                                          !.topic = IF modem.asks = "TOPIC" THEN text ELSE @,
                                          !.payload = IF modem.asks = "PAYLOAD" THEN text ELSE @]
    BY DEF TakeText, Texts
  <2> QED BY <1>1, <2>1 DEF ModemType
<1>4. IsSeq(uart')
  BY <1>1, <1>2, Appends
<1>5. ASSUME task.prog = "connect", ~disturbed, Answered, task.wait = "line", FreshOK'
      PROVE  inbox' = <<>> /\ Done(Now.cmd)'
  <2>1. FreshLast /\ PromptsBefore
    BY <1>5 DEF Answered
  <2>2. ~inbox[1].old
    <3> PICK l : l = Line("OK", inbox[1].old)
      OBVIOUS
    <3>1. /\ Len(uart') = Len(uart) + 1 /\ Len(uart) \in Nat
          /\ \A i \in 1..Len(uart) : uart'[i] = uart[i]
          /\ uart'[Len(uart) + 1] = l
      BY <1>1, <1>2, Appends DEF IsSeq
    <3>2. ~FreshOK
      BY <1>1, <1>5, StaysUnanswered
    <3>3. ~(l.text # "OK" \/ l.old)
      BY <1>1, <1>4, <1>5, <3>1, <3>2, NoNewOK
    <3> QED BY <3>3 DEF Line
  <2>3. Tail(inbox) = <<>> /\ Len(inbox) = 1 /\ Answers(inbox[1].cmd)
    BY <1>1, <2>1, <2>2, FreshHead
  <2>4. inbox[1].cmd = "DISC"
    <3>1. PICK j \in 1..Len(inbox) : inbox[j].cmd = "DISC"
      BY <1>2, <2>1 DEF PromptsBefore, DiscAfter
    <3>2. j \in 1..1
      BY <2>3, <3>1
    <3> QED BY <3>1, <3>2
  <2>5. Now.cmd = "DISC"
    BY <1>2, <2>3, <2>4 DEF Answers
  <2>6. Now' = Now
    BY <1>2 DEF Now
  <2> QED BY <1>2, <2>3, <2>5, <2>6 DEF Done
<1>6. /\ IsSeq(inbox') /\ Len(inbox') = Len(inbox) - 1
      /\ \A i \in 1..Len(inbox') : Same(inbox'[i], inbox[i + 1])
  BY <1>1, <1>2, TakesOne
<1> QED BY <1>2, <1>3, <1>4, <1>5, <1>6, ModemKeeps

\* A notice of its own.
LEMMA NoticeKeeps ==
    ASSUME IInv, UNCHANGED <<task, connected, disturbed, inbox>>, NEW l, l.text # "OK",
           uart' = Append(uart, l), modem' \in ModemType,
           modem'.client = modem.client, modem'.authmode = modem.authmode,
           modem'.sni = modem.sni, modem'.asks = modem.asks
    PROVE  IInv'
<1>1. TypeOK /\ IsSeq(uart) /\ IsSeq(inbox)
  BY DEF IInv, TypeOK
<1>2. /\ IsSeq(uart') /\ Len(uart') = Len(uart) + 1 /\ Len(uart) \in Nat
      /\ \A i \in 1..Len(uart) : uart'[i] = uart[i]
      /\ uart'[Len(uart) + 1] = l
  BY <1>1, Appends DEF IsSeq
<1>3. FreshOK' => FreshOK
  BY <1>1, <1>2, NoNewOK
<1>4. Now' = Now
  BY DEF Now
<1>5. Answered /\ task.wait = "line" /\ FreshOK' => inbox' = <<>> /\ Done(Now.cmd)'
  BY <1>3, <1>4 DEF Answered, Done
<1>6. PromptsBefore /\ modem'.asks # "none" => DiscAfter(0)
  BY DEF PromptsBefore
<1>7. Len(inbox') = Len(inbox) - 0 /\ \A i \in 1..Len(inbox') : Same(inbox'[i], inbox[i + 0])
  BY <1>1, TakesNone
<1> QED BY <1>1, <1>2, <1>5, <1>6, <1>7, ModemKeeps

LEMMA ResultKeeps == IInv /\ Result => IInv'
<1> SUFFICES ASSUME IInv, Result PROVE IInv'
  OBVIOUS
<1>1. modem \in ModemType
  BY DEF IInv, TypeOK
<1>2. PICK e \in {"zero", "other", "tls"} :
        /\ uart' = Append(uart, Urc(modem.busy, e))
        /\ modem' = [modem EXCEPT !.busy = "none", !.sending = "none",
                                  !.session = @ \/ (modem.busy = "CONNECT" /\ e = "zero")]
  BY DEF Result
<1>3. Urc(modem.busy, e).text # "OK"
  BY <1>1 DEF Urc, ModemType, TwoStageCmds
<1>4. /\ modem' \in ModemType /\ modem'.client = modem.client /\ modem'.authmode = modem.authmode
      /\ modem'.sni = modem.sni /\ modem'.asks = modem.asks
  BY <1>1, <1>2 DEF ModemType
<1>5. UNCHANGED <<task, connected, disturbed, inbox>>
  BY DEF Result
<1> QED BY <1>2, <1>3, <1>4, <1>5, NoticeKeeps

LEMMA LoseSessionKeeps == IInv /\ LoseSession => IInv'
<1> SUFFICES ASSUME IInv, LoseSession PROVE IInv'
  OBVIOUS
<1>1. modem \in ModemType /\ modem' = [modem EXCEPT !.session = FALSE]
  BY DEF IInv, TypeOK, LoseSession
<1>2. /\ modem' \in ModemType /\ modem'.client = modem.client /\ modem'.authmode = modem.authmode
      /\ modem'.sni = modem.sni /\ modem'.asks = modem.asks
  BY <1>1 DEF ModemType
<1>3. UNCHANGED <<task, connected, disturbed, inbox>> /\ uart' = Append(uart, Line("CONNLOST", FALSE))
  BY DEF LoseSession, modemOnly, history
<1>4. Line("CONNLOST", FALSE).text # "OK"
  BY DEF Line
<1> QED BY <1>2, <1>3, <1>4, NoticeKeeps

LEMMA MessageKeeps == IInv /\ Message => IInv'
<1> SUFFICES ASSUME IInv, Message PROVE IInv'
  OBVIOUS
<1>1. /\ UNCHANGED <<task, connected, disturbed, inbox, modem>> /\ modem \in ModemType
      /\ uart' = Append(uart, Line("RXSTART", FALSE))
  BY DEF Message, modemOnly, history, IInv, TypeOK
<1>2. Line("RXSTART", FALSE).text # "OK"
  BY DEF Line
<1> QED BY <1>1, <1>2, NoticeKeeps

\* A modem that starts anew owes nothing, and the attempt is spoilt.
LEMMA ModemRestartsKeeps == IInv /\ ModemRestarts => IInv'
<1> SUFFICES ASSUME IInv, ModemRestarts PROVE IInv'
  OBVIOUS
<1>1. UNCHANGED <<task, uart, connected>> /\ disturbed' = TRUE /\ modem' = Off /\ inbox' = <<>>
  BY DEF ModemRestarts
<1>2. modem' \in ModemType
  BY <1>1 DEF Off, ModemType
<1>3. IsSeq(inbox') /\ \A i \in 1..Len(inbox') : FALSE
  BY <1>1, EmptyIsSeq
<1>4. Now' = Now
  BY <1>1 DEF Now
<1>5. TypeOK'
  BY <1>1, <1>2, <1>3, <1>4 DEF IInv, TypeOK
<1> QED BY <1>1, <1>3, <1>5 DEF IInv, AllOld, Connecting, Settled, Production

-----------------------------------------------------------------------------
(* The task's steps.                                                       *)

\* Where the task goes when an exchange is over.
LEMMA OverMoves ==
    ASSUME TypeOK, Settled, task.wait \notin {"send", "none"}, NEW outcome, Over(outcome)
    PROVE  /\ task' = [prog |-> task'.prog, step |-> task'.step, wait |-> task'.wait]
           /\ task'.wait \in {"send", "none"} /\ (task'.prog = "idle" <=> task'.wait = "none")
           /\ task'.prog \in Everyday \cup {"connect"} => task'.step \in 1..Len(Program(task'.prog))
           /\ task'.prog = "connect" =>
                  \/ task'.step = 1
                  \/ task.prog = "connect" /\ task'.step = task.step + 1 /\ outcome \notin Now.fatal
           /\ connected' \in BOOLEAN
           /\ connected' => /\ connected \/ (task.prog = "connect" /\ task.step = 12)
                            /\ task'.prog \in Everyday \cup {"idle"}
<1> DEFINE ends == outcome \in Now.fatal
           last == task.step = Len(Program(task.prog))
           handshakeFailed == task.prog = "connect" /\ outcome = "no_handshake"
           next == IF handshakeFailed /\ ~tlsDiagDone THEN "diagnose" ELSE Following(task.prog, ~ends)
           again == [prog |-> task.prog, step |-> task.step, wait |-> "send"]
<1>1. /\ task.prog # "idle" /\ connected \in BOOLEAN
      /\ [task EXCEPT !.wait = "send"] = again
      /\ [[task EXCEPT !.wait = "send"] EXCEPT !.step = @ + 1]
            = [prog |-> task.prog, step |-> task.step + 1, wait |-> "send"]
  <2>1. task = [prog |-> task.prog, step |-> task.step, wait |-> task.wait]
    BY DEF TypeOK
  <2>2. [task EXCEPT !.wait = "send"] = again
    BY <2>1
  <2>3. [again EXCEPT !.step = @ + 1] = [prog |-> task.prog, step |-> task.step + 1, wait |-> "send"]
    OBVIOUS
  <2>4. task.prog # "idle" /\ connected \in BOOLEAN
    BY DEF TypeOK
  <2> QED BY <2>2, <2>3, <2>4
<1>2. /\ \/ /\ Now.cmd \in Retried /\ ends
            /\ task' = again
         \/ task' = IF ends \/ last THEN Start(next)
                    ELSE [prog |-> task.prog, step |-> task.step + 1, wait |-> "send"]
      /\ connected' = IF task.prog = "connect" /\ last /\ ~ends THEN TRUE
                      ELSE connected /\ ~Deadly(outcome)
  BY <1>1 DEF Over
<1>3. connected' \in BOOLEAN
  BY <1>1, <1>2
<1>4. \A p : /\ Start(p).prog = p /\ Start(p).wait \in {"send", "none"}
             /\ Start(p) = [prog |-> p, step |-> Start(p).step, wait |-> Start(p).wait]
             /\ p = "idle" <=> Start(p).wait = "none"
             /\ p # "idle" => Start(p).step = 1
  BY DEF Start, Idle
<1>5. \A p \in Everyday \cup {"connect"} : Len(Program(p)) \in Nat /\ Len(Program(p)) >= 1 /\ p # "idle"
  <2>1. \A p \in Everyday : Len(Program(p)) \in 1..3
    BY EverydaySteps
  <2>2. Len(Program("connect")) = 12
    BY ConnectSteps
  <2>3. \A p \in Everyday : Len(Program(p)) \in Nat /\ Len(Program(p)) >= 1
    BY <2>1
  <2>4. Len(Program("connect")) \in Nat /\ Len(Program("connect")) >= 1
    BY <2>2
  <2>5. \A p \in Everyday \cup {"connect"} : p # "idle"
    BY DEF Everyday
  <2> QED BY <2>3, <2>4, <2>5, Zenon
<1>6. task.prog \in Everyday => Now.cmd \notin Retried /\ task.step \in 1..Len(Program(task.prog))
  BY EverydaySteps DEF TypeOK, Now
<1>7. task.prog = "connect" => /\ Now.cmd \notin Retried /\ task.step \in 1..12
                               /\ Len(Program(task.prog)) = 12
                               /\ task.step = 12 /\ handshakeFailed => ends
  BY Connects, ConnectSteps DEF TwoStage, Exchange
<1>8. CASE Now.cmd \in Retried /\ ends /\ task' = again
  <2>1. task.prog \notin Everyday \cup {"connect"}
    BY <1>6, <1>7, <1>8
  <2>2. ~connected'
    BY <1>1, <1>2, <2>1 DEF Settled
  <2> QED BY <1>1, <1>3, <1>8, <2>1, <2>2
<1>9. CASE ~(ends \/ last) /\ task' = [prog |-> task.prog, step |-> task.step + 1, wait |-> "send"]
  <2>1. task.prog \in Everyday \cup {"connect"} => task.step + 1 \in 1..Len(Program(task.prog))
    <3>1. CASE task.prog = "connect"
      <4>1. task.step \in 1..12 /\ task.step # 12 /\ Len(Program(task.prog)) = 12
        BY <1>7, <1>9, <3>1
      <4>2. task.step + 1 \in 1..12
        BY <4>1
      <4> QED BY <4>1, <4>2, Zenon
    <3>2. CASE task.prog \in Everyday
      BY <1>5, <1>6, <1>9, <3>2
    <3> QED BY <3>1, <3>2
  <2>2. connected' => connected
    BY <1>2, <1>9
  <2> QED BY <1>1, <1>3, <1>9, <2>1, <2>2 DEF Settled
<1>10. CASE (ends \/ last) /\ task' = Start(next)
  <2>1. /\ task' = [prog |-> task'.prog, step |-> task'.step, wait |-> task'.wait]
        /\ task'.prog = next /\ task'.wait \in {"send", "none"} /\ (next = "idle" <=> task'.wait = "none")
        /\ next # "idle" => task'.step = 1
    BY <1>4, <1>10
  <2>2. next \in Everyday \cup {"connect"} => task'.step = 1 /\ task'.step \in 1..Len(Program(next))
    BY <1>5, <2>1
  <2>3. ASSUME connected' PROVE connected \/ (task.prog = "connect" /\ task.step = 12)
    BY <1>2, <1>7, <2>3
  <2>4. ASSUME connected' PROVE next \in Everyday \cup {"idle"}
    <3>1. CASE task.prog = "connect"
      <4>1. last /\ ~ends
        BY <1>2, <2>4, <3>1 DEF Settled, Everyday
      <4>2. ~handshakeFailed
        BY <1>7, <3>1, <4>1
      <4>3. next = Following("connect", TRUE)
        BY <3>1, <4>1, <4>2
      <4> QED BY <4>3, NextPrograms DEF Everyday
    <3>2. CASE task.prog # "connect"
      <4>1. task.prog \in Everyday
        BY <1>1, <1>2, <2>4, <3>2 DEF Settled
      <4>2. next = Following(task.prog, ~ends) /\ (~ends) \in BOOLEAN
        BY <3>2
      <4> QED BY <4>1, <4>2, NextPrograms DEF Everyday
    <3> QED BY <3>1, <3>2
  <2> HIDE DEF next
  <2> QED BY <1>3, <2>1, <2>2, <2>3, <2>4
<1> QED BY <1>2, <1>8, <1>9, <1>10

\* What the modem owes when an exchange is over.
LEMMA OverOwes ==
    ASSUME TypeOK, NEW outcome, Over(outcome)
    PROVE  /\ IsSeq(inbox') /\ Len(inbox') = Len(inbox) /\ Len(inbox) \in Nat
           /\ \A i \in 1..Len(inbox) : /\ Entry(inbox'[i]) /\ inbox'[i].old
                                        /\ inbox'[i].cmd = inbox[i].cmd
<1> DEFINE t == [i \in DOMAIN inbox |-> [inbox[i] EXCEPT !.old = TRUE]]
<1>1. inbox' = t
  BY DEF Over
<1>2. IsSeq(inbox) /\ (\A i \in 1..Len(inbox) : Entry(inbox[i])) /\ Len(inbox) \in Nat
  BY DEF TypeOK, IsSeq
<1>3. t = [i \in DOMAIN inbox |-> t[i]]
  OBVIOUS
<1>4. IsSeq(t) /\ Len(t) = Len(inbox) /\ DOMAIN inbox = 1..Len(inbox)
  BY <1>2, <1>3, Maps
<1>5. ASSUME NEW i \in 1..Len(inbox) PROVE t[i] = [cmd |-> inbox[i].cmd, old |-> TRUE]
  <2>1. t[i] = [inbox[i] EXCEPT !.old = TRUE]
    BY <1>4
  <2>2. inbox[i] = [cmd |-> inbox[i].cmd, old |-> inbox[i].old]
    BY <1>2 DEF Entry
  <2> QED BY <2>1, <2>2
<1> HIDE DEF t
<1>6. ASSUME NEW i \in 1..Len(inbox)
      PROVE  Entry(t[i]) /\ t[i].old /\ t[i].cmd = inbox[i].cmd
  <2> PICK x : x = inbox[i].cmd
    OBVIOUS
  <2>1. t[i] = [cmd |-> x, old |-> TRUE]
    BY <1>5
  <2>2. t[i].cmd = x /\ t[i].old = TRUE
    BY <2>1
  <2> QED BY <2>1, <2>2 DEF Entry
<1> QED BY <1>1, <1>2, <1>4, <1>6

\* An exchange that is over keeps the invariant if at_mqtt_connect goes on from a
\* setting only when it is in force and nothing older is on its way.
LEMMA OverKeeps ==
    ASSUME IInv, task.wait \notin {"send", "none"}, NEW outcome, Over(outcome),
           modem' = modem, IsSeq(uart'), disturbed' \in BOOLEAN, disturbed => disturbed',
           ASSUME task.prog = "connect", task.step \in {6, 7, 10}, ~disturbed', outcome = "ok"
           PROVE  inbox = <<>> /\ Done(Now.cmd),
           task.prog = "connect" /\ Now.how = "cmd" => outcome \in {"ok", "refused", "silent"}
    PROVE  IInv'
<1>1. TypeOK /\ Settled /\ IsSeq(inbox)
  BY DEF IInv, TypeOK
<1>2. /\ task' = [prog |-> task'.prog, step |-> task'.step, wait |-> task'.wait]
      /\ task'.wait \in {"send", "none"} /\ (task'.prog = "idle" <=> task'.wait = "none")
      /\ task'.prog \in Everyday \cup {"connect"} => task'.step \in 1..Len(Program(task'.prog))
      /\ task'.prog = "connect" =>
             \/ task'.step = 1
             \/ task.prog = "connect" /\ task'.step = task.step + 1 /\ outcome \notin Now.fatal
      /\ connected' \in BOOLEAN
      /\ connected' => /\ connected \/ (task.prog = "connect" /\ task.step = 12)
                       /\ task'.prog \in Everyday \cup {"idle"}
  BY <1>1, OverMoves
<1>3. /\ IsSeq(inbox') /\ Len(inbox') = Len(inbox) /\ Len(inbox) \in Nat
      /\ \A i \in 1..Len(inbox) : /\ Entry(inbox'[i]) /\ inbox'[i].old
                                   /\ inbox'[i].cmd = inbox[i].cmd
  BY <1>1, OverOwes
<1>4. TypeOK'
  <2>1. (\A i \in 1..Len(inbox) : Entry(inbox[i]))'
    BY <1>3 DEF Entry
  <2>2. task'.prog = "connect" => task'.wait = "send"
    BY <1>2
  <2>3. modem' \in ModemType
    BY <1>1 DEF TypeOK
  <2> QED BY <1>2, <1>3, <2>1, <2>2, <2>3 DEF TypeOK
<1>5. AllOld' /\ Settled'
  BY <1>2, <1>3 DEF AllOld, Settled
<1>6. OnlyHarmless => OnlyHarmless'
  BY <1>3 DEF OnlyHarmless
<1>7. Production'
  <2> SUFFICES ASSUME connected', ~disturbed' PROVE Prod' /\ OnlyHarmless'
    BY DEF Production
  <2>1. CASE connected
    BY <1>6, <2>1 DEF IInv, Production, Prod
  <2>2. CASE task.prog = "connect" /\ task.step = 12
    <3>1. Configured
      BY <2>2 DEF IInv, Connecting
    <3> QED BY <1>6, <2>2, <3>1 DEF Configured, Prod
  <2> QED BY <1>2, <2>1, <2>2
<1>8. Connecting'
  <2> SUFFICES ASSUME task'.prog = "connect", ~disturbed' PROVE Configured' /\ Answered'
    BY DEF Connecting
  <2>1. task'.wait = "send"
    BY <1>2
  <2>2. CASE task'.step = 1
    BY <2>1, <2>2 DEF Configured, Answered
  <2>3. CASE task.prog = "connect" /\ task'.step = task.step + 1 /\ outcome \notin Now.fatal
    <3>1. Configured /\ PromptsBefore /\ task.step \in 1..12
      BY <1>1, <2>3, Connects DEF IInv, Connecting, Answered
    <3>2. PromptsBefore'
      <4>1. \A n : DiscAfter(n) => DiscAfter(n)'
        BY <1>3 DEF DiscAfter
      <4> QED BY <1>3, <3>1, <4>1 DEF PromptsBefore
    <3>3. ASSUME task.step \in {6, 7, 10}
          PROVE  /\ OnlyHarmless /\ Done(Now.cmd)
                 /\ task.step = 6 => Now.cmd = "authmode_2"
                 /\ task.step = 7 => Now.cmd = "SNI_on"
                 /\ task.step = 10 => Now.cmd = "ACCQ_prod"
      <4>1. /\ Now.how = "cmd" /\ Now.fatal = {"refused", "silent"}
            /\ task.step = 6 => Now.cmd = "authmode_2"
            /\ task.step = 7 => Now.cmd = "SNI_on"
            /\ task.step = 10 => Now.cmd = "ACCQ_prod"
        BY <1>1, <2>3, <3>3, Connects DEF Must, Exchange
      <4>2. outcome = "ok"
        BY <2>3, <4>1
      <4>3. inbox = <<>> /\ Done(Now.cmd)
        BY <2>3, <3>3, <4>2
      <4>4. Len(inbox) = 0
        BY <4>3, EmptyIsSeq
      <4>5. OnlyHarmless
        BY <4>4 DEF OnlyHarmless
      <4> QED BY <4>1, <4>3, <4>5
    <3>4. task'.step > 6 => modem'.authmode = "authmode_2" /\ OnlyHarmless'
      <4>1. CASE task.step = 6
        BY <1>6, <3>3, <4>1 DEF Done
      <4>2. CASE task.step > 6
        BY <1>6, <3>1, <4>2 DEF Configured
      <4> QED BY <2>3, <3>1, <4>1, <4>2
    <3>5. task'.step > 7 => modem'.sni
      <4>1. CASE task.step = 7
        BY <3>3, <4>1 DEF Done
      <4>2. CASE task.step > 7
        BY <3>1, <4>2 DEF Configured
      <4> QED BY <2>3, <3>1, <4>1, <4>2
    <3>6. task'.step > 10 => modem'.client = "ACCQ_prod"
      <4>1. CASE task.step = 10
        BY <3>3, <4>1 DEF Done
      <4>2. CASE task.step > 10
        BY <3>1, <4>2 DEF Configured
      <4> QED BY <2>3, <3>1, <4>1, <4>2
    <3>7. Configured'
      BY <3>4, <3>5, <3>6 DEF Configured
    <3>8. Answered'
      BY <2>1, <3>2 DEF Answered
    <3> QED BY <3>7, <3>8
  <2> QED BY <1>2, <2>2, <2>3
<1> QED BY <1>4, <1>5, <1>7, <1>8 DEF IInv

\* Reading a line from the UART.
LEMMA Reads ==
    ASSUME TypeOK, uart # <<>>
    PROVE  /\ IsSeq(Tail(uart)) /\ Head(uart) = uart[1]
           /\ uart' = Tail(uart) /\ FreshOK' => FreshOK
           /\ uart[1].text = "OK" /\ ~uart[1].old => FreshOK
<1> PICK t : t = Tail(uart)
  OBVIOUS
<1>1. /\ Len(uart) \in Nat /\ Len(uart) >= 1 /\ Head(uart) = uart[1] /\ IsSeq(t) /\ Len(t) = Len(uart) - 1
      /\ \A i \in 1..(Len(uart) - 1) : t[i] = uart[i + 1]
  BY Pops DEF TypeOK
<1>2. ASSUME uart' = t, FreshOK' PROVE FreshOK
  <2>1. PICK i \in 1..Len(t) : t[i].text = "OK" /\ ~t[i].old
    BY <1>2 DEF FreshOK
  <2>2. i + 1 \in 1..Len(uart) /\ t[i] = uart[i + 1]
    BY <1>1
  <2> QED BY <2>1, <2>2 DEF FreshOK
<1>3. uart[1].text = "OK" /\ ~uart[1].old => FreshOK
  BY <1>1 DEF FreshOK
<1> QED BY <1>1, <1>2, <1>3

LEMMA SkipKeeps ==
    ASSUME IInv, uart # <<>>, uart' = Tail(uart), UNCHANGED <<task, inbox, modem, connected, disturbed>>
    PROVE  IInv'
<1>1. TypeOK /\ modem \in ModemType /\ IsSeq(inbox)
  BY DEF IInv, TypeOK
<1>2. IsSeq(uart') /\ (FreshOK' => FreshOK)
  BY <1>1, Reads
<1>3. Now' = Now
  BY DEF Now
<1>4. Answered /\ task.wait = "line" /\ FreshOK' => inbox' = <<>> /\ Done(Now.cmd)'
  BY <1>2, <1>3 DEF Answered, Done
<1>5. PromptsBefore /\ modem'.asks # "none" => DiscAfter(0)
  BY DEF PromptsBefore
<1>6. Len(inbox') = Len(inbox) - 0 /\ \A i \in 1..Len(inbox') : Same(inbox'[i], inbox[i + 0])
  BY <1>1, TakesNone
<1> QED BY <1>1, <1>2, <1>4, <1>5, <1>6, ModemKeeps

\* Outside at_mqtt_connect, and in its two-stage exchanges, no setting is at stake.
LEMMA OverElsewhere ==
    ASSUME IInv, task.wait \notin {"send", "none"}, NEW outcome, Over(outcome),
           modem' = modem, uart # <<>> => uart' = Tail(uart), uart = <<>> => uart' = uart,
           disturbed' \in BOOLEAN, disturbed => disturbed',
           task.prog # "connect" \/ Now.how # "cmd"
    PROVE  IInv'
<1>1. TypeOK /\ IsSeq(uart)
  BY DEF IInv, TypeOK
<1>2. IsSeq(uart')
  BY <1>1, Reads
<1>3. ASSUME task.prog = "connect", task.step \in {6, 7, 10} PROVE FALSE
  BY <1>1, <1>3, Connects DEF Must, Exchange
<1> QED BY <1>2, <1>3, OverKeeps

LEMMA ReadResultKeeps == IInv /\ ReadResult => IInv'
<1> SUFFICES ASSUME IInv, ReadResult PROVE IInv'
  OBVIOUS
<1>1. /\ TypeOK /\ uart # <<>> /\ uart' = Tail(uart) /\ modem' = modem
      /\ task.wait = "line" /\ Now.how = "cmd"
  BY DEF IInv, ReadResult, Waits
<1>2. IsSeq(uart') /\ Head(uart) = uart[1] /\ (uart[1].text = "OK" /\ ~uart[1].old => FreshOK)
  BY <1>1, Reads
<1>3. CASE UNCHANGED <<task, inbox, connected, disturbed>>
  BY <1>1, <1>3, SkipKeeps
<1>4. CASE /\ uart[1].text \in {"OK", "ERROR"}
           /\ Over(IF uart[1].text = "OK" THEN "ok" ELSE "refused")
           /\ disturbed' = (disturbed \/ uart[1].old)
  <2> DEFINE outcome == IF uart[1].text = "OK" THEN "ok" ELSE "refused"
  <2>1. disturbed' \in BOOLEAN /\ (disturbed => disturbed')
    BY <1>4
  <2>2. ASSUME task.prog = "connect", task.step \in {6, 7, 10}, ~disturbed', outcome = "ok"
        PROVE  inbox = <<>> /\ Done(Now.cmd)
    <3>1. FreshOK /\ ~disturbed
      BY <1>2, <1>4, <2>2
    <3> QED BY <1>1, <2>2, <3>1 DEF IInv, Connecting, Answered
  <2>3. outcome \in {"ok", "refused", "silent"} /\ task.wait \notin {"send", "none"}
    BY <1>1
  <2>4. Over(outcome)
    BY <1>4
  <2> HIDE DEF outcome
  <2> QED BY <1>1, <1>2, <2>1, <2>2, <2>3, <2>4, OverKeeps
<1> QED BY <1>2, <1>3, <1>4 DEF ReadResult, Skip

LEMMA ReadValueKeeps == IInv /\ ReadValue => IInv'
<1> SUFFICES ASSUME IInv, ReadValue PROVE IInv'
  OBVIOUS
<1>1. /\ uart # <<>> /\ uart' = Tail(uart) /\ modem' = modem
      /\ task.wait = "line" /\ Now.how = "ask"
  BY DEF ReadValue, Waits
<1>2. CASE UNCHANGED <<task, inbox, connected, disturbed>>
  BY <1>1, <1>2, SkipKeeps
<1>3. ASSUME NEW outcome, Over(outcome), disturbed' = (disturbed \/ Head(uart).old)
      PROVE  IInv'
  <2>1. disturbed' \in BOOLEAN /\ (disturbed => disturbed') /\ task.wait \notin {"send", "none"} /\ Now.how # "cmd"
    BY <1>1, <1>3
  <2> QED BY <1>1, <1>3, <2>1, OverElsewhere
<1> QED BY <1>2, <1>3 DEF ReadValue, Skip

LEMMA ReadFirstStageKeeps == IInv /\ ReadFirstStage => IInv'
<1> SUFFICES ASSUME IInv, ReadFirstStage PROVE IInv'
  OBVIOUS
<1>1. /\ TypeOK /\ uart # <<>> /\ uart' = Tail(uart) /\ modem' = modem
      /\ task.wait = "line" /\ Now.how = "two"
  BY DEF IInv, ReadFirstStage, Waits
<1>2. CASE UNCHANGED <<task, inbox, connected, disturbed>>
  BY <1>1, <1>2, SkipKeeps
<1>3. ASSUME NEW outcome, Over(outcome), disturbed' = (disturbed \/ Head(uart).old)
      PROVE  IInv'
  <2>1. disturbed' \in BOOLEAN /\ (disturbed => disturbed') /\ task.wait \notin {"send", "none"} /\ Now.how # "cmd"
    BY <1>1, <1>3
  <2> QED BY <1>1, <1>3, <2>1, OverElsewhere
<1>4. CASE /\ task' = [task EXCEPT !.wait = "urc"] /\ UNCHANGED <<inbox, connected>>
           /\ disturbed' = (disturbed \/ Head(uart).old)
  <2>1. /\ task' = [prog |-> task'.prog, step |-> task'.step, wait |-> task'.wait]
        /\ task'.prog = task.prog /\ task'.step = task.step /\ task'.wait = "urc"
    BY <1>1, <1>4 DEF TypeOK
  <2>2. Now' = Now /\ IsSeq(uart')
    BY <1>1, <2>1, Reads DEF Now
  <2>3. disturbed' \in BOOLEAN /\ (disturbed => disturbed')
    BY <1>4
  <2>4. TypeOK'
    BY <1>1, <1>4, <2>1, <2>2, <2>3 DEF TypeOK
  <2>5. Configured => Configured'
    BY <1>1, <1>4, <2>1 DEF Configured, OnlyHarmless
  <2>6. PromptsBefore => PromptsBefore'
    BY <1>1, <1>4 DEF PromptsBefore, DiscAfter
  <2>7. FreshLast => FreshLast'
    BY <1>4, <2>2 DEF FreshLast, Answers
  <2>8. Answered => Answered'
    BY <1>1, <2>1, <2>6, <2>7 DEF Answered
  <2>9. Connecting'
    BY <2>1, <2>3, <2>5, <2>8 DEF IInv, Connecting
  <2>10. Settled' /\ AllOld' /\ Production'
    BY <1>1, <1>4, <2>1, <2>3 DEF IInv, Settled, AllOld, Production, Prod, OnlyHarmless
  <2> QED BY <2>4, <2>9, <2>10 DEF IInv
<1> QED BY <1>2, <1>3, <1>4 DEF ReadFirstStage, Skip, history

LEMMA ReadSecondStageKeeps == IInv /\ ReadSecondStage => IInv'
<1> SUFFICES ASSUME IInv, ReadSecondStage PROVE IInv'
  OBVIOUS
<1>1. /\ TypeOK /\ uart # <<>> /\ uart' = Tail(uart) /\ modem' = modem /\ task.wait = "urc"
  BY DEF IInv, ReadSecondStage
<1>2. CASE UNCHANGED <<task, inbox, connected, disturbed>>
  BY <1>1, <1>2, SkipKeeps
<1>3. ASSUME NEW outcome, Over(outcome), UNCHANGED disturbed
      PROVE  IInv'
  <2>1. disturbed' \in BOOLEAN /\ (disturbed => disturbed') /\ task.wait \notin {"send", "none"}
    BY <1>1, <1>3 DEF TypeOK
  <2>2. task.prog # "connect" \/ Now.how # "cmd"
    BY <1>1 DEF TypeOK
  <2> QED BY <1>1, <1>3, <2>1, <2>2, OverElsewhere
<1> QED BY <1>2, <1>3 DEF ReadSecondStage, Skip

LEMMA ReadAwaitedKeeps == IInv /\ ReadAwaited => IInv'
<1> SUFFICES ASSUME IInv, ReadAwaited PROVE IInv'
  OBVIOUS
<1>1. /\ TypeOK /\ uart # <<>> /\ uart' = Tail(uart) /\ modem' = modem /\ task.wait = "await"
  BY DEF IInv, ReadAwaited
<1>2. CASE UNCHANGED <<task, inbox, connected, disturbed>>
  BY <1>1, <1>2, SkipKeeps
<1>3. ASSUME NEW outcome, Over(outcome), disturbed' = (disturbed \/ Head(uart).old)
      PROVE  IInv'
  <2>1. disturbed' \in BOOLEAN /\ (disturbed => disturbed') /\ task.wait \notin {"send", "none"}
    BY <1>1, <1>3
  <2>2. task.prog # "connect"
    BY <1>1 DEF TypeOK
  <2> QED BY <1>1, <1>3, <2>1, <2>2, OverElsewhere
<1> QED BY <1>2, <1>3 DEF ReadAwaited, Skip

LEMMA ReadAfterDataKeeps == IInv /\ ReadAfterData => IInv'
<1> SUFFICES ASSUME IInv, ReadAfterData PROVE IInv'
  OBVIOUS
<1>1. /\ TypeOK /\ uart # <<>> /\ uart' = Tail(uart) /\ modem' = modem /\ task.wait = "data"
      /\ disturbed' = (disturbed \/ Head(uart).old)
  BY DEF IInv, ReadAfterData
<1>2. PICK outcome : Over(outcome)
  BY DEF ReadAfterData
<1>3. disturbed' \in BOOLEAN /\ (disturbed => disturbed') /\ task.wait \notin {"send", "none"}
  BY <1>1
<1>4. task.prog # "connect"
  BY <1>1 DEF TypeOK
<1> QED BY <1>1, <1>2, <1>3, <1>4, OverElsewhere

LEMMA TimeOutKeeps == IInv /\ TimeOut => IInv'
<1> SUFFICES ASSUME IInv, TimeOut PROVE IInv'
  OBVIOUS
<1>1. /\ TypeOK /\ uart = <<>> /\ UNCHANGED <<uart, modem, disturbed>>
      /\ task.wait \in {"line", "urc", "await", "prompt", "data"}
  BY DEF IInv, TimeOut
<1>2. PICK outcome : Over(outcome) /\ (task.wait # "data" /\ Now.how # "two" => outcome = "silent")
  BY DEF TimeOut
<1>3. disturbed' \in BOOLEAN /\ task.wait \notin {"send", "none"} /\ IsSeq(uart')
  BY <1>1 DEF TypeOK
<1>4. ASSUME task.prog = "connect", Now.how = "cmd" PROVE outcome = "silent"
  BY <1>1, <1>2, <1>4 DEF TypeOK
<1>5. ASSUME task.prog = "connect", task.step \in {6, 7, 10} PROVE Now.how = "cmd"
  BY <1>1, <1>5, Connects DEF Must, Exchange
<1> QED BY <1>1, <1>2, <1>3, <1>4, <1>5, OverKeeps

\* What the task writes is the last the modem owes.
LEMMA Writes ==
    ASSUME TypeOK, NEW c, inbox' = Append(inbox, Sent(c))
    PROVE  /\ IsSeq(inbox') /\ Len(inbox') = Len(inbox) + 1 /\ Len(inbox) \in Nat
           /\ \A i \in 1..Len(inbox) : inbox'[i] = inbox[i]
           /\ inbox'[Len(inbox) + 1].cmd = c /\ ~inbox'[Len(inbox) + 1].old
           /\ \A i \in 1..Len(inbox') : Entry(inbox'[i])
           /\ \A n : DiscAfter(n) => DiscAfter(n)'
<1> PICK x : x = Sent(c)
  OBVIOUS
<1>1. Entry(x) /\ x.cmd = c /\ ~x.old
  BY DEF Entry, Sent
<1>2. IsSeq(inbox) /\ (\A i \in 1..Len(inbox) : Entry(inbox[i])) /\ Len(inbox) \in Nat
  BY DEF TypeOK, IsSeq
<1>3. /\ IsSeq(inbox') /\ Len(inbox') = Len(inbox) + 1
      /\ \A i \in 1..Len(inbox) : inbox'[i] = inbox[i]
      /\ inbox'[Len(inbox) + 1] = x
  BY <1>2, Appends
<1>4. \A i \in 1..Len(inbox') : Entry(inbox'[i])
  BY <1>1, <1>2, <1>3
<1>5. \A n : DiscAfter(n) => DiscAfter(n)'
  BY <1>2, <1>3 DEF DiscAfter
<1> QED BY <1>1, <1>2, <1>3, <1>4, <1>5

LEMMA ReadPromptKeeps == IInv /\ ReadPrompt => IInv'
<1> SUFFICES ASSUME IInv, ReadPrompt PROVE IInv'
  OBVIOUS
<1>1. /\ TypeOK /\ uart # <<>> /\ uart' = Tail(uart) /\ modem' = modem /\ task.wait = "prompt"
  BY DEF IInv, ReadPrompt
<1>2. CASE UNCHANGED <<task, inbox, connected, disturbed>>
  BY <1>1, <1>2, SkipKeeps
<1>3. ASSUME NEW c \in Texts, inbox' = Append(inbox, Sent(c)),
             task' = [task EXCEPT !.wait = "data"], UNCHANGED <<connected, disturbed>>
      PROVE  IInv'
  <2>1. /\ task' = [prog |-> task'.prog, step |-> task'.step, wait |-> task'.wait]
        /\ task'.prog = task.prog /\ task'.step = task.step /\ task'.wait = "data"
    BY <1>1, <1>3 DEF TypeOK
  <2>2. task.prog # "connect" /\ IsSeq(uart')
    BY <1>1, Reads DEF TypeOK
  <2>3. /\ IsSeq(inbox') /\ Len(inbox') = Len(inbox) + 1 /\ Len(inbox) \in Nat
        /\ \A i \in 1..Len(inbox) : inbox'[i] = inbox[i]
        /\ inbox'[Len(inbox) + 1].cmd = c
        /\ \A i \in 1..Len(inbox') : Entry(inbox'[i])
    BY <1>1, <1>3, Writes
  <2>4. TypeOK'
    <3>1. (\A i \in 1..Len(inbox) : Entry(inbox[i]))'
      BY <2>3 DEF Entry
    <3> QED BY <1>1, <1>3, <2>1, <2>2, <2>3, <3>1 DEF TypeOK
  <2>5. OnlyHarmless => OnlyHarmless'
    BY <1>3, <2>3 DEF OnlyHarmless, Texts, Harmless
  <2>6. Settled' /\ AllOld' /\ Production' /\ Connecting'
    BY <1>1, <1>3, <2>1, <2>2, <2>5 DEF IInv, Settled, AllOld, Production, Prod, Connecting
  <2> QED BY <2>4, <2>6 DEF IInv
<1> QED BY <1>2, <1>3 DEF ReadPrompt, Skip, history, Texts

LEMMA SendKeeps == IInv /\ Send => IInv'
<1> SUFFICES ASSUME IInv, Send PROVE IInv'
  OBVIOUS
<1>1. /\ TypeOK /\ task.wait = "send" /\ uart' = <<>> /\ inbox' = Append(inbox, Sent(Now.cmd))
      /\ UNCHANGED <<modem, connected, disturbed>> /\ \A i \in 1..Len(inbox) : inbox[i].old
  BY DEF IInv, Send, history, AllOld
<1>2. /\ task' = [prog |-> task'.prog, step |-> task'.step, wait |-> task'.wait]
      /\ task'.prog = task.prog /\ task'.step = task.step
      /\ task'.wait \in {"prompt", "await", "urc", "line"}
      /\ Now.how \in {"cmd", "two"} => task'.wait = "line"
  <2>1. task' = [task EXCEPT !.wait = CASE Now.how \in {"prompt", "await"} -> Now.how
                                       [] Now.how = "read" -> "urc" [] OTHER -> "line"]
    BY DEF Send
  <2> PICK w : w = CASE Now.how \in {"prompt", "await"} -> Now.how
                     [] Now.how = "read" -> "urc" [] OTHER -> "line"
    OBVIOUS
  <2>2. w \in {"prompt", "await", "urc", "line"} /\ (Now.how \in {"cmd", "two"} => w = "line")
    OBVIOUS
  <2>3. task' = [task EXCEPT !.wait = w]
    BY <2>1
  <2>4. task' = [prog |-> task.prog, step |-> task.step, wait |-> w]
    BY <1>1, <2>3 DEF TypeOK
  <2> QED BY <2>2, <2>4
<1>3. Now' = Now
  BY <1>2 DEF Now
<1> PICK c : c = Now.cmd
  OBVIOUS
<1>4. /\ IsSeq(inbox') /\ Len(inbox') = Len(inbox) + 1 /\ Len(inbox) \in Nat
      /\ \A i \in 1..Len(inbox) : inbox'[i] = inbox[i]
      /\ inbox'[Len(inbox) + 1].cmd = c /\ ~inbox'[Len(inbox) + 1].old
      /\ \A i \in 1..Len(inbox') : Entry(inbox'[i])
      /\ \A n : DiscAfter(n) => DiscAfter(n)'
  BY <1>1, Writes
<1>5. IsSeq(uart') /\ ~FreshOK'
  BY <1>1, EmptyIsSeq DEF FreshOK
<1>6. task.prog = "connect" => task'.wait = "line"
  BY <1>1, <1>2, Connects
<1>7. TypeOK'
  <2>1. (\A i \in 1..Len(inbox) : Entry(inbox[i]))'
    BY <1>4 DEF Entry
  <2>2. (task.prog = "idle" <=> task.wait = "none")'
    BY <1>1, <1>2 DEF TypeOK
  <2> QED BY <1>1, <1>2, <1>4, <1>5, <1>6, <2>1, <2>2 DEF TypeOK
<1>8. AllOld' /\ Settled'
  BY <1>1, <1>2 DEF IInv, AllOld, Settled
<1>9. OnlyHarmless /\ c \in Harmless => OnlyHarmless'
  BY <1>4 DEF OnlyHarmless
<1>10. Production'
  <2> SUFFICES ASSUME connected, ~disturbed PROVE Prod' /\ OnlyHarmless'
    BY <1>1 DEF Production
  <2>1. Prod /\ OnlyHarmless /\ task.prog \in Everyday
    BY <1>1 DEF IInv, Production, Settled, TypeOK
  <2>2. c \in Harmless
    <3>1. task.step \in 1..Len(Program(task.prog))
      BY <1>1, <2>1 DEF TypeOK
    <3> QED BY <2>1, <3>1, EverydaySteps DEF Now
  <2> QED BY <1>1, <1>9, <2>1, <2>2 DEF Prod
<1>11. ASSUME task.prog = "connect", ~disturbed
       PROVE  Configured' /\ Answered'
  <2>1. Configured /\ Answered /\ task.step \in 1..12 /\ c \notin Prompts
        /\ (task.step = 1 => c = "DISC") /\ (task.step > 6 => c \in Harmless)
    BY <1>1, <1>11, Connects DEF IInv, Connecting
  <2>2. Configured'
    BY <1>1, <1>2, <1>9, <2>1 DEF Configured
  <2>3. FreshLast'
    <3>1. \A i \in 1..Len(inbox') : ~inbox'[i].old => i = Len(inbox')
      BY <1>1, <1>4
    <3> QED BY <1>3, <1>4, <3>1 DEF FreshLast, Answers
  <2>4. PromptsBefore'
    <3>1. CASE task.step = 1
      <4>1. \A n \in 0..Len(inbox) : DiscAfter(n)'
        BY <1>4, <2>1, <3>1 DEF DiscAfter
      <4>2. \A i \in 1..Len(inbox') : inbox'[i].cmd \in Prompts => i \in 0..Len(inbox)
        BY <1>4, <2>1
      <4> QED BY <1>4, <4>1, <4>2 DEF PromptsBefore
    <3>2. CASE task.step > 1
      <4>1. PromptsBefore
        BY <2>1, <3>2 DEF Answered
      <4>2. \A i \in 1..Len(inbox') : inbox'[i].cmd \in Prompts => i \in 1..Len(inbox)
        BY <1>4, <2>1
      <4> QED BY <1>1, <1>4, <4>1, <4>2 DEF PromptsBefore
    <3> QED BY <2>1, <3>1, <3>2
  <2> QED BY <1>5, <2>2, <2>3, <2>4 DEF Answered
<1>12. Connecting'
  BY <1>1, <1>2, <1>11 DEF Connecting
<1> QED BY <1>7, <1>8, <1>10, <1>12 DEF IInv

LEMMA PollKeeps == IInv /\ Poll => IInv'
<1> SUFFICES ASSUME IInv, Poll PROVE IInv'
  OBVIOUS
<1>1. /\ TypeOK /\ uart # <<>> /\ uart' = Tail(uart) /\ task.prog = "idle"
      /\ UNCHANGED <<task, inbox, modem, disturbed>>
      /\ connected' = (connected /\ Head(uart).text # "CONNLOST")
  BY DEF IInv, Poll, history
<1>2. IsSeq(uart') /\ Now' = Now
  BY <1>1, Reads DEF Now
<1>3. connected' \in BOOLEAN /\ (connected' => connected)
  BY <1>1
<1>4. TypeOK'
  BY <1>1, <1>2, <1>3 DEF TypeOK
<1> QED BY <1>1, <1>3, <1>4 DEF IInv, AllOld, Connecting, Settled, Production, Prod, OnlyHarmless

LEMMA BeginKeeps == ASSUME NEW p \in {"init", "connect", "publish", "rssi"} PROVE IInv /\ Begin(p) => IInv'
<1> SUFFICES ASSUME IInv, Begin(p) PROVE IInv'
  OBVIOUS
<1> DEFINE t == [i \in DOMAIN inbox |-> [inbox[i] EXCEPT !.cmd = Aged(@)]]
<1>1. /\ TypeOK /\ task.prog = "idle" /\ inbox' = t /\ UNCHANGED <<uart, connected>>
      /\ p \in IF connected THEN {"publish", "rssi"} ELSE {IF ready THEN "connect" ELSE "init"}
      /\ disturbed' = (connected /\ disturbed)
      /\ modem' = [modem EXCEPT !.topic = Aged(@), !.payload = Aged(@), !.sending = Aged(@)]
  BY DEF IInv, Begin
<1>2. task' = [prog |-> p, step |-> 1, wait |-> "send"]
  BY DEF Begin, Start
<1>3. /\ modem' \in ModemType /\ modem'.client = modem.client /\ modem'.authmode = modem.authmode
      /\ modem'.sni = modem.sni
  <2>1. \A text \in {"none"} \cup Texts : Aged(text) \in {"none"} \cup Texts
    BY DEF Aged, Texts
  <2> QED BY <1>1, <2>1 DEF TypeOK, ModemType
<1>4. IsSeq(inbox) /\ (\A i \in 1..Len(inbox) : Entry(inbox[i])) /\ Len(inbox) \in Nat
  BY <1>1 DEF TypeOK, IsSeq
<1>5. IsSeq(t) /\ Len(t) = Len(inbox) /\ DOMAIN inbox = 1..Len(inbox)
  <2>1. t = [i \in DOMAIN inbox |-> t[i]]
    OBVIOUS
  <2> QED BY <1>4, <2>1, Maps
<1>6. ASSUME NEW i \in 1..Len(inbox)
      PROVE  Entry(t[i]) /\ t[i].old = inbox[i].old /\ t[i].cmd = Aged(inbox[i].cmd)
  <2>1. t[i] = [inbox[i] EXCEPT !.cmd = Aged(@)]
    BY <1>5
  <2> PICK c, o : c = inbox[i].cmd /\ o = inbox[i].old
    OBVIOUS
  <2>2. inbox[i] = [cmd |-> c, old |-> o] /\ o \in BOOLEAN
    BY <1>4 DEF Entry
  <2>3. t[i] = [cmd |-> Aged(c), old |-> o]
    BY <2>1, <2>2
  <2>4. t[i].cmd = Aged(c) /\ t[i].old = o
    BY <2>3
  <2> QED BY <2>2, <2>3, <2>4 DEF Entry
<1> HIDE DEF t
<1>7. disturbed' \in BOOLEAN /\ (connected /\ ~disturbed' => ~disturbed)
  BY <1>1
<1>8. TypeOK'
  <2>1. (\A i \in 1..Len(inbox) : Entry(inbox[i]))'
    BY <1>1, <1>5, <1>6 DEF Entry
  <2>2. p \in Everyday \cup {"connect"} => 1 \in 1..Len(Program(p))
    <3>1. CASE p = "connect"
      BY <3>1, ConnectSteps
    <3>2. CASE p \in Everyday
      <4>1. Len(Program(p)) \in 1..3
        BY <3>2, EverydaySteps
      <4> QED BY <4>1
    <3> QED BY <3>1, <3>2
  <2>3. task'.prog = p /\ task'.step = 1 /\ task'.wait = "send" /\ p # "idle"
    BY <1>2
  <2>4. task' = [prog |-> task'.prog, step |-> task'.step, wait |-> task'.wait]
    BY <1>2
  <2> QED BY <1>1, <1>3, <1>5, <1>7, <2>1, <2>2, <2>3, <2>4 DEF TypeOK
<1>9. task'.prog = p /\ task'.step = 1 /\ task'.wait = "send"
  BY <1>2
<1>10. Connecting'
  BY <1>9 DEF Connecting, Configured, Answered
<1>11. Settled'
  BY <1>1, <1>9 DEF Settled, Everyday
<1>12. AllOld'
  <2>1. \A i \in 1..Len(inbox) : inbox[i].old
    BY <1>1 DEF IInv, AllOld, TypeOK
  <2> QED BY <1>1, <1>5, <1>6, <2>1 DEF AllOld
<1>13. Production'
  <2>1. OnlyHarmless => OnlyHarmless'
    BY <1>1, <1>5, <1>6 DEF OnlyHarmless, Aged, Harmless
  <2> QED BY <1>1, <1>3, <1>7, <2>1 DEF IInv, Production, Prod
<1> QED BY <1>8, <1>10, <1>11, <1>12, <1>13 DEF IInv

-----------------------------------------------------------------------------
LEMMA StepKeeps == IInv /\ [Next]_vars => IInv'
<1> SUFFICES ASSUME IInv, [Next]_vars PROVE IInv'
  OBVIOUS
<1>1. ASSUME NEW p \in {"init", "connect", "publish", "rssi"}, Begin(p) PROVE IInv'
  BY <1>1, BeginKeeps
<1>2. CASE Send
  BY <1>2, SendKeeps
<1>3. CASE Read
  BY <1>3, ReadResultKeeps, ReadValueKeeps, ReadFirstStageKeeps, ReadSecondStageKeeps, ReadAwaitedKeeps,
     ReadPromptKeeps, ReadAfterDataKeeps DEF Read
<1>4. CASE TimeOut
  BY <1>4, TimeOutKeeps
<1>5. CASE Poll
  BY <1>5, PollKeeps
<1>6. CASE ModemStep
  BY <1>6, CarryKeeps, RefuseKeeps, TakeTextKeeps DEF ModemStep
<1>7. CASE Result \/ LoseSession \/ ModemRestarts \/ Message
  BY <1>7, ResultKeeps, LoseSessionKeeps, ModemRestartsKeeps, MessageKeeps
<1>8. CASE UNCHANGED vars
  <2>1. UNCHANGED <<task, uart, inbox, modem, connected, disturbed>>
    BY <1>8 DEF vars, history
  <2>2. Now' = Now
    BY <2>1 DEF Now
  <2> QED BY <2>1, <2>2 DEF IInv, TypeOK, Entry, AllOld, Connecting, Configured, Answered, Settled,
          Production, Prod, OnlyHarmless, PromptsBefore, DiscAfter, FreshLast, Answers, FreshOK, Done
<1> QED BY <1>1, <1>2, <1>3, <1>4, <1>5, <1>6, <1>7, <1>8 DEF Next, TaskStep

\* Whatever the modem answers late, refuses, loses or forgets, and however many
\* answers it owes: at_mqtt_connect ends with the production client, mutual TLS
\* and SNI in force, and nothing the firmware sends while it is connected, or has
\* sent before and the modem has still to read, takes them away - as long as no
\* late answer was taken for another command's in this attempt and the modem has
\* not restarted.
THEOREM SessionIsProduction == Spec => []ProductionSession
<1>1. Spec => []IInv
  BY InitHolds, StepKeeps, PTL DEF Spec
<1> QED BY <1>1, InvariantSuffices, PTL
=============================================================================
