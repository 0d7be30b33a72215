------------------------------ MODULE ModemLink ------------------------------
(***************************************************************************)
(* The AT line to the modem (src/at_mqtt.cpp): every command is written to *)
(* a UART whose input is emptied first, and its answer is whatever fitting *)
(* line comes in before a deadline.  Nothing on the line tells to which    *)
(* command an answer belongs, so one that comes late may be taken for      *)
(* another's, and a notice that comes at the wrong moment is thrown away.  *)
(*                                                                         *)
(* The task runs one program at a time, a program is a sequence of         *)
(* exchanges, and the modem answers in its own time, one command after the *)
(* other.  Lines are whole; the settings that are always sent alike        *)
(* (sslversion, the three file names, the ignore*time options) are one     *)
(* command "files", the attempts of the diagnosis are two, one with and    *)
(* one without a client certificate.                                       *)
(***************************************************************************)
EXTENDS Naturals, Sequences

CONSTANTS
    MaxFaults,    \* late answers, refusals, lost sessions, restarts, stray messages
    MaxBehind     \* how many answers the modem may owe when a command is written

VARIABLES
    task,         \* the program the network task is in, its step, and what it waits for
    uart,         \* lines received and not read
    inbox,        \* what the modem has been sent and not answered
    modem,
    connected,    \* _connected
    ready,        \* modemInitialised of the network task
    err,          \* the error the two-stage exchange has seen, "zero" if it is none
    tlsDiagDone,
    faults,
    obliging,     \* the modem takes a topic and a payload without a session, too
    published,    \* history: this publish's payload went to the broker
    returned,     \* history: what the last publish returned
    disturbed     \* history: in this attempt an answer was taken for another command's,
                  \*   or the modem has restarted

history == <<published, returned, disturbed>>
vars == <<task, uart, inbox, modem, connected, ready, err, tlsDiagDone, faults,
          obliging, history>>

-----------------------------------------------------------------------------
(* The programs.  An exchange names its command, how its answer is read,   *)
(* and the outcomes that end the program; an outcome is "ok", "refused",   *)
(* "no_handshake" (err 32, 33, 34) or "silent".                            *)

Exchange(how, cmd, fatal) == [how |-> how, cmd |-> cmd, fatal |-> fatal]
May(cmd)    == Exchange("cmd", cmd, {})
Must(cmd)   == Exchange("cmd", cmd, {"refused", "silent"})
Ask(cmd)    == Exchange("ask", cmd, {})
MustAsk(cmd)    == Exchange("ask", cmd, {"refused", "silent"})
TwoStage(cmd)   == Exchange("two", cmd, {"refused", "no_handshake", "silent"})
Prompted(cmd)   == Exchange("prompt", cmd, {"refused", "silent"})
Await(cmd)  == Exchange("await", cmd, {})

Teardown == <<May("DISC"), May("REL"), May("STOP")>>

\* at_mqtt_connect.  A CMQTTSTART that is not answered is no reason to stop.
MqttConnect_NoAuthmode ==
    Teardown \o
    <<Exchange("cmd", "CCERTLIST", {"silent"}), May("CCLK"), Must("SNI_on"), Must("files"),
      Exchange("two", "START", {"refused"}), Must("ACCQ_prod"), Must("SSLCFG"), TwoStage("CONNECT")>>

MqttConnect ==
    Teardown \o
    <<Exchange("cmd", "CCERTLIST", {"silent"}), May("CCLK"), Must("authmode_2"), Must("SNI_on"), Must("files"),
      Exchange("two", "START", {"refused"}), Must("ACCQ_prod"), Must("SSLCFG"), TwoStage("CONNECT")>>

\* _diag_attempt; it goes on to the next attempt whatever comes of it.  Without TLS
\* (modes = <<>>) the SSL context is left alone.
DiagAttempt(modes) ==
    Teardown \o [i \in DOMAIN modes |-> May(modes[i])] \o
    <<Exchange("two", "START", {}), Must("ACCQ_diag")>> \o
    (IF modes = <<>> THEN <<>> ELSE <<May("SSLCFG")>>) \o
    <<TwoStage("CONNECT"), May("DISC")>>

\* _modem_resolve.
Resolve == <<Await("CDNSGIP")>>

\* _diag_clienthello, in the parts in which it can come to an end.
HelloInit  == <<May("HTTPTERM"), Must("HTTPINIT")>>
HelloFetch == <<May("authmode_0"), May("HTTPPARA"), May("HTTPPARA"),
                Exchange("await", "HTTPACTION", {"refused", "silent"})>>
HelloRead  == <<Exchange("read", "HTTPREAD", {}), May("HTTPTERM")>>

\* _diag_https_status.
HttpsStatus ==
    HelloInit \o <<May("authmode_0"), May("HTTPPARA"), May("HTTPPARA"), Await("HTTPACTION"), May("HTTPTERM")>>

Program(p) ==
    CASE p = "init" -> <<Must("AT"), May("CMEE"), MustAsk("CGATT")>>
      [] p = "bearer" -> <<MustAsk("NETOPEN?")>>
      [] p = "open" -> <<May("CGDCONT"), Must("NETOPEN")>>
      [] p = "fallback" -> <<May("CNACT")>>
      [] p = "address" -> <<Ask("IPADDR")>>
      [] p = "connect" -> MqttConnect
      [] p = "subscribe" -> <<Prompted("SUBTOPIC"), TwoStage("SUB")>>
      [] p = "timestamp" -> <<Ask("CCLK")>>
      [] p = "publish" -> <<Prompted("TOPIC"), Prompted("PAYLOAD"), TwoStage("PUB")>>
      [] p = "rssi" -> <<Ask("CSQ")>>
      [] p = "diagnose" -> Resolve \o <<May("CSSLCFG?"), May("SNI_off")>>
      [] p = "attempt_G" -> DiagAttempt(<<"authmode_2">>)
      [] p = "hello" -> <<May("SNI_on")>> \o Teardown \o HelloInit
      [] p = "hello_fetch" -> HelloFetch
      [] p = "hello_read" -> HelloRead
      [] p = "hello_end" -> <<May("HTTPTERM")>>
      [] p = "https" -> HttpsStatus
      [] p = "attempt_A" -> DiagAttempt(<<"authmode_3">>)
      [] p = "attempt_C" -> DiagAttempt(<<>>)
      [] p = "attempt_D" -> DiagAttempt(<<"authmode_0">>)
      [] p = "tidy_up" -> Teardown \o <<May("authmode_2")>>

\* What the task goes on with: the bearer may be open, be opened or be missing,
\* none of which stops gsm_modem_init; at_mqtt_connect fails after a diagnosis.
Successor ==
    [init |-> "bearer", bearer |-> "connect", open |-> "address", address |-> "connect",
     fallback |-> "connect", connect |-> "subscribe", subscribe |-> "timestamp"]
Alternative == [bearer |-> "open", open |-> "fallback"]

\* One-shot TLS diagnosis: K, L and L2 are like "https", D, H, I, J, E, F and B
\* like "attempt_D".
Diagnosis ==
    [diagnose |-> "attempt_G", attempt_G |-> "hello", hello |-> "hello_fetch",
     hello_fetch |-> "hello_read", hello_read |-> "https", hello_end |-> "https",
     https |-> "attempt_A", attempt_A |-> "attempt_C", attempt_C |-> "attempt_D",
     attempt_D |-> "tidy_up", tidy_up |-> "idle"]
DiagnosisFails == [hello |-> "https", hello_fetch |-> "hello_end"]

Following(p, ok) ==
    CASE ~ok /\ p \in DOMAIN DiagnosisFails -> DiagnosisFails[p]
      [] ~(~ok /\ p \in DOMAIN DiagnosisFails) /\ p \in DOMAIN Diagnosis -> Diagnosis[p]
      [] ok /\ p \in DOMAIN Successor -> Successor[p]
      [] ~ok /\ p \in DOMAIN Alternative -> Alternative[p]
      [] OTHER -> "idle"

-----------------------------------------------------------------------------
Off == [started |-> FALSE, client |-> "none", session |-> FALSE, authmode |-> "authmode_0",
        sni |-> FALSE, asks |-> "none", topic |-> "none", payload |-> "none", busy |-> "none", sending |-> "none"]

Idle == [prog |-> "idle", step |-> 0, wait |-> "none"]
Start(p) == IF p = "idle" THEN Idle ELSE [prog |-> p, step |-> 1, wait |-> "send"]

Init ==
    /\ task = Idle /\ uart = <<>> /\ inbox = <<>> /\ modem = Off
    /\ connected = FALSE /\ ready = FALSE /\ err = "none" /\ tlsDiagDone = FALSE
    /\ faults = 0 /\ obliging \in BOOLEAN
    /\ published = FALSE /\ returned = "none" /\ disturbed = FALSE

Now == Program(task.prog)[task.step]
Line(text, old) == [text |-> text, old |-> old, err |-> "none"]
Urc(cmd, e) == [text |-> cmd, old |-> FALSE, err |-> e]
Sent(cmd) == [cmd |-> cmd, old |-> FALSE]
Waits(how, wait) == task.wait = wait /\ Now.how = how

-----------------------------------------------------------------------------
(* The network task.                                                       *)

\* What an earlier publish has written is not this one's.
Texts == {"topic", "payload", "other_text"}
Aged(text) == IF text = "payload" THEN "other_text" ELSE text

\* One pass of the loop: attach if there is no session, else publish a record
\* or sample the signal.
Begin(p) ==
    /\ task.prog = "idle"
    /\ p \in IF connected THEN {"publish", "rssi"} ELSE {IF ready THEN "connect" ELSE "init"}
    /\ task' = Start(p)
    /\ disturbed' = (connected /\ disturbed)
    /\ inbox' = [i \in DOMAIN inbox |-> [inbox[i] EXCEPT !.cmd = Aged(@)]]
    /\ modem' = [modem EXCEPT !.topic = Aged(@), !.payload = Aged(@), !.sending = Aged(@)]
    /\ published' = FALSE /\ returned' = "none"
    /\ UNCHANGED <<uart, connected, ready, err, tlsDiagDone, faults, obliging>>

\* at_mqtt_poll reads a line.
Poll ==
    /\ task.prog = "idle" /\ uart # <<>>
    /\ uart' = Tail(uart)
    /\ connected' = (connected /\ Head(uart).text # "CONNLOST")
    /\ UNCHANGED <<task, inbox, modem, ready, err, tlsDiagDone, faults, obliging, history>>

\* Whatever has come in is thrown away before a command is written.
Send ==
    /\ task.wait = "send" /\ Len(inbox) <= MaxBehind
    /\ uart' = <<>>
    /\ inbox' = Append(inbox, Sent(Now.cmd))
    /\ task' = [task EXCEPT !.wait = CASE Now.how \in {"prompt", "await"} -> Now.how
                                       [] Now.how = "read" -> "urc" [] OTHER -> "line"]
    /\ UNCHANGED <<modem, connected, ready, err, tlsDiagDone, faults, obliging, history>>

Deadly_NoResponseKept(outcome) ==
    /\ task.prog = "publish"
    /\ (task.step = 1 /\ outcome # "ok") \/ (task.step = 2 /\ outcome = "silent")

Deadly_TopicKept(outcome) ==
    task.prog = "publish" /\ task.step # 1 /\ outcome = "silent"

\* at_mqtt_publish takes the session for dead if the topic is not taken or if
\* the modem does not answer, not if it refuses the payload or the publish.
Deadly(outcome) ==
    /\ task.prog = "publish"
    /\ (task.step = 1 /\ outcome # "ok") \/ outcome = "silent"

\* gsm_modem_init tries these up to 10 and 15 times; how often is left open.
Retried == {"AT", "CGATT"}

\* An exchange is over.  The task goes on with the next one or leaves the program;
\* what the modem still has to say belongs to the past.
Over(outcome) ==
    LET ends   == outcome \in Now.fatal
        last   == task.step = Len(Program(task.prog))
        ok     == ~ends
        handshakeFailed == task.prog = "connect" /\ outcome = "no_handshake"
        next   == IF handshakeFailed /\ ~tlsDiagDone THEN "diagnose" ELSE Following(task.prog, ok)
        again  == [task EXCEPT !.wait = "send"]
    IN  /\ \/ /\ Now.cmd \in Retried /\ ends
              /\ task' = again /\ ready' = ready
           \/ /\ task' = IF ends \/ last THEN Start(next) ELSE [again EXCEPT !.step = @ + 1]
              /\ ready' = IF task.prog = "init" /\ last /\ ok THEN TRUE
                          ELSE ready /\ ~(ends /\ task.prog \in {"init", "connect", "subscribe"})
        /\ inbox' = [i \in DOMAIN inbox |-> [inbox[i] EXCEPT !.old = TRUE]]
        /\ connected' = IF task.prog = "connect" /\ last /\ ok THEN TRUE
                        ELSE connected /\ ~Deadly(outcome)
        /\ err' = "none"
        /\ tlsDiagDone' = (tlsDiagDone \/ handshakeFailed)
        /\ returned' = IF task.prog = "publish" /\ (ends \/ last) THEN (IF ok THEN "true" ELSE "false")
                       ELSE returned

\* A line that is not what the task waits for is passed over.
Skip ==
    /\ UNCHANGED <<task, inbox, connected, ready, err, tlsDiagDone, published, returned, disturbed>>

\* _at_cmd.
ReadResult ==
    /\ Waits("cmd", "line") /\ uart # <<>>
    /\ uart' = Tail(uart)
    /\ LET line == Head(uart)
       IN  \/ /\ line.text \in {"OK", "ERROR"}
              /\ Over(IF line.text = "OK" THEN "ok" ELSE "refused")
              /\ disturbed' = (disturbed \/ line.old)
              /\ UNCHANGED published
           \/ line.text \notin {"OK", "ERROR"} /\ Skip
    /\ UNCHANGED <<modem, faults, obliging>>

\* The queries: the line with the value ends them, and its OK is left behind.
ReadValue ==
    /\ Waits("ask", "line") /\ uart # <<>>
    /\ uart' = Tail(uart)
    /\ LET line == Head(uart)
       IN  \/ /\ line.text \in {Now.cmd, "OK", "ERROR"}
              /\ Over(IF line.text = Now.cmd THEN "ok" ELSE "refused")
              /\ disturbed' = (disturbed \/ line.old)
              /\ UNCHANGED published
           \/ line.text \notin {Now.cmd, "OK", "ERROR"} /\ Skip
    /\ UNCHANGED <<modem, faults, obliging>>

\* What _at_cmd_two_stage makes of the line it is told, with the error seen so far.
Verdict(e) == CASE e = "zero" -> "ok" [] e = "other" -> "refused" [] e = "tls" -> "no_handshake"
                [] e = "none" -> "silent"
IsUrc(line) == line.text = Now.cmd

\* _at_cmd_two_stage, first stage: OK or ERROR, before or after the notice.
ReadFirstStage ==
    /\ Waits("two", "line") /\ uart # <<>>
    /\ uart' = Tail(uart)
    /\ LET line == Head(uart)
       IN  \/ /\ IsUrc(line) /\ err = "none"
              /\ err' = line.err
              /\ UNCHANGED <<task, inbox, connected, ready, tlsDiagDone, history>>
           \/ /\ line.text = "ERROR" \/ (line.text = "OK" /\ err # "none")
              /\ Over(Verdict(err))
              /\ disturbed' = (disturbed \/ line.old)
              /\ UNCHANGED published
           \/ /\ line.text = "OK" /\ err = "none"
              /\ task' = [task EXCEPT !.wait = "urc"]
              /\ disturbed' = (disturbed \/ line.old)
              /\ UNCHANGED <<inbox, connected, ready, err, tlsDiagDone, published, returned>>
           \/ line.text \notin {"OK", "ERROR"} /\ ~(IsUrc(line) /\ err = "none") /\ Skip
    /\ UNCHANGED <<modem, faults, obliging>>

\* Second stage: only the notice counts.
ReadSecondStage ==
    /\ task.wait = "urc" /\ uart # <<>>
    /\ uart' = Tail(uart)
    /\ LET line == Head(uart)
       IN  \/ IsUrc(line) /\ Over(Verdict(line.err)) /\ UNCHANGED <<published, disturbed>>
           \/ ~IsUrc(line) /\ Skip
    /\ UNCHANGED <<modem, faults, obliging>>

\* The diagnosis waits for the notice itself; an OK before it does not count, and one
\* after it is left behind.
ReadAwaited ==
    /\ task.wait = "await" /\ uart # <<>>
    /\ uart' = Tail(uart)
    /\ LET line == Head(uart)
       IN  \/ /\ IsUrc(line) \/ line.text = "ERROR"
              /\ Over(IF line.err = "zero" THEN "ok" ELSE "refused")
              /\ disturbed' = (disturbed \/ line.old)
              /\ UNCHANGED published
           \/ ~IsUrc(line) /\ line.text # "ERROR" /\ Skip
    /\ UNCHANGED <<modem, faults, obliging>>

\* at_mqtt_publish and at_mqtt_subscribe wait for the prompt, whatever else comes,
\* and write the topic or the payload.
ReadPrompt ==
    /\ task.wait = "prompt" /\ uart # <<>>
    /\ uart' = Tail(uart)
    /\ \/ /\ Head(uart).text = ">"
          /\ task' = [task EXCEPT !.wait = "data"]
          /\ inbox' = Append(inbox, Sent(IF Now.cmd = "PAYLOAD" THEN "payload"
                                         ELSE IF Now.cmd = "TOPIC" THEN "topic" ELSE "other_text"))
          /\ UNCHANGED <<connected, ready, err, tlsDiagDone, history>>
       \/ Head(uart).text # ">" /\ Skip
    /\ UNCHANGED <<modem, faults, obliging>>

\* The first line after it has to be the OK.
ReadAfterData ==
    /\ task.wait = "data" /\ uart # <<>>
    /\ uart' = Tail(uart)
    /\ Over(IF Head(uart).text = "OK" THEN "ok" ELSE "refused")
    /\ disturbed' = (disturbed \/ Head(uart).old)
    /\ UNCHANGED <<modem, faults, obliging, published>>

\* A deadline passes: nothing more is to come, or the modem is late.
TimeOut ==
    /\ task.wait \in {"line", "urc", "await", "prompt", "data"} /\ uart = <<>>
    /\ IF inbox = <<>> /\ modem.busy = "none" THEN UNCHANGED faults
       ELSE faults < MaxFaults /\ faults' = faults + 1
    /\ Over(IF task.wait = "data" THEN "refused"
            ELSE IF Now.how = "two" THEN Verdict(err) ELSE "silent")
    /\ UNCHANGED <<uart, modem, obliging, published, disturbed>>

-----------------------------------------------------------------------------
(* The modem.                                                              *)

TwoStageCmds == {"START", "CONNECT", "SUB", "PUB", "CDNSGIP", "HTTPACTION", "HTTPREAD"}
Prompts == {"SUBTOPIC", "TOPIC", "PAYLOAD"}
Queries == {"CGATT", "NETOPEN?", "IPADDR", "CCLK", "CSQ"}

Accepts(c) ==
    CASE c = "DISC" -> modem.session
      [] c = "REL"  -> modem.client # "none" /\ ~modem.session
      [] c = "STOP" -> modem.started /\ modem.client = "none"
      [] c = "START" -> ~modem.started
      [] c \in {"ACCQ_prod", "ACCQ_diag"} -> modem.started /\ modem.client = "none"
      [] c = "CONNECT" -> modem.client # "none" /\ ~modem.session
      [] c \in Prompts -> modem.session \/ (obliging /\ modem.client # "none")
      [] c = "PUB" -> modem.topic # "none" /\ modem.payload # "none"
      [] c \in Texts -> FALSE
      [] OTHER -> TRUE

Applied(c) ==
    CASE c = "DISC" -> [modem EXCEPT !.session = FALSE, !.busy = "none"]
      [] c = "REL"  -> [modem EXCEPT !.client = "none", !.busy = "none", !.topic = "none", !.payload = "none"]
      [] c = "STOP" -> [modem EXCEPT !.started = FALSE, !.busy = "none"]
      [] c = "START" -> [modem EXCEPT !.started = TRUE, !.busy = c]
      [] c \in {"ACCQ_prod", "ACCQ_diag"} -> [modem EXCEPT !.client = c]
      [] c \in {"authmode_0", "authmode_2", "authmode_3"} -> [modem EXCEPT !.authmode = c]
      [] c \in {"SNI_on", "SNI_off"} -> [modem EXCEPT !.sni = (c = "SNI_on")]
      [] c \in Prompts -> [modem EXCEPT !.asks = c]
      [] c \in {"CONNECT", "SUB", "CDNSGIP", "HTTPACTION", "HTTPREAD"} -> [modem EXCEPT !.busy = c]
      [] c = "PUB" -> [modem EXCEPT !.busy = c, !.topic = "none", !.payload = "none",
                                    !.sending = IF modem.topic = "topic" THEN modem.payload ELSE "none"]
      [] OTHER -> modem

modemOnly == <<task, connected, ready, err, tlsDiagDone, obliging, history>>

\* A command is carried out.  The OK after a value may follow later.
Carry ==
    /\ inbox # <<>> /\ (modem.asks = "none" \/ Head(inbox).cmd = "rest")
    /\ LET c == Head(inbox).cmd
           ok == Line("OK", Head(inbox).old)
       IN  /\ c # "rest" => Accepts(c)
           /\ modem' = Applied(c)
           /\ \/ /\ c \in Queries
                 /\ uart' = Append(uart, Line(c, Head(inbox).old))
                 /\ inbox' = [inbox EXCEPT ![1].cmd = "rest"]
              \/ /\ c \notin Queries
                 /\ uart' = Append(uart, IF c \in Prompts THEN Line(">", FALSE) ELSE ok)
                 /\ inbox' = Tail(inbox)
    /\ UNCHANGED <<modemOnly, faults>>

\* A command is refused, because of the modem's state or for another reason.
Refuse ==
    /\ inbox # <<>> /\ modem.asks = "none"
    /\ LET c == Head(inbox).cmd
           error == Line("ERROR", Head(inbox).old)
       IN  /\ c \notin {"rest"}
           /\ IF Accepts(c) THEN faults < MaxFaults /\ faults' = faults + 1 ELSE UNCHANGED faults
           /\ \/ c \in TwoStageCmds /\ uart' = uart \o <<Urc(c, "other"), error>>
              \/ uart' = Append(uart, error)
    /\ inbox' = Tail(inbox)
    /\ UNCHANGED <<modemOnly, modem>>

\* After a prompt the modem takes what comes for the text, be it the next command.
TakeText ==
    /\ inbox # <<>> /\ modem.asks # "none" /\ Head(inbox).cmd # "rest"
    /\ LET c    == Head(inbox).cmd
           text == IF c \in Texts THEN c ELSE "other_text"
       IN  modem' = [modem EXCEPT !.asks = "none", !.topic = IF modem.asks = "TOPIC" THEN text ELSE @,
                                  !.payload = IF modem.asks = "PAYLOAD" THEN text ELSE @]
    /\ uart' = Append(uart, Line("OK", Head(inbox).old))
    /\ inbox' = Tail(inbox)
    /\ UNCHANGED <<modemOnly, faults>>

\* The network has answered: the session is up or refused, the message is out or not.
Result ==
    /\ modem.busy # "none"
    /\ \E e \in {"zero", "other", "tls"} :
         /\ modem.busy = "PUB" => (e = "zero") = modem.session
         /\ e = "tls" => modem.busy = "CONNECT"
         /\ modem.busy \in {"START", "SUB", "HTTPREAD"} => e = "zero"
         /\ uart' = Append(uart, Urc(modem.busy, e))
         /\ modem' = [modem EXCEPT !.busy = "none", !.sending = "none", !.session = @ \/ (modem.busy = "CONNECT" /\ e = "zero")]
    /\ published' = (published \/ (modem.busy = "PUB" /\ modem.session /\ modem.sending = "payload"))
    /\ UNCHANGED <<task, inbox, connected, ready, err, tlsDiagDone, faults, obliging,
                   returned, disturbed>>

\* The session is lost and the modem says so.
LoseSession ==
    /\ modem.session /\ faults < MaxFaults
    /\ faults' = faults + 1
    /\ modem' = [modem EXCEPT !.session = FALSE]
    /\ uart' = Append(uart, Line("CONNLOST", FALSE))
    /\ UNCHANGED <<modemOnly, inbox>>

\* The modem starts anew and says nothing.
ModemRestarts ==
    /\ modem # Off /\ faults < MaxFaults
    /\ faults' = faults + 1
    /\ modem' = Off /\ inbox' = <<>>
    /\ disturbed' = TRUE
    /\ UNCHANGED <<task, uart, connected, ready, err, tlsDiagDone, obliging, published, returned>>

\* A message the firmware subscribed to comes in.
Message ==
    /\ modem.session /\ faults < MaxFaults
    /\ faults' = faults + 1
    /\ uart' = Append(uart, Line("RXSTART", FALSE))
    /\ UNCHANGED <<modemOnly, modem, inbox>>

-----------------------------------------------------------------------------
Read == ReadResult \/ ReadValue \/ ReadFirstStage \/ ReadSecondStage \/ ReadAwaited \/ ReadPrompt \/ ReadAfterData
TaskStep == (\E p \in {"init", "connect", "publish", "rssi"} : Begin(p)) \/ Send \/ Read \/ TimeOut
ModemStep == Carry \/ Refuse \/ TakeText

Next == TaskStep \/ Poll \/ ModemStep \/ Result \/ LoseSession \/ ModemRestarts \/ Message

Spec == Init /\ [][Next]_vars

\* The task keeps running and has records to publish; the modem answers.
Fairness ==
    /\ WF_vars(TaskStep) /\ WF_vars(Poll) /\ SF_vars(Begin("publish"))
    /\ WF_vars(ModemStep) /\ WF_vars(Result)

FairSpec == Spec /\ Fairness

-----------------------------------------------------------------------------
(* Properties.                                                             *)

\* When at_mqtt_publish returns true, the broker has got this very payload: its
\* record may be marked delivered.  It is a property of a modem that owes one answer
\* at most when a command is written (MaxBehind = 1): with two, and four faults, the
\* payload of an earlier publish may be sent in its place.
TrueMeansPublished == returned = "true" => published

\* A session the firmware uses is the production client's, with mutual TLS and
\* SNI, whatever the diagnosis left behind - unless in this attempt an answer that
\* came late was taken for another command's or the modem restarted.
ProductionSession ==
    (connected /\ modem.session /\ ~disturbed) =>
        modem.client = "ACCQ_prod" /\ modem.authmode = "authmode_2" /\ modem.sni

\* A session that is gone is noticed, though its notice may have been thrown
\* away - if the modem refuses a topic without a session, which decides it.
LossIsNoticed == (connected /\ ~modem.session /\ ~obliging) ~> (~connected \/ modem.session)

=============================================================================
