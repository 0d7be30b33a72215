------------------------- MODULE NetworkTaskProofs -------------------------
(***************************************************************************)
(* The supervisor for any backoffs, watchdog and width of millis(): what   *)
(* it tells of the session, and that a hold-up keeps it from attaching.    *)
(***************************************************************************)
EXTENDS NetworkTask, TLAPS

-----------------------------------------------------------------------------
(* What is told of the session.                                            *)

\* The reported session is the one wasConnected stands for; it ends before a new
\* attempt begins; and a session in use is subscribed or backed off from.
SessionInv ==
    /\ connected \in BOOLEAN /\ wasConnected \in BOOLEAN
    /\ wasConnected <=> lastReport = "RECONNECTED"
    /\ at \in {"due", "init", "connect", "subscribe"} => ~wasConnected
    /\ at \in {"due", "init", "connect"} => ~connected
    /\ at = "publish" => connected
    /\ connected /\ at \in {"loop", "sleep", "publish"} =>
         /\ modemState = "MQTT_CONNECTED" <=> wasConnected
         /\ ~wasConnected => modemState = "BACKOFF"

LEMMA SessionInvKept == SessionInv /\ [Next]_vars => SessionInv'
<1> SUFFICES ASSUME SessionInv, [Next]_vars PROVE SessionInv'
  OBVIOUS
<1> USE DEF SessionInv, locals, time, power
<1>1. CASE ConnectionLost
  BY <1>1 DEF ConnectionLost
<1>2. CASE HoldUp
  BY <1>2 DEF HoldUp
<1>3. CASE NoteDisconnected
  BY <1>3 DEF NoteDisconnected
<1>4. CASE NotDueYet
  BY <1>4 DEF NotDueYet
<1>5. CASE StartAttempt
  BY <1>5 DEF StartAttempt
<1>6. CASE Work
  BY <1>6 DEF Work
<1>7. CASE Wake
  BY <1>7 DEF Wake, Begin
<1>8. CASE InitOk
  BY <1>8 DEF InitOk
<1>9. CASE ConnectOk
  BY <1>9 DEF ConnectOk
<1>10. CASE SubscribeOk
  BY <1>10 DEF SubscribeOk
<1>11. CASE InitFails \/ ConnectFails \/ HandshakeFails \/ SubscribeFails
  <2>1. at \in {"init", "connect", "subscribe"} /\ Failed
    BY <1>11 DEF InitFails, ConnectFails, HandshakeFails, SubscribeFails
  <2> QED
    BY <2>1 DEF Failed
<1>12. CASE WorkDone
  BY <1>12 DEF WorkDone
<1>13. CASE Tick
  BY <1>13 DEF Tick, Begin, Attaching
<1>14. CASE PinChanges \/ NoteMains
  BY <1>14 DEF PinChanges, NoteMains
<1>15. CASE WatchdogReset
  BY <1>15 DEF WatchdogReset
<1>16. CASE UNCHANGED vars
  BY <1>16 DEF vars
<1> QED
  BY <1>1, <1>2, <1>3, <1>4, <1>5, <1>6, <1>7, <1>8, <1>9, <1>10, <1>11, <1>12,
     <1>13, <1>14, <1>15, <1>16 DEF Next, LoopStep

\* What health snapshots and events tell of the session is so, but for a session
\* without subscription (networkTask).
THEOREM SessionsTold == Spec => SessionsAreTold
<1>1. Init => SessionInv
  BY DEF Init, SessionInv
<1>2. SessionInv => StateTellsSession
  BY DEF SessionInv, StateTellsSession
<1>3. SessionInv /\ [Next]_vars => [SubscribeOk => lastReport # "RECONNECTED"]_vars
  BY DEF SessionInv, SubscribeOk
<1> QED
  BY <1>1, <1>2, <1>3, SessionInvKept, PTL DEF Spec, SessionsAreTold, SessionsAreReported

-----------------------------------------------------------------------------
(* The hold-up.                                                            *)

\* An outage that was reported is one the supervisor knows of, and a pass that
\* knows of it has not gone on to an attempt.
OutageKnown ==
    ~wasReset =>
        /\ reported \in {"just", "before"} => onBackup /\ mainsLost
        /\ reported = "before" => at # "due"

HoldUpInv ==
    /\ onBackup \in BOOLEAN /\ mainsLost \in BOOLEAN /\ reported \in {"not", "just", "before"}
    /\ OutageKnown

LEMMA HoldUpInvKept == HoldUpInv /\ [Next]_vars => HoldUpInv'
<1> SUFFICES ASSUME HoldUpInv, [Next]_vars PROVE HoldUpInv'
  OBVIOUS
<1> USE DEF HoldUpInv, OutageKnown, locals, time, power
<1>1. CASE ConnectionLost \/ HoldUp \/ NoteDisconnected
  BY <1>1 DEF ConnectionLost, HoldUp, NoteDisconnected
<1>2. CASE NotDueYet \/ StartAttempt \/ Work
  BY <1>2 DEF NotDueYet, StartAttempt, Work
<1>3. CASE Wake
  BY <1>3 DEF Wake, Begin
<1>4. CASE InitOk \/ ConnectOk \/ SubscribeOk \/ WorkDone
  BY <1>4 DEF InitOk, ConnectOk, SubscribeOk, WorkDone
<1>5. CASE InitFails \/ ConnectFails \/ HandshakeFails \/ SubscribeFails
  BY <1>5 DEF InitFails, ConnectFails, HandshakeFails, SubscribeFails, Failed
<1>6. CASE Tick
  BY <1>6 DEF Tick, Begin
<1>7. CASE PinChanges
  BY <1>7 DEF PinChanges
<1>8. CASE NoteMains
  BY <1>8 DEF NoteMains
<1>9. CASE WatchdogReset
  BY <1>9 DEF WatchdogReset
<1>10. CASE UNCHANGED vars
  BY <1>10 DEF vars
<1> QED
  BY <1>1, <1>2, <1>3, <1>4, <1>5, <1>6, <1>7, <1>8, <1>9, <1>10 DEF Next, LoopStep

\* A pass that begins after the loss of mains was reported does not attach, unless the
\* watchdog has reset the device (networkTask against powerTask).
THEOREM HoldUpKept == Spec => HoldUpReserved
<1>1. Init => HoldUpInv
  BY DEF Init, HoldUpInv, OutageKnown
<1>2. HoldUpInv /\ HoldUpInv' /\ [Next]_vars =>
        [~Attaching /\ Attaching' /\ onBackup /\ reported = "before" => wasReset]_vars
  <2> SUFFICES ASSUME HoldUpInv, Next, ~Attaching, Attaching', reported = "before", ~wasReset
               PROVE  FALSE
    BY DEF HoldUpInv
  <2>1. at = "due"
    BY DEF Next, LoopStep, Attaching, ConnectionLost, HoldUp, NoteDisconnected, NotDueYet, StartAttempt, Work,
       Wake, Begin, InitOk, ConnectOk, SubscribeOk, WorkDone, InitFails, ConnectFails, HandshakeFails,
       SubscribeFails, Failed, Tick, PinChanges, NoteMains, WatchdogReset
  <2> QED
    BY <2>1 DEF HoldUpInv, OutageKnown
<1> QED
  BY <1>1, <1>2, HoldUpInvKept, PTL DEF Spec, HoldUpReserved

-----------------------------------------------------------------------------
(* Trying again.                                                           *)

\* What the device waits without an attempt it waits without feeding its watchdog; a
\* session, an attempt and a publish are no wait.
WaitInv ==
    /\ unfed \in 0..WatchdogTimeout /\ idle \in 0..unfed
    /\ connected \/ Attaching \/ at = "publish" => idle = 0
    /\ at \in {"due", "init", "connect"} => ~connected

LEMMA WaitInvKept == WaitInv /\ [Next]_vars => WaitInv'
<1> SUFFICES ASSUME WaitInv, [Next]_vars PROVE WaitInv'
  OBVIOUS
<1> USE TimeAssumption DEF WaitInv, Attaching, locals, time, power
<1>1. CASE ConnectionLost \/ HoldUp \/ NoteDisconnected
  BY <1>1 DEF ConnectionLost, HoldUp, NoteDisconnected
<1>2. CASE NotDueYet \/ StartAttempt \/ Work \/ Wake
  BY <1>2 DEF NotDueYet, StartAttempt, Work, Wake, Begin
<1>3. CASE InitOk \/ ConnectOk \/ SubscribeOk
  BY <1>3 DEF InitOk, ConnectOk, SubscribeOk
<1>4. CASE InitFails \/ ConnectFails \/ HandshakeFails \/ SubscribeFails
  <2>1. Attaching /\ at' = "sleep" /\ UNCHANGED <<connected, idle>> /\ unfed' \in {unfed, 0}
    BY <1>4 DEF InitFails, ConnectFails, HandshakeFails, SubscribeFails, Failed, Diagnose
  <2> QED
    BY <2>1
<1>5. CASE WorkDone
  BY <1>5 DEF WorkDone
<1>6. CASE Tick
  <2>1. unfed < WatchdogTimeout /\ unfed' = unfed + 1 /\ UNCHANGED connected
        /\ idle' = IF at = "sleep" /\ ~connected /\ ~mainsLost THEN idle + 1 ELSE 0
    BY <1>6 DEF Tick
  <2>2. (at = "sleep" /\ at' = "loop") \/ (at # "sleep" /\ at' = at)
    BY <1>6, Zenon DEF Tick, Begin
  <2> QED
    BY <2>1, <2>2
<1>7. CASE PinChanges \/ NoteMains \/ WatchdogReset
  BY <1>7 DEF PinChanges, NoteMains, WatchdogReset
<1>8. CASE UNCHANGED vars
  BY <1>8 DEF vars
<1> QED
  BY <1>1, <1>2, <1>3, <1>4, <1>5, <1>6, <1>7, <1>8 DEF Next, LoopStep

\* A disconnected device with mains tries again within the longest backoff, whatever
\* millis() does meanwhile, if its watchdog bites before that (240 s against 300 s,
\* networkTask, nextBackoff).
THEOREM RetriesKept ==
    ASSUME WatchdogTimeout <= BackoffMax + MaxJitter
    PROVE  Spec => []RetriesInTime
<1>1. Init => WaitInv
  BY TimeAssumption DEF Init, WaitInv, Attaching
<1>2. WaitInv => RetriesInTime
  BY TimeAssumption DEF WaitInv, RetriesInTime
<1> QED
  BY <1>1, <1>2, WaitInvKept, PTL DEF Spec
=============================================================================
