-------------------------- MODULE CertStoreProofs ---------------------------
(***************************************************************************)
(* The record in NVS, for any number of builds, power losses, flashings    *)
(* and faults: it is written over files that the modem has confirmed, and  *)
(* what a handshake is tried with is this build's, but for the known       *)
(* exceptions.                                                             *)
(***************************************************************************)
EXTENDS CertStore, TLAPS

\* Type correctness of files, record and attempt (at_mqtt_provision_certs).
THEOREM TypeCorrect == Spec => []TypeOK
<1> USE BuildAssumption
<1>0. 1 \in Files /\ \A f \in Files : f # 3 => f + 1 \in Files
  BY DEF Files
<1>1. Init => TypeOK
  <2> SUFFICES ASSUME Init PROVE TypeOK
    OBVIOUS
  <2>1. files \in [Files -> Builds \cup {None, Torn}]
    BY DEF Init
  <2>2. tlsFailStreak \in 0..(TlsFailsBeforeReupload - 1) /\ restarts \in 0..MaxRestarts /\ faults \in 0..MaxFaults
    BY DEF Init, TlsFailsBeforeReupload
  <2> QED
    BY <1>0, <2>1, <2>2 DEF Init, TypeOK
<1>2. TypeOK /\ [Next]_vars => TypeOK'
  <2> SUFFICES ASSUME TypeOK, [Next]_vars PROVE TypeOK'
    OBVIOUS
  <2> USE DEF TypeOK, bounds, sketch, history, GiveUp
  <2>1. CASE NoListing
    BY <2>1 DEF NoListing
  <2>2. CASE StoreOk \/ StartUpload
    BY <1>0, <2>2 DEF StoreOk, StartUpload
  <2>3. ASSUME NEW after \in {"verify", "check"}, SendFile(after) PROVE TypeOK'
    <3>1. files' \in [Files -> Builds \cup {None, Torn}]
      BY <2>3 DEF SendFile, Olds, Stored, Left
    <3>2. at' \in {at, after} /\ file' \in Files /\ ok' \in BOOLEAN /\ kept' \subseteq Files
      BY <1>0, <2>3 DEF SendFile
    <3> QED
      BY <2>3, <3>1, <3>2 DEF SendFile
  <2>4. CASE Verify
    BY <2>4 DEF Verify
  <2>5. CASE Record \/ RecordFails
    BY <2>5 DEF Record, RecordFails
  <2>6. CASE ConnectOk \/ ConnectFails
    BY <2>6 DEF ConnectOk, ConnectFails, TlsFailsBeforeReupload
  <2>7. CASE HandshakeFails
    BY <2>7 DEF HandshakeFails, TlsFailsBeforeReupload
  <2>8. CASE SessionEnds
    BY <2>8 DEF SessionEnds
  <2>9. CASE Wake
    BY <2>9 DEF Wake
  <2>10. CASE DeleteCert
    BY <1>0, <2>10 DEF DeleteCert
  <2>11. CASE UploadFile \/ UploadCert
    BY <2>3, <2>11 DEF UploadFile, UploadCert
  <2>12. CASE CheckStore
    BY <2>12 DEF CheckStore, Listings, AllListed
  <2>13. ASSUME Restart, build' \in Builds, uploader' \in BOOLEAN PROVE TypeOK'
    <3>1. files' \in [Files -> Builds \cup {None, Torn}]
      BY <2>13 DEF Restart, Olds, Left
    <3>2. at' \in {"wake", "idle"} /\ restarts' \in 0..MaxRestarts
      BY <2>13 DEF Restart
    <3>3. tlsFailStreak' \in 0..(TlsFailsBeforeReupload - 1)
      BY <2>13 DEF Restart, TlsFailsBeforeReupload
    <3> QED
      BY <1>0, <2>13, <3>1, <3>2, <3>3 DEF Restart
  <2>14. CASE PowerLoss \/ FlashBuild
    BY <2>13, <2>14 DEF PowerLoss, FlashBuild
  <2>15. CASE ModemFault
    BY <2>15 DEF ModemFault
  <2>16. CASE UNCHANGED vars
    BY <2>16 DEF vars
  <2> QED
    BY <2>1, <2>2, <2>4, <2>5, <2>6, <2>7, <2>8, <2>9, <2>10, <2>11, <2>12,
       <2>14, <2>15, <2>16 DEF Next
<1> QED
  BY <1>1, <1>2, PTL DEF Spec

-----------------------------------------------------------------------------

\* Where files are being replaced.
Replacing == {"delete", "send", "upload", "verify", "check", "record"}

\* What was sent without a failure is there, or the modem has kept what was.
SentIsThere ==
    /\ at \in {"upload", "send"} /\ ok => \A f \in Files : f < file => OwnOrKept(f)
    /\ at \in {"verify", "check"} /\ ok => \A f \in Files : OwnOrKept(f)
    /\ at = "record" => \A f \in Files : OwnOrKept(f)

\* A record vouches for the files that are there, but for kept ones, unless an upload
\* has begun since; and while files are being replaced, one has.
RecordVouches ==
    fp # None /\ ~replaced => at \notin Replacing /\ \A f \in Files : files[f] = fp \/ f \in kept

\* All this of a modem that keeps its files.
CertInv == TypeOK /\ (faults = 0 => SentIsThere /\ RecordVouches /\ TrustsOwnFilesOnly)

LEMMA CertInvKept == CertInv /\ TypeOK' /\ [Next]_vars => CertInv'
<1> SUFFICES ASSUME CertInv, TypeOK', [Next]_vars, faults' = 0
             PROVE  SentIsThere' /\ RecordVouches' /\ TrustsOwnFilesOnly'
  BY DEF CertInv
<1> USE BuildAssumption DEF CertInv, Files, None, TypeOK, Replacing, OwnOrKept, bounds, sketch, history, GiveUp,
        SentIsThere, RecordVouches, TrustsOwnFilesOnly
<1>1. CASE NoListing
  BY <1>1 DEF NoListing
<1>2. CASE StoreOk
  BY <1>2 DEF StoreOk
<1>3. CASE StartUpload
  <2>1. fp' # None => replaced'
    BY <1>3 DEF StartUpload
  <2> QED
    BY <1>3, <2>1 DEF StartUpload
<1>4. CASE UploadFile
  BY <1>4 DEF UploadFile, SendFile, Olds, Stored, Left
<1>5. CASE Verify
  BY <1>5 DEF Verify
<1>6. CASE Record \/ RecordFails
  BY <1>6 DEF Record, RecordFails
<1>7. CASE ConnectOk \/ ConnectFails \/ SessionEnds
  BY <1>7 DEF ConnectOk, ConnectFails, SessionEnds
<1>8. CASE HandshakeFails
  BY <1>8 DEF HandshakeFails
<1>9. CASE Wake
  BY <1>9 DEF Wake
<1>10. CASE DeleteCert
  BY <1>10 DEF DeleteCert
<1>11. CASE UploadCert
  BY <1>11 DEF UploadCert, SendFile, Olds, Stored, Left
<1>12. CASE CheckStore
  BY <1>12 DEF CheckStore
<1>13. CASE PowerLoss
  BY <1>13 DEF PowerLoss, Restart, Olds, Left
<1>14. CASE FlashBuild
  BY <1>14 DEF FlashBuild, Restart, Olds, Left
<1>15. CASE ModemFault
  BY <1>15 DEF ModemFault
<1>16. CASE UNCHANGED vars
  BY <1>16 DEF vars
<1> QED
  BY <1>1, <1>2, <1>3, <1>4, <1>5, <1>6, <1>7, <1>8, <1>9, <1>10, <1>11, <1>12,
     <1>13, <1>14, <1>15, <1>16 DEF Next

LEMMA CertInvHolds == Spec => []CertInv
<1>1. Init /\ TypeOK => CertInv
  BY DEF Init, CertInv, SentIsThere, RecordVouches, TrustsOwnFilesOnly, bounds, sketch, history
<1> QED
  BY <1>1, TypeCorrect, CertInvKept, PTL DEF Spec

\* What a handshake is tried with is what the build contains, but for faults of the modem,
\* files it kept under an OK, and uploads begun over a record and not completed
\* (at_mqtt_provision_certs: all files listed and the record this build's).
THEOREM OwnFilesAreTrusted == Spec => []TrustsOwnFilesOnly
<1>1. CertInv => TrustsOwnFilesOnly
  BY BuildAssumption DEF CertInv, TrustsOwnFilesOnly, TypeOK
<1> QED
  BY <1>1, CertInvHolds, PTL

\* The record is written, and the uploader reports success, only over complete files of
\* the bundle in question, but for those that could not be deleted and that the modem
\* kept under an OK (at_mqtt_provision_certs, and setup() of the uploader).
THEOREM RecordEarned == Spec => RecordIsEarned
<1>1. CertInv /\ [Next]_vars =>
        [fp' \notin {fp, None} \/ (claim' /\ ~claim)
           => faults > 0 \/ \A f \in Files : OwnOrKept(f)]_vars
  <2> SUFFICES ASSUME CertInv, Next, faults = 0, fp' \notin {fp, None} \/ (claim' /\ ~claim)
               PROVE  \A f \in Files : OwnOrKept(f)
    BY BuildAssumption DEF CertInv, TypeOK
  <2>1. SentIsThere
    BY DEF CertInv
  <2>2. CASE fp' \notin {fp, None}
    <3>1. Record
      BY <2>2 DEF Next, NoListing, StoreOk, StartUpload, UploadFile, SendFile, Verify, RecordFails, ConnectOk,
         ConnectFails, HandshakeFails, SessionEnds, Wake, DeleteCert, UploadCert, CheckStore, PowerLoss,
         FlashBuild, Restart, ModemFault, sketch, history, bounds
    <3> QED
      BY <2>1, <3>1 DEF Record, SentIsThere
  <2>3. CASE claim' /\ ~claim
    <3>1. CheckStore
      BY <2>3 DEF Next, NoListing, StoreOk, StartUpload, UploadFile, SendFile, Verify, Record, RecordFails, ConnectOk,
         ConnectFails, HandshakeFails, SessionEnds, Wake, DeleteCert, UploadCert, PowerLoss,
         FlashBuild, Restart, ModemFault, sketch, history, bounds
    <3> QED
      BY <2>1, <2>3, <3>1 DEF CheckStore, SentIsThere
  <2> QED
    BY <2>2, <2>3
<1> QED
  BY <1>1, CertInvHolds, PTL DEF Spec, RecordIsEarned
=============================================================================
