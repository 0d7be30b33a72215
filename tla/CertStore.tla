----------------------------- MODULE CertStore ------------------------------
(***************************************************************************)
(* How the firmware keeps the certificate files on the modem equal to the  *)
(* ones of its build (src/at_mqtt.cpp, at_mqtt_provision_certs and the end *)
(* of at_mqtt_connect).                                                    *)
(*                                                                         *)
(* The modem lists file names, never contents.  So the firmware keeps a    *)
(* record in NVS, the fingerprint of the bundle it uploaded last, and      *)
(* trusts the files if all three are listed and the record is its own      *)
(* bundle's.  Power may fail at any step and the device may be flashed     *)
(* with another build; the record and the files survive, the count of TLS  *)
(* failures does not.                                                      *)
(*                                                                         *)
(* The device may also be flashed with the uploader                        *)
(* (src/cert_uploader/src/main.cpp), a recovery tool of one of the builds  *)
(* that replaces the files and knows nothing of the record.                *)
(***************************************************************************)
EXTENDS Integers

CONSTANTS
    Builds,       \* builds of the firmware, each with a bundle of its own
    MaxRestarts,  \* bound: power losses and flashings
    MaxFaults     \* bound: files lost or damaged inside the modem

ASSUME BuildAssumption ==
    /\ Builds \subseteq Nat \ {0} /\ Builds # {}
    /\ MaxRestarts \in Nat /\ MaxFaults \in Nat

Files == 1..3   \* CA, certificate and key, in the order of upload
None  == 0      \* no such file; no record
Torn  == -1     \* a file whose content is of no bundle

TlsFailsBeforeReupload == 2

VARIABLES
    build,          \* the build the device runs
    files,          \* the content of each file on the modem
    fp,             \* the record in NVS
    tlsFailStreak,  \* _tlsFailStreak
    at,             \* where the connect attempt is
    file, ok,       \* the file being uploaded; no upload failed so far
    restarts, faults,
    uploader,       \* is it the uploader the device has been flashed with?
    claim,          \* did the uploader say that all certificates are verified?
    replaced,       \* history: an upload has begun over files that a record vouches for
    kept            \* history: files of the last upload that the modem confirmed, keeping the old ones

bounds  == <<restarts, faults>>
sketch  == <<uploader, claim>>
history == <<replaced, kept>>
vars    == <<build, files, fp, tlsFailStreak, at, file, ok, bounds, sketch, history>>

Init ==
    /\ build \in Builds
    /\ files = [f \in Files |-> None] /\ fp = None
    /\ tlsFailStreak = 0
    /\ at = "idle" /\ file = 1 /\ ok = TRUE
    /\ restarts = 0 /\ faults = 0
    /\ uploader = FALSE /\ claim = FALSE
    /\ replaced = FALSE /\ kept = {}

-----------------------------------------------------------------------------
(* at_mqtt_provision_certs.                                                *)

AllListed == \A f \in Files : files[f] # None
AllOwn    == \A f \in Files : files[f] = build

\* _cert_list, if it gets an answer: whether the three names are there, or an ERROR
\* in place of them, which is not told from an empty store.
Listings == {FALSE, AllListed}

GiveUp == at' = "idle"

NoListing ==
    /\ at = "idle" /\ GiveUp
    /\ UNCHANGED <<build, files, fp, tlsFailStreak, file, ok, bounds, sketch, history>>

StoreOk_ListingOnly ==
    /\ at = "idle" /\ AllListed
    /\ at' = "connect"
    /\ UNCHANGED <<build, files, fp, tlsFailStreak, file, ok, bounds, sketch, history>>

\* All files are listed and the record is this build's: nothing to do.
StoreOk ==
    /\ at = "idle" /\ AllListed /\ fp = build
    /\ at' = "connect"
    /\ UNCHANGED <<build, files, fp, tlsFailStreak, file, ok, bounds, sketch, history>>

\* A file is missing or the record is another one; or the listing ends in ERROR,
\* which counts as one without files, whatever the record says.
StartUpload ==
    /\ at = "idle" /\ \E listed \in Listings : ~(listed /\ fp = build)
    /\ at' = "upload" /\ file' = 1 /\ ok' = TRUE
    /\ replaced' = (fp # None) /\ kept' = {}
    /\ UNCHANGED <<build, files, fp, tlsFailStreak, bounds, sketch>>

\* The file under the name when its upload begins.  The firmware has just deleted
\* it and does not look whether that succeeded; the uploader has done so before.
Olds == {files[file]} \cup (IF at = "upload" THEN {None} ELSE {})

\* The modem does not overwrite.  What is there after its OK, and what may be
\* there without one: a new file may be missing, cut short, or complete.
Stored(old) == IF old = None THEN build ELSE old
Left(old)   == IF old = None THEN {None, Torn, build} ELSE {old}

\* One file sent to the modem; one that fails does not keep the others from running.
SendFile(after) ==
    /\ \E old \in Olds :
          \/ /\ files' = [files EXCEPT ![file] = Stored(old)] /\ ok' = ok
             /\ kept' = IF ok /\ Stored(old) # build THEN kept \cup {file} ELSE kept
          \/ /\ \E content \in Left(old) : files' = [files EXCEPT ![file] = content]
             /\ ok' = FALSE /\ kept' = {}
    /\ IF file = 3 THEN at' = after /\ file' = 1 ELSE at' = at /\ file' = file + 1
    /\ UNCHANGED <<build, fp, tlsFailStreak, bounds, sketch, replaced>>

\* _cert_download.
UploadFile == at = "upload" /\ SendFile("verify")

Verify_ListingOnly ==
    /\ at = "verify" /\ ok' = TRUE
    /\ IF AllListed THEN at' = "record" ELSE GiveUp
    /\ UNCHANGED <<build, files, fp, tlsFailStreak, file, bounds, sketch, history>>

\* Three OKs and a complete listing (or none comes).
Verify ==
    /\ at = "verify" /\ ok' = TRUE
    /\ \/ ok /\ AllListed /\ at' = "record"
       \/ GiveUp
    /\ UNCHANGED <<build, files, fp, tlsFailStreak, file, bounds, sketch, history>>

\* The record is written; that NVS cannot be written is not fatal.
Record ==
    /\ at = "record"
    /\ fp' = build
    /\ at' = "connect"
    /\ replaced' = FALSE
    /\ UNCHANGED <<build, files, tlsFailStreak, file, ok, bounds, sketch, kept>>

RecordFails ==
    /\ at = "record"
    /\ at' = "connect"
    /\ replaced' = (replaced /\ fp # build)
    /\ UNCHANGED <<build, files, fp, tlsFailStreak, file, ok, bounds, sketch, kept>>

-----------------------------------------------------------------------------
(* The rest of at_mqtt_connect.                                            *)

\* The handshake needs the three files of one bundle.
ConnectOk ==
    /\ at = "connect" /\ AllOwn
    /\ at' = "session"
    /\ tlsFailStreak' = 0
    /\ UNCHANGED <<build, files, fp, file, ok, bounds, sketch, history>>

\* A setup command, the broker or its answer fails: not a TLS failure.
ConnectFails ==
    /\ at = "connect" /\ GiveUp
    /\ UNCHANGED <<build, files, fp, tlsFailStreak, file, ok, bounds, sketch, history>>

HandshakeFails_CountOnly ==
    /\ at = "connect" /\ GiveUp
    /\ tlsFailStreak' = IF tlsFailStreak + 1 >= TlsFailsBeforeReupload THEN 0 ELSE tlsFailStreak + 1
    /\ UNCHANGED <<build, files, fp, file, ok, bounds, sketch, history>>

\* The handshake fails, whatever the reason; the second time in a row the
\* record is dropped, if NVS can be written.
HandshakeFails ==
    /\ at = "connect" /\ GiveUp
    /\ IF tlsFailStreak + 1 >= TlsFailsBeforeReupload
       THEN fp' \in {None, fp} /\ tlsFailStreak' = 0
       ELSE tlsFailStreak' = tlsFailStreak + 1 /\ UNCHANGED fp
    /\ replaced' = (replaced /\ fp' # None)
    /\ UNCHANGED <<build, files, file, ok, bounds, sketch, kept>>

SessionEnds ==
    /\ at = "session" /\ GiveUp
    /\ UNCHANGED <<build, files, fp, tlsFailStreak, file, ok, bounds, sketch, history>>

-----------------------------------------------------------------------------
(* setup() of the uploader: it runs once, deletes, uploads and verifies.   *)

\* The modem is awake and its store has been listed, or it does not answer.
Wake ==
    /\ at = "wake"
    /\ \/ at' = "delete" /\ replaced' = (fp # None) /\ kept' = {}
       \/ at' = "over" /\ UNCHANGED history
    /\ UNCHANGED <<build, files, fp, tlsFailStreak, file, ok, bounds, sketch>>

\* _delete_cert: whether there was one to delete, or it could not be, is all the same.
DeleteCert ==
    /\ at = "delete"
    /\ \E content \in {None, files[file]} : files' = [files EXCEPT ![file] = content]
    /\ IF file = 3 THEN at' = "send" /\ file' = 1 ELSE at' = at /\ file' = file + 1
    /\ UNCHANGED <<build, fp, tlsFailStreak, ok, bounds, sketch, history>>

\* _upload_cert.
UploadCert == at = "send" /\ SendFile("check")

\* "ALL CERTIFICATES VERIFIED ON MODEM", or that it failed.
CheckStore ==
    /\ at = "check"
    /\ \E listed \in Listings : claim' = (ok /\ listed)
    /\ at' = "over" /\ ok' = TRUE
    /\ UNCHANGED <<build, files, fp, tlsFailStreak, file, bounds, uploader, history>>

-----------------------------------------------------------------------------
(* The world around.                                                       *)

\* The device starts again, with the file under way left unfinished.
Restart ==
    /\ restarts < MaxRestarts /\ restarts' = restarts + 1
    /\ IF at \in {"upload", "send"}
       THEN \E old \in Olds : \E content \in Left(old) : files' = [files EXCEPT ![file] = content]
       ELSE UNCHANGED files
    /\ tlsFailStreak' = 0 /\ file' = 1 /\ ok' = TRUE /\ claim' = FALSE
    /\ at' = IF uploader' THEN "wake" ELSE "idle"
    /\ UNCHANGED <<fp, faults, history>>

PowerLoss ==
    /\ UNCHANGED <<build, uploader>>
    /\ Restart

\* The device is flashed with another build, an earlier one perhaps, or with the
\* uploader of a build.
FlashBuild ==
    /\ build' \in Builds /\ uploader' \in BOOLEAN
    /\ <<build', uploader'>> # <<build, uploader>>
    /\ Restart

\* The modem loses or damages a file.
ModemFault ==
    /\ faults < MaxFaults /\ faults' = faults + 1
    /\ \E f \in Files, content \in {None, Torn} : files' = [files EXCEPT ![f] = content]
    /\ UNCHANGED <<build, fp, tlsFailStreak, at, file, ok, restarts, sketch, history>>

Next ==
    \/ NoListing \/ StoreOk \/ StartUpload
    \/ UploadFile \/ Verify \/ Record \/ RecordFails
    \/ ConnectOk \/ ConnectFails \/ HandshakeFails \/ SessionEnds
    \/ Wake \/ DeleteCert \/ UploadCert \/ CheckStore
    \/ PowerLoss \/ FlashBuild \/ ModemFault

Spec == Init /\ [][Next]_vars

\* networkTask tries again and again (WF on the step it is at); the modem
\* does list, delete and take its files and get through to the broker every so
\* often, NVS can be written every so often, and a handshake that has the right
\* files succeeds every so often (SF).
SendsUpTo(f) == UploadFile /\ file = f /\ ok' /\ \A g \in 1..f : files'[g] = build

Fairness ==
    /\ SF_vars(StoreOk \/ StartUpload)
    /\ WF_vars(UploadFile)
    /\ \A f \in Files : SF_vars(SendsUpTo(f))
    /\ SF_vars(Verify /\ AllOwn /\ at' = "record") /\ WF_vars(Verify)
    /\ SF_vars(Record) /\ WF_vars(SessionEnds)
    /\ SF_vars(ConnectOk)
    /\ SF_vars(HandshakeFails /\ fp' = None)
    /\ SF_vars(HandshakeFails /\ tlsFailStreak' = 1)

FairSpec == Spec /\ Fairness

-----------------------------------------------------------------------------
(* Properties.                                                             *)

\* The type invariant.
TypeOK ==
    /\ build \in Builds /\ fp \in Builds \cup {None}
    /\ files \in [Files -> Builds \cup {None, Torn}]
    /\ tlsFailStreak \in 0..(TlsFailsBeforeReupload - 1)
    /\ at \in {"idle", "upload", "verify", "record", "connect", "session",
              "wake", "delete", "send", "check", "over"}
    /\ file \in Files /\ ok \in BOOLEAN /\ uploader \in BOOLEAN /\ claim \in BOOLEAN
    /\ replaced \in BOOLEAN /\ kept \subseteq Files
    /\ restarts \in 0..MaxRestarts /\ faults \in 0..MaxFaults

\* A file is this build's, or the modem kept what was there when the last upload sent it.
OwnOrKept(f) == files[f] = build \/ f \in kept

\* The record names a bundle only once its three files are on the modem, and the
\* uploader says so only then, unless the modem itself lost one in between or
\* answered OK to an upload over a file that had not been deleted: the results of
\* the deletions are thrown away (at_mqtt.cpp:204-207, _delete_cert of the uploader).
RecordIsEarned ==
    [][fp' \notin {fp, None} \/ (claim' /\ ~claim)
         => faults > 0 \/ \A f \in Files : OwnOrKept(f)]_vars

\* With builds, power and modem at rest in the end and the firmware on the device,
\* it has sessions again and again, whatever files and record it starts from.
GetsThrough == []<>(at = "session" \/ uploader)

\* What the handshake is tried with is what the build contains, unless the
\* modem lost a file or kept one under an OK, or a record still vouches for files
\* over which an upload has begun and not been completed: one of another build,
\* of the uploader, or of this build after a listing that ended in ERROR
\* (at_mqtt.cpp:195-197).
TrustsOwnFilesOnly ==
    at = "connect" => (\A f \in Files : OwnOrKept(f)) \/ faults > 0 \/ replaced
=============================================================================
