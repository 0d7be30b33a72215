------------------------------ MODULE CertBuild ------------------------------
(***************************************************************************)
(* How the certificates get into an image (scripts/gen_certs.py): before a *)
(* build of the firmware or of the uploader the script looks at the PEM    *)
(* files and at the endpoint in config.h, refuses what cannot work, and    *)
(* writes the header that both projects compile. An engineer may edit the  *)
(* files at any time and run both builds at once.                          *)
(*                                                                         *)
(* A PEM file is its label, whether its DER can be read for what it is     *)
(* meant to be, the key pair it belongs to and its line ends.              *)
(***************************************************************************)
EXTENDS Naturals

CONSTANTS Builds,    \* builds that may run at once
          Contents,  \* [ca, cert, key |-> what an engineer may put into each file]
          MaxEdits   \* bound: edits

Absent == [label |-> "none", der |-> FALSE, pair |-> 0, crlf |-> FALSE]
Files == {"ca", "cert", "key"}   \* ca: SERVER_CA_FILE, which may be absent
AmazonCa == [label |-> "CERTIFICATE", der |-> TRUE, pair |-> 0, crlf |-> FALSE]

\* What the constants must be: files of which none is Amazon's.
ContentsAssumption ==
    /\ \A f \in Files :
         Contents[f] \subseteq {Absent} \cup
             [label : {"none", "CERTIFICATE", "PRIVATE KEY", "PUBLIC KEY"}, der : BOOLEAN,
              pair : Nat \ {0}, crlf : BOOLEAN]
    /\ MaxEdits \in Nat

VARIABLES
    files, awsDefault,   \* the PEM files; is MQTT_BROKER_HOST the default endpoint?
    header,              \* certs_generated.h: "none", "partial" or "whole", and its contents
    build,               \* where each build is and what it has read
    image,               \* what each build made last
    edits,
    edited               \* history: an edit came in since builds are running

vars == <<files, awsDefault, header, build, image, edits, edited>>

Nothing == [f \in Files |-> Absent]
Idle == [at |-> "idle"]

Init ==
    /\ \E c \in Contents["cert"], k \in Contents["key"] :
         files = [Nothing EXCEPT !["cert"] = c, !["key"] = k]
    /\ awsDefault = TRUE
    /\ header = [st |-> "none", of |-> Nothing, bundle |-> Nothing]
    /\ build = [b \in Builds |-> Idle]
    /\ image = [b \in Builds |-> [st |-> "none"]]
    /\ edits = 0 /\ edited = FALSE

Goto(b, c) == build' = [build EXCEPT ![b] = c]
\* A CertError ends the build.
Fail(b) == Goto(b, Idle)
Running == {b \in Builds : build[b].at # "idle"}
\* A build with what it has read.
At(b, place, read) == [at |-> place, customCa |-> build[b].customCa, read |-> read]
workstationRests == UNCHANGED <<files, awsDefault, edits>>

-----------------------------------------------------------------------------
(* generate() and the compiler.                                            *)

\* Which CA is it to be?
Begin(b) ==
    /\ build[b].at = "idle"
    /\ Goto(b, [at |-> "endpoint", customCa |-> files["ca"] # Absent])
    /\ edited' = (edited /\ Running # {})
    /\ workstationRests /\ UNCHANGED <<header, image>>

\* check_endpoint_matches_ca.
CheckEndpoint(b) ==
    /\ build[b].at = "endpoint"
    /\ IF build[b].customCa = awsDefault THEN Fail(b)
       ELSE Goto(b, At(b, "ca", Nothing))
    /\ workstationRests /\ UNCHANGED <<header, image, edited>>

\* read_text, one file after the other.
After(f) == CASE f = "ca" -> "cert" [] f = "cert" -> "key" [] f = "key" -> "check"
ReadText(b, f) ==
    /\ build[b].at = f
    /\ LET content == IF f = "ca" /\ ~build[b].customCa THEN AmazonCa ELSE files[f]
       IN  IF content = Absent THEN Fail(b)
           ELSE Goto(b, At(b, After(f), [build[b].read EXCEPT ![f] = content]))
    /\ workstationRests /\ UNCHANGED <<header, image, edited>>

\* pem_to_der, der_read, parse_certificate, parse_private_key; the CA is judged by its
\* label.
IsPem(file) == file.label # "none"
IsDer(file) == file.der
IsCertificate(file) == file.label = "CERTIFICATE" /\ IsDer(file)
IsPrivateKey(file) == file.label # "PUBLIC KEY" /\ IsDer(file)

Usable(read) ==
    /\ \A f \in Files : IsPem(read[f])
    /\ read["ca"].label = "CERTIFICATE"
    /\ IsCertificate(read["cert"]) /\ IsPrivateKey(read["key"])
    /\ read["key"].pair = read["cert"].pair

Check(b) ==
    /\ build[b].at = "check"
    /\ IF Usable(build[b].read) THEN Goto(b, At(b, "header", build[b].read)) ELSE Fail(b)
    /\ workstationRests /\ UNCHANGED <<header, image, edited>>

\* What the compiler gets, and what the fingerprint is taken of: neither has a CR.
CStringLiteral(file) == [file EXCEPT !.crlf = FALSE]

Normalise_Identity(file) == file
Normalise(file) == [file EXCEPT !.crlf = FALSE]

HeaderOf(read) == [st |-> "whole", of |-> [f \in Files |-> CStringLiteral(read[f])],
                   bundle |-> [f \in Files |-> Normalise(read[f])]]

\* An unchanged header is left alone, another one is opened, which empties it.
OpenHeader(b) ==
    /\ build[b].at = "header"
    /\ IF header = HeaderOf(build[b].read)
         THEN Goto(b, [at |-> "compile"]) /\ UNCHANGED header
         ELSE Goto(b, At(b, "write", build[b].read)) /\ header' = [header EXCEPT !.st = "partial"]
    /\ workstationRests /\ UNCHANGED <<image, edited>>

\* Two builds that write at once leave the header of the last, and behind it the rest
\* of the other's, if that was longer.
Write(b) ==
    /\ build[b].at = "write"
    /\ LET mine == HeaderOf(build[b].read)
       IN  header' \in {mine} \cup
             (IF header.st = "whole" /\ header # mine THEN {[mine EXCEPT !.st = "partial"]} ELSE {})
    /\ Goto(b, [at |-> "compile"])
    /\ workstationRests /\ UNCHANGED <<image, edited>>

\* The compiler takes the header and config.h as they are by then.
Compile(b) ==
    /\ build[b].at = "compile"
    /\ image' = IF header.st = "whole"
                  THEN [image EXCEPT ![b] = [st |-> "whole", of |-> header.of, bundle |-> header.bundle,
                                             awsDefault |-> awsDefault, edited |-> edited]]
                  ELSE image
    /\ Goto(b, Idle)
    /\ workstationRests /\ UNCHANGED <<header, edited>>

-----------------------------------------------------------------------------
EditFile(f, content) ==
    /\ edits < MaxEdits /\ edits' = edits + 1 /\ content # files[f]
    /\ files' = [files EXCEPT ![f] = content]
    /\ edited' = (edited \/ Running # {})
    /\ UNCHANGED <<awsDefault, header, build, image>>

EditEndpoint ==
    /\ edits < MaxEdits /\ edits' = edits + 1
    /\ awsDefault' = ~awsDefault
    /\ edited' = (edited \/ Running # {})
    /\ UNCHANGED <<files, header, build, image>>

Next ==
    \/ \E b \in Builds : \/ Begin(b) \/ CheckEndpoint(b) \/ (\E f \in Files : ReadText(b, f))
                         \/ Check(b) \/ OpenHeader(b) \/ Write(b) \/ Compile(b)
    \/ \E f \in Files : \E content \in Contents[f] : EditFile(f, content)
    \/ EditEndpoint

Spec == Init /\ [][Next]_vars

-----------------------------------------------------------------------------
Images == {image[b] : b \in {x \in Builds : image[x].st = "whole"}}

\* Whatever is edited and however builds overlap, an image has the private key of its
\* certificate, and two images have one fingerprint exactly if they have the same
\* files; unless an edit came while builds ran, the CA is that of the endpoint
\* (gen_certs.py:18 "client key's RSA modulus must equal the client certificate's",
\* gen_certs.py:383 "Fail the build when the trusted CA cannot possibly verify the
\* endpoint").
ImagesAreSound ==
    /\ \A i \in Images :
         /\ IsPrivateKey(i.of["key"]) /\ IsCertificate(i.of["cert"])
         /\ i.of["key"].pair = i.of["cert"].pair
         /\ ~i.edited => (i.of["ca"] = AmazonCa) = i.awsDefault
    /\ \A i, j \in Images : (i.of = j.of) = (i.bundle = j.bundle)
=============================================================================
