----------------------------- MODULE MCServices ------------------------------
(***************************************************************************)
(* Services with small values for its constants; those that are no         *)
(* literals are defined here.                                              *)
(***************************************************************************)
EXTENDS Services

Reading(yy, mo, dd, quarter, zone, day, utcQuarter) ==
    [yy |-> yy, mo |-> mo, dd |-> dd, quarter |-> quarter, zone |-> zone,
     utc |-> 96 * day + utcQuarter]

\* No zone is as far from UTC as this.
MCNoZone == 99

\* 1970, as two digits say it: read as 2070.
MCUnset == Reading(70, 1, 1, 0, 0, 0, 0)

\* Clocks of a modem, each with its day since 1970 and quarter hour in UTC.
MCReadings == {
    MCUnset,
    Reading(19, 12, 31, 95,   0, 18261, 95),   \* the last quarter hour before 2020
    Reading(19, 12, 31, 95, -20, 18262, 19),   \* 2020 in UTC, not yet in New York
    Reading(20,  1,  1,  0,  22, 18261, 74),   \* 2020 in India, not yet in UTC
    Reading(24,  2, 29, 40,   0, 19782, 40),
    Reading(25,  1,  1,  2,  22, 20088, 76),   \* five and a half hours east of UTC
    Reading(27, 12, 31, 90, -14, 21184,  8),   \* three and a half hours west of it
    Reading(37, 12, 31, 95,   0, 24836, 95),
    Reading(38,  6, 15,  0,   0, 25002,  0),   \* after the last second of 32 bits
    Reading(26,  3,  1, 48, MCNoZone, 20513, 48) }

File(label, der, pair, crlf) == [label |-> label, der |-> der, pair |-> pair, crlf |-> crlf]

\* What an engineer may put into the PEM files: another key pair, other line ends, DER that
\* cannot be read, the public instead of the private key.
MCContents == [
    ca   |-> {File("none", FALSE, 0, FALSE), File("CERTIFICATE", TRUE, 3, FALSE)},
    cert |-> {File("CERTIFICATE", TRUE, 1, FALSE), File("CERTIFICATE", TRUE, 1, TRUE),
              File("CERTIFICATE", TRUE, 2, FALSE), File("CERTIFICATE", FALSE, 1, FALSE)},
    key  |-> {File("PRIVATE KEY", TRUE, 1, FALSE), File("PRIVATE KEY", TRUE, 2, FALSE),
              File("PUBLIC KEY", TRUE, 1, FALSE)}]
=============================================================================
