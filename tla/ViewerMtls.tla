----------------------------- MODULE ViewerMtls -----------------------------
(***************************************************************************)
(* Viewer mTLS of a distribution.  ViewerMtlsAccess settles its options    *)
(* and bakes them into a connection function, which decides every TLS      *)
(* handshake: it reads the revocation store, then the store of grants,     *)
(* while a registry writes both.  A viewer-response function stamps a      *)
(* cookie on the answers of a connection whose context says that a         *)
(* certificate was presented.                                              *)
(***************************************************************************)
EXTENDS Naturals

CONSTANTS
  Serial,      \* serial numbers of certificates
  Options      \* options applications construct ViewerMtlsAccess with

Mode      == {"Required", "Optional", "Passthrough"}
Assurance == {"software", "hardware"}

\* ViewerMtlsAccessProps; "unset" is an option left out.  authz: the property
\* whose markers are asked for; "empty" is one whose id is the empty string.
Props ==
  [mode : Mode \cup {"unset"}, minAssurance : Assurance \cup {"unset"},
   bucket : BOOLEAN, key : BOOLEAN, existing : BOOLEAN,
   authz : {"unset", "empty", "property"}, signal : BOOLEAN]

\* A certificate CloudFront has validated, with the assurance of its SAN URIs.
Cert == [serial : Serial, assurance : Assurance \cup {"none"}]
NoCert == [serial |-> "none", assurance |-> "none"]

\* What the constants have to be.
OptionsAssumption ==
  /\ Options \subseteq Props /\ Options # {} /\ "none" \notin Serial

VARIABLES
  status,      \* the construct: new, threw or deployed
  props,       \* what it was constructed with
  code,        \* the placeholders of the connection function, filled in
  revoked,     \* serials in the revocation store
  granted,     \* serials with a marker "<propertyId>:<serial>"
  pc,          \* the handshake: idle, revocation, grant, open or denied
  cert,        \* the certificate offered
  context,     \* certPresent of the request context
  stamped,     \* the last answer of the connection, "none" before one
  barred,      \* history: the serial was revoked all through the handshake
  entitled     \* history: it had a marker at some time in the handshake

setup      == <<status, props, code>>
stores     == <<revoked, granted>>
connection == <<pc, cert, context, stamped>>
vars       == <<setup, stores, connection, barred, entitled>>

Default(option, otherwise) == IF option = "unset" THEN otherwise ELSE option

\* buildConnectionFunctionCode, with the defaults of the constructor.
Code(p) ==
  [mode |-> Default(p.mode, "Required"),
   minAssurance |-> Default(p.minAssurance, "software"),
   propertyId |-> IF p.authz = "property" THEN "property" ELSE ""]

TypeOK ==
  /\ status \in {"new", "threw", "deployed"}
  /\ props \in Props
  /\ code \in [mode : Mode, minAssurance : Assurance,
               propertyId : {"", "property"}]
  /\ revoked \subseteq Serial /\ granted \subseteq Serial
  /\ pc \in {"idle", "revocation", "grant", "open", "denied"}
  /\ cert \in Cert \cup {NoCert}
  /\ context \in {"unset", "true", "false"}
  /\ stamped \in {"none", "yes", "no"}
  /\ barred \in BOOLEAN /\ entitled \in BOOLEAN

-----------------------------------------------------------------------------
(* The construct                                                           *)

\* A trust store comes from a bundle in S3 or exists already, never both; half
\* a bundle beside an existing one is refused too.
Refused(p) ==
  \/ (p.bucket \/ p.key) /\ p.existing
  \/ ~p.existing /\ ~(p.bucket /\ p.key)

Construct(p) ==
  /\ status = "new" /\ props' = p /\ code' = Code(p)
  /\ status' = IF Refused(p) THEN "threw" ELSE "deployed"
  /\ UNCHANGED <<stores, connection, barred, entitled>>

-----------------------------------------------------------------------------
(* The handshake                                                           *)

\* parseAssurance and ASSURANCE_RANK
Rank == [none |-> 0, software |-> 1, hardware |-> 2]
Below(c) == c.assurance = "none" \/ Rank[c.assurance] < Rank[code.minAssurance]

Detecting == code.mode \in {"Optional", "Passthrough"}

Connect(c) ==
  /\ status = "deployed" /\ pc = "idle"
  /\ cert' = c /\ stamped' = "none"
  /\ IF Detecting
     THEN /\ context' = IF c # NoCert THEN "true" ELSE "false"
          /\ pc' = "open"
     ELSE /\ context' = "unset"
          /\ pc' = IF c = NoCert \/ Below(c) THEN "denied" ELSE "revocation"
  /\ barred' = (c.serial \in revoked) /\ entitled' = (c.serial \in granted)
  /\ UNCHANGED <<setup, stores>>

Decide(from, to) ==
  /\ pc = from /\ pc' = to
  /\ UNCHANGED <<setup, stores, cert, context, stamped, barred, entitled>>

\* A read that fails is an error of the function, and an error denies.
ReadRevocation ==
  \/ Decide("revocation", "denied")
  \/ /\ cert.serial \notin revoked
     /\ Decide("revocation", IF code.propertyId # "" THEN "grant" ELSE "open")
\* Mutant of ReadGrant: the marker is of any certificate of the property.
ReadGrantAny ==
  \/ Decide("grant", "denied")
  \/ granted # {} /\ Decide("grant", "open")
ReadGrant ==
  \/ Decide("grant", "denied")
  \/ cert.serial \in granted /\ Decide("grant", "open")

\* The viewer-response function, on each answer of the connection.
StampIfSet(c) == c # "unset"    \* Mutant of Stamp: "false" is true in JavaScript
Stamp(c) == c = "true"
Respond ==
  /\ pc = "open" /\ props.signal
  /\ stamped' = IF Stamp(context) THEN "yes" ELSE "no"
  /\ UNCHANGED <<setup, stores, pc, cert, context, barred, entitled>>

Disconnect ==
  /\ pc \in {"open", "denied"} /\ pc' = "idle"
  /\ cert' = NoCert /\ context' = "unset" /\ stamped' = "none"
  /\ barred' = FALSE /\ entitled' = FALSE
  /\ UNCHANGED <<setup, stores>>

-----------------------------------------------------------------------------
(* The registry that writes the stores                                     *)

Register ==
  /\ status = "deployed" /\ pc \in {"idle", "revocation", "grant"}
  /\ \E s \in Serial :
       \/ /\ revoked' \in {revoked \cup {s}, revoked \ {s}} \ {revoked}
          /\ UNCHANGED granted
       \/ /\ granted' \in {granted \cup {s}, granted \ {s}} \ {granted}
          /\ UNCHANGED revoked
  /\ barred' = (barred /\ cert.serial \in revoked')
  /\ entitled' = (entitled \/ cert.serial \in granted')
  /\ UNCHANGED <<setup, connection>>

Init ==
  /\ status = "new" /\ props = (CHOOSE p \in Options : TRUE)
  /\ code = [mode |-> "Required", minAssurance |-> "software", propertyId |-> ""]
  /\ revoked = {} /\ granted = {}
  /\ pc = "idle" /\ cert = NoCert /\ context = "unset" /\ stamped = "none"
  /\ barred = FALSE /\ entitled = FALSE

Next ==
  \/ \E p \in Options : Construct(p)
  \/ \E c \in Cert \cup {NoCert} : Connect(c)
  \/ ReadRevocation \/ ReadGrant \/ Respond \/ Disconnect \/ Register

Spec == Init /\ [][Next]_vars

-----------------------------------------------------------------------------
(* Properties                                                              *)

\* "Allow = (valid chain, by CloudFront) AND (assurance >= min) AND (not
\* revoked) AND (per-property grant where configured)" (mtls-connection.js:90),
\* over stores that change between the two reads: of a connection that was let
\* in, the certificate was not revoked all through the handshake, and had its
\* marker at some time in it.  An application that gives a store of markers and
\* an empty property id gets no authorisation (mtls-connection.js:26).
AllowJustified ==
  (pc = "open" /\ Default(props.mode, "Required") = "Required") =>
    /\ cert # NoCert /\ cert.assurance # "none" /\ ~barred
    /\ props.minAssurance = "hardware" => cert.assurance = "hardware"
    /\ entitled \/ props.authz \in {"unset", "empty"}

\* The cookie says that this connection presented a certificate, and says so of
\* every one that did, except where a certificate is required: there the
\* connection function sets no context, and the cookie, documented as set "iff
\* a valid certificate was presented" (viewer-mtls-access.ts:59), never is.
SignalTruthful ==
  /\ stamped = "yes" => cert # NoCert
  /\ stamped = "no" => cert = NoCert \/ Default(props.mode, "Required") = "Required"
=============================================================================
