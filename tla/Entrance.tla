------------------------------- MODULE Entrance -------------------------------
(***************************************************************************)
(* The entrance of an application: a distribution, and the viewer mTLS in  *)
(* front of it.  A handshake is over before a request is routed, and the   *)
(* two share no state once the signal has been attached: a behaviour is    *)
(* one of either part.                                                     *)
(***************************************************************************)
EXTENDS Distribution

CONSTANTS
  Serial,      \* serial numbers of certificates
  Options      \* options applications construct ViewerMtlsAccess with

VARIABLES
  construction, options,   \* of ViewerMtlsAccess: its status and its props
  baked,                   \* and the code of its connection function
  revoked, granted, pc, cert, context, stamped, barred, entitled,
  part                     \* which of the two moves

Mtls == INSTANCE ViewerMtls WITH
  status <- construction, props <- options, code <- baked

ASSUME EntranceAssumption == DistributionAssumption /\ Mtls!OptionsAssumption

handshake == <<construction, options, baked, revoked, granted, pc, cert,
               context, stamped, barred, entitled>>
allVars == <<vars, handshake, part>>

InitEither == Init /\ Mtls!Init /\ part \in {"handshake", "distribution"}
NextEither ==
  \/ part = "handshake" /\ Mtls!Next /\ UNCHANGED <<vars, part>>
  \/ part = "distribution" /\ Next /\ UNCHANGED <<handshake, part>>
SpecEither == InitEither /\ [][NextEither]_allVars

\* What is said of the handshake, under the names the runs and theorems use.
AllowJustified == Mtls!AllowJustified
SignalTruthful == Mtls!SignalTruthful
=============================================================================
