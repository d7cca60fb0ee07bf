------------------------------ MODULE Services ------------------------------
(***************************************************************************)
(* The services behind a distribution: the SCIM directory, the one of      *)
(* roles, and the sessions of the custom sign-in page.  Each has tables of *)
(* its own, and they share nothing: a behaviour of the composition is one  *)
(* of any of the three.                                                    *)
(***************************************************************************)
EXTENDS ScimDirectory

CONSTANTS Role, Principal, MaxAdmin, Jti, SignIn, Rotates, MaxSessions

VARIABLES service,
          role, trailing, asg, index, admin, calls, loose, overlap, ghost,
          session, refresh, live, denied, held, expired, serving, served,
          origin, unsaved, ended

Roles  == INSTANCE RoleDirectory WITH
            MaxRequests <- MaxAdmin, req <- admin, requests <- calls
Custom == INSTANCE CustomUiSession WITH
            MaxRequests <- MaxSessions, req <- serving, requests <- served

roles   == <<role, trailing, asg, index, admin, calls, loose, overlap, ghost>>
custom  == <<session, refresh, live, denied, held, expired, serving, served,
             origin, unsaved, ended>>
allVars == <<service, vars, roles, custom>>

ASSUME ServicesAssumption ==
  Roles!RoleAssumption /\ Custom!NoneAssumption

InitAny ==
  Init /\ Roles!Init /\ Custom!Init /\ service \in {"scim", "roles", "sessions"}
NextAny ==
  \/ service = "scim"     /\ Next        /\ UNCHANGED <<service, roles, custom>>
  \/ service = "roles"    /\ Roles!Next  /\ UNCHANGED <<service, vars, custom>>
  \/ service = "sessions" /\ Custom!Next /\ UNCHANGED <<service, vars, roles>>
SpecAny == InitAny /\ [][NextAny]_allVars

OrphansExplained == Roles!OrphansExplained
StubsExplained   == Roles!StubsExplained
Recorded         == Custom!Recorded
RenewalEnds      == Custom!RenewalEnds
=============================================================================
