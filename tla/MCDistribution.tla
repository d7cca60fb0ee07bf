--------------------------- MODULE MCDistribution ---------------------------
(***************************************************************************)
(* Constants for Entrance: ten ways to create a construct, each with calls *)
(* of its methods in any order, and the options of viewer mTLS.            *)
(***************************************************************************)
EXTENDS Entrance

\* Every combination of options that bears on the handshake, with a trust store
\* that exists; and every combination of trust store options, otherwise default.
MCOptions ==
  [mode : {"Required", "Optional", "Passthrough", "unset"},
   minAssurance : {"software", "hardware", "unset"}, bucket : {FALSE},
   key : {FALSE}, existing : {TRUE}, authz : {"unset", "empty", "property"},
   signal : BOOLEAN]
  \cup
  [mode : {"unset"}, minAssurance : {"unset"}, bucket : BOOLEAN, key : BOOLEAN,
   existing : BOOLEAN, authz : {"unset"}, signal : {FALSE}]

\* Role names of which two begin alike.
MCStem == [r \in {"admin", "administrator", "staff"} |->
             IF r = "staff" THEN "staff" ELSE "admin"]

Auth == {"REQUIRE_AUTH"}
Tls  == {"REQUIRE_TLS_13"}
Asking(extensions, given, roles, first, mode) ==
  [extensions |-> extensions, first |-> first,
   config |-> [given |-> given, requiredRoles |-> roles, roleMatchMode |-> mode]]
Free(extensions) == Asking(extensions, FALSE, {}, "none", "undefined")
Unasked == Free({})

\* The pattern of a default behaviour: every path of the instance.
Every == {"callback", "jwks", "openid", "switch", "refresh", "logout", "session",
          "userinfo", "login", "upgrade", "page"}

Own1   == [viewer |-> "redirect-to-https", events |-> {}, orp |-> FALSE]
Secure == [Own1 EXCEPT !.viewer = "https-only"]
Busy   == [Own1 EXCEPT !.events = {"viewer-request"}]
Policed == [Own1 EXCEPT !.orp = TRUE]
To(pattern, ask, own) == [pattern |-> pattern, ask |-> ask, own |-> own]

MCCalls ==
  {To({"page"}, a, Own1) : a \in
     {Free(Auth), Asking(Auth, TRUE, {}, "none", "AND"),
      Asking(Auth, TRUE, {"admin"}, "admin", "OR"),
      Asking(Auth, TRUE, {"admin", "staff"}, "admin", "AND"),
      Asking(Auth, TRUE, {"admin", "staff"}, "staff", "OR")}}
  \cup {To({"login"}, Asking(Auth, TRUE, {"administrator"}, "administrator", "AND"),
           Own1),
        To({"login", "upgrade"}, Unasked, Secure),
        To({"upgrade"}, Free(Auth), Own1),
        To({"page"}, Unasked, Busy), To({"page"}, Free(Auth), Busy),
        To({"page"}, Free(Tls), Policed)}

Azure == [variant |-> "azure", callback |-> TRUE, identity |-> TRUE,
          issuer |-> TRUE, refresh |-> TRUE, logout |-> TRUE, userinfo |-> TRUE,
          names |-> TRUE, mfa |-> TRUE, inject |-> TRUE,
          default |-> To(Every, Free(Auth), Own1), extra |-> <<>>, host |-> <<>>]
Cognito == [Azure EXCEPT !.variant = "cognito", !.refresh = FALSE,
              !.default = To(Every, Free(Auth \cup Tls), Policed)]
CustomUi == [Azure EXCEPT !.variant = "customui"]
MCProps ==
  {[Azure EXCEPT !.refresh = FALSE,
      !.extra = <<To({"refresh"}, Unasked, Own1), To({"callback"}, Unasked, Secure),
                  To({"page", "userinfo"}, Unasked, Own1)>>],
   [Azure EXCEPT !.default = To(Every, Free(Auth \cup Tls), Policed)],
   [Azure EXCEPT !.callback = FALSE, !.userinfo = FALSE, !.refresh = FALSE,
      !.logout = FALSE, !.default = To(Every, Free(Auth \cup Tls), Secure)],
   [Azure EXCEPT !.default = To(Every, Unasked, Own1),
      !.extra = <<To({"callback"}, Unasked, Busy)>>],
   [Azure EXCEPT !.issuer = FALSE], [Azure EXCEPT !.names = FALSE],
   [Azure EXCEPT !.default = To(Every, Free(Auth), Busy)],
   Cognito, CustomUi,
   [CustomUi EXCEPT !.variant = "attach", !.default = To(Every, Unasked, Secure),
      !.host = <<To({"refresh", "logout"}, Unasked, Own1)>>]}
=============================================================================
