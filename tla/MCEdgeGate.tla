----------------------------- MODULE MCEdgeGate -----------------------------
EXTENDS EdgeGate

Composer(cognito, login, mfa) ==
  [cognito |-> cognito, login |-> login, requireMfa |-> mfa,
   enableHeaderInjection |-> TRUE, enableRefresh |-> TRUE]
Config(roles, mode) ==
  [given |-> roles # {}, requiredRoles |-> roles, roleMatchMode |-> mode]
Auth == {"REQUIRE_AUTH"}

MCFunctions ==
  {Compose({"REQUIRE_TLS_13", "REWRITE_TO_INDEX_HTML"}, Config({}, "OR"),
           Composer(FALSE, FALSE, FALSE)),
   Compose(Auth \cup {"REQUIRE_TLS_13"}, Config({"admin"}, "OR"),
           Composer(FALSE, FALSE, FALSE)),
   Compose(Auth, Config({"admin", "staff"}, "AND"), Composer(FALSE, FALSE, TRUE)),
   Compose(Auth, Config({}, "OR"), Composer(TRUE, TRUE, FALSE)),
   Compose(Auth, Config({"admin"}, "AND"), Composer(TRUE, FALSE, FALSE)),
   Standalone(TRUE, FALSE), UserInfo}

Absent == [form |-> "none", key |-> 0, exp |-> 0, jti |-> NoJti,
           roles |-> {}, mfa |-> FALSE]
Empty   == [Absent EXCEPT !.form = "empty"]
Garbled == [Absent EXCEPT !.form = "garbled"]
Jwt(k, exp, roles, mfa) ==
  [form |-> "jwt", key |-> k, exp |-> exp, jti |-> CHOOSE j \in Jti : TRUE,
   roles |-> roles, mfa |-> mfa]
Session1 == [uri |-> "page", strong |-> TRUE, secure |-> Absent,
             host |-> Absent, flow |-> "none", spoofed |-> FALSE]
With(t) == [Session1 EXCEPT !.host = t]
Tokens == {Jwt(1, 2, {}, TRUE), Jwt(1, 1, {"admin"}, FALSE),
           Jwt(2, 2, {"admin", "staff"}, TRUE)}
MCVisits ==
  {With(t) : t \in Tokens \cup {Empty, Garbled}}
  \cup {[With(Jwt(2, 2, {"admin", "staff"}, FALSE)) EXCEPT !.secure = t] :
          t \in {Empty, Jwt(1, 1, {"admin"}, FALSE)}}
  \cup {[Session1 EXCEPT !.flow = "live"], [Session1 EXCEPT !.strong = FALSE],
        [Session1 EXCEPT !.uri = "callback", !.strong = FALSE],
        [Session1 EXCEPT !.uri = "oauth2", !.spoofed = TRUE]}
=============================================================================
