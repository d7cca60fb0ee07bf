-------------------------- MODULE FunctionComposer --------------------------
(***************************************************************************)
(* The viewer-request functions of a distribution.  The composer pastes    *)
(* the check modules a behaviour asks for, and a handler that calls them   *)
(* in a fixed order, into the code of one CloudFront Function; a function  *)
(* is represented here by what its code was generated to do.  Two          *)
(* functions are not composed: auth-check.js and userinfo-endpoint.js.     *)
(***************************************************************************)
EXTENDS FiniteSets

CONSTANT Role    \* the roles applications know

Extension == {"REQUIRE_AUTH", "REQUIRE_TLS_13", "REWRITE_TO_INDEX_HTML"}

\* Which code authenticates: a module of the composer, or a file of its own.
Module == {"none", "auth-check", "cognito-auth-check", "standalone",
           "userinfo"}

Function ==
  [module : Module, tls : BOOLEAN, rewrite : BOOLEAN,
   need : SUBSET Role, mode : {"OR", "AND"}, mfa : BOOLEAN,
   inject : BOOLEAN, refresh : BOOLEAN, login : BOOLEAN]

\* ExtensionConfig: roles and mode are optional, and an empty list of roles is
\* not the same as none.
ExtensionConfig ==
  {c \in [given : BOOLEAN, requiredRoles : SUBSET Role,
          roleMatchMode : {"OR", "AND", "undefined"}] :
     ~c.given => c.requiredRoles = {}}

\* ComposerConfig, as far as the generated code depends on it: cognito is a
\* cognitoDomain, login a loginRedirectPath that is not empty.
ComposerConfig ==
  [cognito : BOOLEAN, login : BOOLEAN, requireMfa : BOOLEAN,
   enableHeaderInjection : BOOLEAN, enableRefresh : BOOLEAN]

\* Custom-UI mode takes the Azure module although the IdP is Cognito.
AuthModule(extensions, composer) ==
  IF "REQUIRE_AUTH" \notin extensions THEN "none"
  ELSE IF composer.cognito /\ ~composer.login THEN "cognito-auth-check"
  ELSE "auth-check"

MatchMode(config) ==
  IF config.roleMatchMode = "undefined" THEN "OR" ELSE config.roleMatchMode

\* The Cognito module has no placeholder for headers, refresh and login page;
\* without a module there are no roles and no MFA either.
Compose(extensions, config, composer) ==
  LET module == AuthModule(extensions, composer)
      auth   == module # "none"
      shared == module = "auth-check"
  IN [module  |-> module,
      tls     |-> "REQUIRE_TLS_13" \in extensions,
      rewrite |-> "REWRITE_TO_INDEX_HTML" \in extensions,
      need    |-> IF auth THEN config.requiredRoles ELSE {},
      mode    |-> IF auth THEN MatchMode(config) ELSE "OR",
      mfa     |-> auth /\ composer.requireMfa,
      inject  |-> shared /\ composer.enableHeaderInjection,
      refresh |-> shared /\ composer.enableRefresh,
      login   |-> shared /\ composer.login]

Alone(module, inject, refresh) ==
  [module |-> module, tls |-> FALSE, rewrite |-> FALSE, need |-> {},
   mode |-> "OR", mfa |-> FALSE, inject |-> inject, refresh |-> refresh,
   login |-> FALSE]

\* auth-check.js as SecuredCloudFront loads it: no TLS check, roles, MFA or
\* rewriting whatever the construct was asked for.
Standalone(inject, refresh) == Alone("standalone", inject, refresh)

UserInfo == Alone("userinfo", FALSE, FALSE)

\* What can be deployed as a viewer-request function.
Deployable ==
  {Compose(e, c, k) :
     e \in SUBSET Extension, c \in ExtensionConfig, k \in ComposerConfig}
  \cup {Standalone(i, r) : i \in BOOLEAN, r \in BOOLEAN} \cup {UserInfo}
=============================================================================
