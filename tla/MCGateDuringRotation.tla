------------------------ MODULE MCGateDuringRotation ------------------------
EXTENDS GateDuringRotation, TLC

Composer == INSTANCE FunctionComposer

GetKeyGrant == {"GetKey"}
Symmetry == Permutations(Copier)

MCFunctions == {Composer!Compose({"REQUIRE_AUTH"},
  [given |-> FALSE, requiredRoles |-> {}, roleMatchMode |-> "OR"],
  [cognito |-> FALSE, login |-> FALSE, requireMfa |-> FALSE,
   enableHeaderInjection |-> FALSE, enableRefresh |-> FALSE])}

Absent == [form |-> "none", key |-> 0, exp |-> 0, jti |-> NoJti,
           roles |-> {}, mfa |-> FALSE]
MCVisits ==
  {[uri |-> "page", strong |-> TRUE, flow |-> "none", spoofed |-> FALSE,
    secure |-> Absent,
    host |-> [Absent EXCEPT !.form = "jwt", !.key = 1,
                            !.jti = CHOOSE j \in Jti : TRUE]]}
=============================================================================
