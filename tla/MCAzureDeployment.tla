--------------------------- MODULE MCAzureDeployment ---------------------------
EXTENDS AzureDeployment
\* ops-team and opsteam come to one identifier; assignment-staff comes to that
\* of the assignment of staff.
MCGroup == {"staff", "ops-team", "opsteam", "assignment-staff"}
MCGroupId == [g \in MCGroup |->
  CASE g = "staff" -> "Groupstaff"
    [] g = "assignment-staff" -> "Groupassignmentstaff"
    [] OTHER -> "Groupopsteam"]
MCAssignmentId == [g \in MCGroup |->
  CASE g = "staff" -> "Groupassignmentstaff"
    [] g = "assignment-staff" -> "Groupassignmentassignmentstaff"
    [] OTHER -> "Groupassignmentopsteam"]
MCPermission == <<"Mipolicypermission">>
MCOptions ==
  {[groups |-> <<"staff">>, mapping |-> TRUE, code |-> 1],
   [groups |-> <<"ops-team", "opsteam">>, mapping |-> TRUE, code |-> 2],
   [groups |-> <<"assignment-staff", "staff">>, mapping |-> TRUE, code |-> 1],
   [groups |-> <<"staff">>, mapping |-> FALSE, code |-> 1]}
================================================================================
