------------------------------ MODULE MCPaging -------------------------------
(* Instances of Paging for TLC. *)
EXTENDS Paging

\* Sort values of two parts, as the effective time of a rule has of four.
MCKeys == {<<1, 2>>, <<2, 1>>}

MCCases ==
  {"devices", "buildingDevices", "subscriptions", "auditLogs", "users", "cameraEvents",
   "malDevices", "staffDevices", "abnormalDevices", "rules"} \X {"value"}
    \cup {"devices", "buildingDevices", "staffDevices"} \X {"maintain"}
    \cup {<<"rules", "id">>, <<"subscriptions", "name">>, <<"cameraEvents", "id">>}
===============================================================================
