--------------------------- MODULE MCProvisioner ---------------------------
(* The framework, one environment and two agents, the first of which once   *)
(* had the legacy name.                                                     *)
EXTENDS Provisioner

CONSTANTS framework, environment, reviewer, improver

MCObjects == {framework, environment}
MCAgents == {reviewer, improver}
MCPlan == <<framework, environment, reviewer, improver>>
MCRekeyOrder == <<reviewer, improver>>
MCSyncOrder == <<improver, reviewer>>
=============================================================================
