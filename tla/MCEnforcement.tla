---------------------------- MODULE MCEnforcement ---------------------------
(***************************************************************************)
(* One call of an agent with two actions, and the deployments the README   *)
(* describes.                                                              *)
(***************************************************************************)
EXTENDS Enforcement

Deployment(point, remote, observe, grantCheck) ==
    [point |-> point, remote |-> remote, observe |-> observe, grants |-> grantCheck]

MCConfig ==
    {Deployment("gateway", TRUE, FALSE, "required"),
     Deployment("gateway", TRUE, FALSE, "optional"),
     Deployment("gateway", TRUE, TRUE, "optional"),
     Deployment("gateway", FALSE, FALSE, "ignored"),
     Deployment("proxy", TRUE, FALSE, "ignored"),
     Deployment("proxy", FALSE, FALSE, "ignored"),
     Deployment("sdk", TRUE, FALSE, "required"),
     Deployment("sdk", FALSE, FALSE, "ignored")}

MCAgent == {"a"}
MCAction == {"read", "pay"}
=============================================================================
