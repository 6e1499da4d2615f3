------------------------ MODULE MCDeploymentReconcile -----------------------
(* Instances of DeploymentReconcile for TLC: up to two rules of one        *)
(* package on a device, by tag.  The package's bodies share a name; the    *)
(* last is detected by something it does not install.                      *)
EXTENDS DeploymentReconcile, TLC

CONSTANTS d1, p1, n1, n2, t1

MCDefs   == {[install |-> {n1}, detect |-> {}, os |-> "linux"],
             [install |-> {n1, n2}, detect |-> {n1}, os |-> "linux"],
             [install |-> {n1}, detect |-> {n2}, os |-> "linux"]}
MCBodies == {[package |-> p1, scope |-> {d1}, tags |-> {t1}, match |-> "all", enabled |-> TRUE]}
MCOS     == [d \in Devices |-> "linux"]
=============================================================================
