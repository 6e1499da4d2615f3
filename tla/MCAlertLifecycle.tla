-------------------------- MODULE MCAlertLifecycle --------------------------
(* Instances of AlertLifecycle for TLC: one device in a site, and policies *)
(* of three scopes on its load and presence, one with a null rule.         *)
EXTENDS AlertLifecycle, TLC

CONSTANTS d1, c1, t1

MCPlace == [d \in Devices |-> [id |-> d, site |-> "site", customer |-> "customer", tags |-> {t1}]]

Cpu(n)  == [threshold |-> n]
Body(type, of, rules) ==
  [scope |-> [type |-> type, of |-> of], enabled |-> TRUE, rules |-> rules, channels |-> {c1}]

MCBodies == {Body("tenant", Null, "cpu_pct" :> Cpu(50)),
             Body("tag", t1, "cpu_pct" :> Cpu(90)),
             [Body("device", d1, "offline" :> [after |-> 90] @@ "cpu_pct" :> Null) EXCEPT !.channels = {}]}

Load(n) == [unseen |-> 0, services |-> Null,
            stats |-> [cpu |-> n, mem |-> [used |-> 0, total |-> 0], disks |-> <<>>]]
MCTelemetry == {Load(60), [unseen |-> 100, services |-> Null, stats |-> Null]}
=============================================================================
