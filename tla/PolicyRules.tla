----------------------------- MODULE PolicyRules -----------------------------
(***************************************************************************)
(* The pure part of monitoring: which policies apply to a device, how      *)
(* their rules are merged, and what the merged rules find in the device's  *)
(* telemetry (alerts/rules.go, alerts/evaluate.go, Policy.AppliesTo and    *)
(* the worker's evalState), with the copy of the merge that the dashboard  *)
(* shows (effectiveRulesJSON).                                             *)
(*                                                                         *)
(* A policy is [id, scope, enabled, rules, channels]; rules maps the rule  *)
(* types its JSON document has a key for to a rule, or to JSON's null.     *)
(* A percentage is compared as a fraction.                                 *)
(***************************************************************************)
EXTENDS Naturals, FiniteSetsExt

CONSTANTS
  Null,       \* null in a JSON document; no value
  FreshFor    \* servicesFreshFor

RuleTypes  == {"cpu_pct", "mem_pct", "disk_pct", "offline", "service_down"}
ScopeTypes == {"tenant", "customer", "site", "tag", "device"}

\* Rules.Validate and the scope checks of validatePolicyReq.
ValidPct(rule) == rule.threshold > 0 /\ rule.threshold <= 100

ValidRule(rt, rule) ==
  rule # Null => CASE rt \in {"cpu_pct", "mem_pct", "disk_pct"} -> ValidPct(rule)
                   [] rt = "offline" -> rule.after \in 90 .. 604800
                   [] rt = "service_down" -> rule.services # {}

ValidPolicy(body) ==
  /\ \E rt \in DOMAIN body.rules : body.rules[rt] # Null
  /\ \A rt \in DOMAIN body.rules : rt \in RuleTypes => ValidRule(rt, body.rules[rt])
  /\ body.scope.type \in ScopeTypes
  /\ (body.scope.type = "tenant") <=> (body.scope.of = Null)

ScopeRank(type) ==
  CASE type = "tenant" -> 0 [] type = "customer" -> 1 [] type = "site" -> 2
    [] type = "tag" -> 3 [] type = "device" -> 4

\* Policy.AppliesTo; a device is [id, site, customer, tags].
AppliesTo(p, dev) ==
  CASE p.scope.type = "tenant"   -> TRUE
    [] p.scope.type = "customer" -> p.scope.of = dev.customer
    [] p.scope.type = "site"     -> p.scope.of = dev.site
    [] p.scope.type = "device"   -> p.scope.of = dev.id
    [] p.scope.type = "tag"      -> p.scope.of \in dev.tags

\* The policies that pass the filter, by their place in the list.
Applicable(policies, dev) ==
  {n \in DOMAIN policies : policies[n].enabled /\ AppliesTo(policies[n], dev)}

Defines(p, rt) == rt \in DOMAIN p.rules /\ p.rules[rt] # Null

\* One round of the outer loop of a merge, over the policies of one rank as
\* listed: each overwrites the rules it has, has[n], and the last to do so stays.
\* In the variant the first stays.
RoundFirstStays(policies, ns, has, rank, was) ==
  [rt \in RuleTypes |->
     LET ms == {n \in ns : ScopeRank(policies[n].scope.type) = rank /\ rt \in has[n]} IN
     IF ms = {} THEN was[rt] ELSE policies[Min(ms)]]

Round(policies, ns, has, rank, was) ==
  [rt \in RuleTypes |->
     LET ms == {n \in ns : ScopeRank(policies[n].scope.type) = rank /\ rt \in has[n]} IN
     IF ms = {} THEN was[rt] ELSE policies[Max(ms)]]

\* The rounds, from the broadest scope to the most specific.
Rounds(policies, ns, has) ==
  LET after0 == Round(policies, ns, has, 0, [rt \in RuleTypes |-> Null])
      after1 == Round(policies, ns, has, 1, after0)
      after2 == Round(policies, ns, has, 2, after1)
      after3 == Round(policies, ns, has, 3, after2)
  IN  Round(policies, ns, has, 4, after3)

\* Merge: the policy each rule is taken from.
Merge(policies, ns) == Rounds(policies, ns, [n \in ns |-> {rt \in RuleTypes : Defines(policies[n], rt)}])

\* effectiveFor.
EffectiveFor(policies, dev) == Merge(policies, Applicable(policies, dev))

\* effectiveRulesJSON takes whatever key a document has.
EffectiveRulesJSON(policies, dev) ==
  Rounds(policies, Applicable(policies, dev), [n \in DOMAIN policies |-> DOMAIN policies[n].rules])

-----------------------------------------------------------------------------
\* evalState: service states count only while they are fresh.
EvalState(t) ==
  [t EXCEPT !.services = IF t.services # Null /\ t.services.age <= FreshFor THEN t.services.state ELSE Null]

\* used / total reaches the threshold; a total of 0 never does.
AtLeast(u, threshold) == u.total > 0 /\ 100 * u.used >= threshold * u.total

\* The rule types Evaluate assessed.
Evaluated(eff, st) ==
  {rt \in RuleTypes : /\ eff[rt] # Null
                      /\ rt \in {"cpu_pct", "mem_pct", "disk_pct"} => st.stats # Null
                      /\ rt = "service_down" => st.services # Null}

\* What distinguishes conditions of a rule type: mounts, services.
Extras(rt, rule, st) ==
  CASE rt = "disk_pct"     -> {m \in DOMAIN st.stats.disks : rule.mounts = {} \/ m \in rule.mounts}
    [] rt = "service_down" -> rule.services
    [] OTHER               -> {Null}

Holds(rt, rule, x, st) ==
  CASE rt = "offline"      -> st.unseen # Null /\ st.unseen >= rule.after
    [] rt = "cpu_pct"      -> st.stats.cpu >= rule.threshold
    [] rt = "mem_pct"      -> AtLeast(st.stats.mem, rule.threshold)
    [] rt = "disk_pct"     -> AtLeast(st.stats.disks[x], rule.threshold)
    [] rt = "service_down" -> x \notin DOMAIN st.services \/ st.services[x] # "running"

\* Evaluate: the conditions that hold, each under its dedup key.
Evaluate(eff, dev, st) ==
  UNION {LET rule == eff[rt].rules[rt] IN
         {[key |-> <<dev, rt, x>>, policy |-> eff[rt].id, channels |-> eff[rt].channels] :
            x \in {y \in Extras(rt, rule, st) : Holds(rt, rule, y, st)}} :
         rt \in Evaluated(eff, st)}
=============================================================================
