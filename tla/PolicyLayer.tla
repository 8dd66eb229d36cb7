------------------------------ MODULE PolicyLayer ------------------------------
(***************************************************************************)
(* core/policy/policy_layer.cpp: a tool call is allowed, denied or held for *)
(* approval by the first rule that matches it, in the order of priorities.  *)
(* std::sort may leave rules of equal priority in any order.                *)
(***************************************************************************)
EXTENDS Integers, Sequences, FiniteSets

CONSTANTS DefaultCapabilities,  \* config_.default_capabilities
          RuleLists             \* the rule lists a configuration may have

\* An int: a lower number is a higher priority.
ASSUME PolicyAssumption ==
  \A list \in RuleLists :
    list \in Seq([priority : Int, action_pattern : STRING, required_capability : STRING,
                 outcome : {"allow", "deny", "require_approval"}])

VARIABLES rules,                \* config_.initial_rules
          capabilities,         \* the session's granted capabilities
          next_request_id,
          pending_approvals     \* the requests nobody has resolved

policyVars == <<rules, capabilities, next_request_id, pending_approvals>>

Rule(priority, pattern, capability, outcome) ==
  [priority |-> priority, action_pattern |-> pattern,
   required_capability |-> capability, outcome |-> outcome]

None == ""
Any == "*"

PolicyInit ==
  /\ rules \in RuleLists /\ capabilities = DefaultCapabilities
  /\ next_request_id = 1 /\ pending_approvals = {}

GrantCapability(capability) ==
  /\ capabilities' = capabilities \cup {capability}
  /\ UNCHANGED <<rules, next_request_id, pending_approvals>>

RevokeCapability(capability) ==
  /\ capabilities' = capabilities \ {capability}
  /\ UNCHANGED <<rules, next_request_id, pending_approvals>>

Matches(rule, action) ==
  /\ rule.action_pattern \in {Any, action}
  /\ rule.required_capability \in capabilities \cup {None}

LowestFirst(a, b) == a.priority <= b.priority

\* The comparison turned round.
HighestFirst(a, b) == a.priority >= b.priority

InOrder(a, b) == LowestFirst(a, b)

\* The orders std::sort may leave the rules in.
Sorted ==
  LET n == Len(rules)
      orders == {p \in [1 .. n -> 1 .. n] : \A i, j \in 1 .. n : p[i] = p[j] => i = j}
  IN {p \in orders : \A i, j \in 1 .. n : i < j => InOrder(rules[p[i]], rules[p[j]])}

FirstMatch(order, action) ==
  LET matching == {i \in DOMAIN order : Matches(rules[order[i]], action)}
  IN IF matching = {} THEN "deny"
     ELSE rules[order[CHOOSE i \in matching : \A j \in matching : i <= j]].outcome

EvaluateRules(action) == {FirstMatch(order, action) : order \in Sorted}

\* CheckPermission: an approval that is required is noted, and nothing waits
\* for it.
CheckPermission(action, outcome) ==
  /\ outcome \in EvaluateRules(action)
  /\ IF outcome = "require_approval"
     THEN /\ next_request_id' = next_request_id + 1
          /\ pending_approvals' = pending_approvals \cup {next_request_id}
     ELSE UNCHANGED <<next_request_id, pending_approvals>>
  /\ UNCHANGED <<rules, capabilities>>

ResolveApproval(request_id) ==
  /\ request_id \in pending_approvals
  /\ pending_approvals' = pending_approvals \ {request_id}
  /\ UNCHANGED <<rules, capabilities, next_request_id>>

-----------------------------------------------------------------------------
\* The outcome of a check, for every list of rules and whatever capabilities
\* were granted or revoked meanwhile, is that of a matching rule than which no
\* matching rule has a lower priority number; with no match it is to deny.
HighestPriorityDecides ==
  \A action \in {r.action_pattern : r \in UNION {{l[i] : i \in DOMAIN l} : l \in RuleLists}} :
    LET matching == {i \in DOMAIN rules : Matches(rules[i], action)}
        decisive == {i \in matching : \A j \in matching : rules[i].priority <= rules[j].priority}
    IN EvaluateRules(action) = IF matching = {} THEN {"deny"}
                               ELSE {rules[i].outcome : i \in decisive}
=============================================================================
