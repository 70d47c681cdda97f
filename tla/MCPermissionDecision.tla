------------------------ MODULE MCPermissionDecision ------------------------
(* Every combination of sources for a key that policy.json has and for one  *)
(* that it has not, and for "shell" with every set of lists a command may   *)
(* match.                                                                   *)
EXTENDS PermissionDecision

TableOf(d) == [k \in {"shell", "mcp"} |-> d]

AllCalls ==
  {[key |-> k, cmd |-> c, mode |-> m, default |-> d, overrides |-> TableOf(o),
    project |-> p, policy |-> [f \in PolicyKey |-> y], config |-> TableOf(g)] :
      k \in {"shell", "mcp"}, c \in SUBSET Pattern, m \in Mode, d \in {"allow", "ask"},
      o \in {Unset, "allow", "deny"}, p \in BOOLEAN, y \in Decision,
      g \in Decision \cup {Unset}}
=============================================================================
