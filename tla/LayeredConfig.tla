--------------------------- MODULE LayeredConfig ----------------------------
(***************************************************************************)
(* The layered configuration (klafi/config/layered.py) and the policies    *)
(* made from it (klafi/runtime/policy.py).                                 *)
(*                                                                         *)
(* A configuration is the set of its leaves, each with the path of keys    *)
(* that leads to it; an empty mapping is a leaf Empty.                     *)
(***************************************************************************)
EXTENDS Naturals, Sequences, SequencesExt

CONSTANTS
  Keys,  \* the keys of mappings
  Empty  \* the value of an empty mapping

\* null is 0, and no mapping.
ASSUME EmptyAssumption == Empty # 0

LAYER_ORDER == <<"framework", "environment", "project", "agent", "runtime">>
LayerNames == {LAYER_ORDER[i]: i \in DOMAIN LAYER_ORDER}

Leaf(path, value) == [path |-> path, value |-> value]

\* Faulty variant: a mapping replaces the mapping it overrides.
MergeShallow(base, override) ==
  {b \in base: \A o \in override: o.path[1] # b.path[1]} \cup override

\* deep_merge: mappings are merged, anything else is replaced.  An empty mapping
\* leaves the mapping it overrides as it is.
Merge(base, override) ==
  LET idle(o) == o.value = Empty /\ \E b \in base: IsStrictPrefix(o.path, b.path)
      replaced(b) == \E o \in override:
                       IsPrefix(b.path, o.path) \/ (IsPrefix(o.path, b.path) /\ ~idle(o))
  IN {b \in base: ~replaced(b)} \cup {o \in override: ~idle(o)}

\* resolve: the layers on top of each other.
Resolve(layers) ==
  LET over(out, i) == Merge(out, layers[LAYER_ORDER[i]])
  IN over(over(over(over(over({}, 1), 2), 3), 4), 5)

\* get: the value of a leaf, or the default.
Get(config, path, default) ==
  IF \E l \in config: l.path = path THEN (CHOOSE l \in config: l.path = path).value ELSE default

-----------------------------------------------------------------------------
(* Policies, as far as the platform's two settings that differ by agent.   *)

PolicyFields == {"timeout", "concurrency"}

ASSUME KeysAssumption == {"policy"} \cup PolicyFields \subseteq Keys

\* _load: a file holds a mapping, so that no leaf has another one's path or is
\* above it; a policy is a mapping or null, and its settings are numbers, as its
\* class declares.
IsLayer(config) ==
  /\ \A l \in config: l.path \in Seq(Keys) \ {<<>>}
  /\ \A k, l \in config: IsPrefix(k.path, l.path) => k = l
  /\ \A l \in config, f \in PolicyFields:
       IsPrefix(<<"policy", f>>, l.path) => l.path = <<"policy", f>> /\ l.value # Empty
  /\ \A l \in config: l.path = <<"policy">> => l.value \in {0, Empty}

\* A configuration holds a policy, be it an empty one, and not null.
HasPolicy(config) ==
  \E l \in config: IsPrefix(<<"policy">>, l.path) /\ (l.path = <<"policy">> => l.value # 0)

\* No policy.
None == <<>>

\* What a policy, or a mapping in its place, says of a setting: None (0) where it
\* says nothing.
SettingOf(policy, f) == IF f \in DOMAIN policy THEN policy[f] ELSE 0

\* ExecutionPolicy.from_config of the configuration's policy.
FromConfig(config) ==
  IF HasPolicy(config) THEN [f \in PolicyFields |-> Get(config, <<"policy", f>>, 0)] ELSE None

\* ExecutionPolicy.merge: stated fields over the platform's, or, when the
\* platform has no policy, from_config of them alone.
MergePolicy(policy, own) ==
  [f \in PolicyFields |-> IF f \in DOMAIN own THEN own[f] ELSE SettingOf(policy, f)]
=============================================================================
