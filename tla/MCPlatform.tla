----------------------------- MODULE MCPlatform -----------------------------
(***************************************************************************)
(* The instance of Platform for TLC.                                       *)
(***************************************************************************)
EXTENDS Platform, TLC

CONSTANTS a1, a2, s1, s2

MCServers == <<s1, s2>>

MCLayerChoices ==
  {{}, {Leaf(<<"policy", "timeout">>, 1), Leaf(<<"policy", "concurrency">>, 2)},
   {Leaf(<<"policy", "concurrency">>, 3)}, {Leaf(<<"policy">>, 0)}, {Leaf(<<"policy">>, Empty)}}

MCOwnChoices ==
  {"concurrency" :> 1, ("timeout" :> 2) @@ ("concurrency" :> 0), "max_retries" :> 1}

\* Sessions, policies, and the records of each version of each agent have no
\* variable in common: where one of them has moved, the others need not.
SessionsMoved ==
  \/ boot.stage = "failed" \/ closer.stage # "none"
  \/ \E s \in ServerSet: session[s] = "broken"
  \/ \E c \in Callers: call[c].stage # "idle"

\* The agent states a policy, in its config.yaml or in the spec of its class, or
\* was made outside of the application.
StatesOwn(a) ==
  \/ served[a].own # None
  \/ registrar.stage # "idle" /\ registrar.agent = a /\ registrar.own # None

StatesSpec(a) ==
  \/ served[a].direct \/ served[a].spec # None
  \/ registrar.stage # "idle" /\ registrar.agent = a /\ registrar.spec # None

LayersState == \E n \in LayerNames: layers[n] # {}

PoliciesMoved ==
  \/ limits.made
  \/ LayersState
  \/ \E a \in Agents: StatesOwn(a) \/ StatesSpec(a)

RecordsMoved(k) ==
  \/ \E o \in Operators: operator[o].stage # "idle" /\ objects[operator[o].object].agent = k[1]
                                                     /\ objects[operator[o].object].version = k[2]
  \/ \E i \in DOMAIN objects: <<objects[i].agent, objects[i].version>> = k
                               /\ objects[i].status # "DEVELOPMENT"

\* One record is as good as another: those of version 1 of a2 are moved.
Moved ==
  {x \in {"sessions"}: SessionsMoved} \cup {x \in {"policies"}: PoliciesMoved}
    \cup {x \in {"records"}: RecordsMoved(<<a2, 1>>)}

\* Sessions meet registrations only in that one waits for the other: one will do.
\* What the layers and the spec of a class say is asked for by one version of an
\* agent that does not wait, and without the caps of the middleware; what the layers
\* say, by an agent that nothing was served of before.
Apart ==
  /\ Cardinality(Moved) <= 1
  /\ SessionsMoved => Len(objects) <= 1
  /\ (LayersState \/ StatesSpec(a1)) =>
       /\ boot.stage = "none" /\ ~limits.made /\ Len(objects) <= 1
       /\ served[a1].version <= 1 /\ (registrar.stage # "idle" => registrar.version = 1)
  /\ LayersState => registrar.stage = "idle" \/ served[a1].version = 0
  /\ ~StatesSpec(a2)
  /\ \A k \in (Agents \X Versions) \ {<<a2, 1>>}: ~RecordsMoved(k)
=============================================================================
