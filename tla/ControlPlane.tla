---------------------------- MODULE ControlPlane ----------------------------
(***************************************************************************)
(* The application (klafi/app/application.py), the registry of agents with *)
(* their lifecycle (klafi/registry) and the agents the HTTP server serves  *)
(* (klafi/server/registry.py).  One thread, the bootstrap, registers       *)
(* agents; operators move records through the lifecycle meanwhile.         *)
(*                                                                         *)
(* InMemoryRegistryStore hands out the record itself, which transition     *)
(* changes in place and saves without a lock: a step is one statement.     *)
(*                                                                         *)
(* An agent may also be instantiated and handed to the server directly, as *)
(* factory.py tells the user to do with the templates it cannot make.      *)
(***************************************************************************)
EXTENDS LayeredConfig, FiniteSets

CONSTANTS
  Agents, Versions,
  Operators,        \* the threads that call transition
  LayerChoices,     \* what a layer of the configuration may hold
  OwnChoices,       \* what a policy that is stated for one agent may hold
  MaxRegistrations  \* bound: how many times an agent is registered

ASSUME ControlPlaneAssumption == MaxRegistrations \in Nat /\ IsFiniteSet(Operators)

\* A file that is not there is an empty layer.
ASSUME LayersAssumption == {} \in LayerChoices /\ \A l \in LayerChoices: IsLayer(l)

VARIABLES
  layers,     \* the layers of the configuration
  policy,     \* app.policy
  registrar,  \* app.register: its stage, and what it works on
  objects,    \* the AgentRecords ever made
  records,    \* the store: (agent, version) -> its record, 0 for none
  caps,       \* app._agent_concurrency, 0 for none
  served,     \* the server's agents: version (0: none), what is stated for them, policy
  limits,     \* the caps that http_app has handed to the middleware
  operator    \* operator -> its transition

controlVars == <<layers, policy, registrar, objects, records, caps, served, limits, operator>>

-----------------------------------------------------------------------------
(* The lifecycle.                                                          *)

Lifecycle == {"DEVELOPMENT", "TEST", "APPROVED", "PRODUCTION", "DEPRECATED", "RETIRED"}

\* Faulty variant: what has been tested may be taken into production.
CanTransitionSkipping(src, dst) ==
  dst \in CASE src = "DEVELOPMENT" -> {"TEST"}
            [] src = "TEST" -> {"APPROVED", "DEVELOPMENT", "PRODUCTION"}
            [] src = "APPROVED" -> {"PRODUCTION", "TEST"}
            [] src = "PRODUCTION" -> {"DEPRECATED"}
            [] src = "DEPRECATED" -> {"RETIRED", "PRODUCTION"}
            [] src = "RETIRED" -> {}

CanTransition(src, dst) ==
  dst \in CASE src = "DEVELOPMENT" -> {"TEST"}
            [] src = "TEST" -> {"APPROVED", "DEVELOPMENT"}
            [] src = "APPROVED" -> {"PRODUCTION", "TEST"}
            [] src = "PRODUCTION" -> {"DEPRECATED"}
            [] src = "DEPRECATED" -> {"RETIRED", "PRODUCTION"}
            [] src = "RETIRED" -> {}

-----------------------------------------------------------------------------
NotServed == [version |-> 0, own |-> None, spec |-> None, policy |-> None,
              direct |-> FALSE, early |-> FALSE]

\* from_dir: a directory holds the framework's layer, and perhaps the one of the
\* environment and the project's.
FromDir == {l \in [LayerNames -> LayerChoices]: l["agent"] = {} /\ l["runtime"] = {}}

\* from_config: the layers are resolved, and the policy is made of them.
ControlInit ==
  /\ layers \in FromDir
  /\ policy = FromConfig(Resolve(layers))
  /\ registrar = [stage |-> "idle"]
  /\ objects = <<>>
  /\ records = [k \in Agents \X Versions |-> 0]
  /\ caps = [a \in Agents |-> 0]
  /\ served = [a \in Agents |-> NotServed]
  /\ limits = [made |-> FALSE, overall |-> 0, agents |-> [a \in Agents |-> 0]]
  /\ operator = [o \in Operators |-> [stage |-> "idle"]]

-----------------------------------------------------------------------------
(* app.register.                                                           *)

\* BaseGraph._init_policy: the policy it is passed and, when there is none, the
\* one of the class's spec.config.
InitPolicy(given, spec) ==
  [f \in PolicyFields |-> SettingOf(IF given # None THEN given ELSE spec, f)]

\* The factory makes an agent: one whose config.yaml states nothing is passed the
\* platform's policy.
Create(a, v, own, spec) ==
  [stage |-> "made", agent |-> a, version |-> v, own |-> own, spec |-> spec,
   policy |-> InitPolicy(IF own = None THEN policy ELSE MergePolicy(policy, own), spec)]

\* from_spec: a record begins in development, whatever was there before it.
FromSpec(a, v) == [agent |-> a, version |-> v, status |-> "DEVELOPMENT", approved |-> FALSE]

\* _agent_config: what the config.yaml beside the agent's class states; nothing
\* when there is none.  A class may state a policy in its spec.config, too.
AgentConfig == {None} \cup OwnChoices
SpecConfig == {None} \cup OwnChoices

\* InMemoryRegistryStore.save: one record of a version, the latest saved.
Save(agent, version, object) == [records EXCEPT ![<<agent, version>>] = object]

\* The agent's config.yaml is read and merged over the platform's policy, and
\* the factory makes the agent.  When that fails nothing has changed.
RegisterBegin(a, v) ==
  \E own \in AgentConfig, spec \in SpecConfig:
    /\ registrar.stage = "idle"
    /\ Len(objects) < MaxRegistrations
    /\ registrar' = Create(a, v, own, spec)
    /\ UNCHANGED <<layers, policy, objects, records, caps, served, limits, operator>>

\* A concurrency the agent states for itself is noted for the middleware, and
\* the registry gets a new record, over one of the same version.
RegisterRecord ==
  LET own == registrar.own
  IN /\ registrar.stage = "made"
     /\ registrar' = [registrar EXCEPT !.stage = "recorded"]
     /\ caps' = IF SettingOf(own, "concurrency") # 0
                THEN [caps EXCEPT ![registrar.agent] = own["concurrency"]] ELSE caps
     /\ objects' = Append(objects, FromSpec(registrar.agent, registrar.version))
     /\ records' = Save(registrar.agent, registrar.version, Len(objects) + 1)
     /\ UNCHANGED <<layers, policy, served, limits, operator>>

\* The server serves the agent, in place of an earlier version.
RegisterServe ==
  /\ registrar.stage = "recorded"
  /\ registrar' = [stage |-> "idle"]
  /\ served' = [served EXCEPT ![registrar.agent] =
                  [version |-> registrar.version, own |-> registrar.own,
                   spec |-> registrar.spec, policy |-> registrar.policy,
                   direct |-> FALSE, early |-> ~limits.made]]
  /\ UNCHANGED <<layers, policy, objects, records, caps, limits, operator>>

\* server.register of an agent that the developer made, passing it a policy of his
\* own, the application's, or none: there is no record and no cap of it.
ServeDirectly(a, v) ==
  \E given \in AgentConfig \cup {policy}, spec \in SpecConfig:
    /\ registrar.stage = "idle"
    /\ served' = [served EXCEPT ![a] =
                    [version |-> v, own |-> given, spec |-> spec,
                     policy |-> InitPolicy(given, spec), direct |-> TRUE, early |-> ~limits.made]]
    /\ UNCHANGED <<layers, policy, registrar, objects, records, caps, limits, operator>>

\* http_app: the middleware gets a copy of the caps as they are now.
HttpApp ==
  /\ registrar.stage = "idle" /\ ~limits.made
  /\ limits' = [made |-> TRUE, overall |-> SettingOf(policy, "concurrency"), agents |-> caps]
  /\ UNCHANGED <<layers, policy, registrar, objects, records, caps, served, operator>>

-----------------------------------------------------------------------------
(* AgentRegistry.transition.                                               *)

OperatorTo(o, next) ==
  /\ operator' = [operator EXCEPT ![o] = next]
  /\ UNCHANGED <<layers, policy, registrar, caps, served, limits>>

\* The record is read and its status checked; without a record, or for a status
\* it must not go to, transition raises.
TransitionCheck(o, k, to) ==
  /\ operator[o].stage = "idle"
  /\ records[k] # 0
  /\ CanTransition(objects[records[k]].status, to)
  /\ OperatorTo(o, [stage |-> "checked", object |-> records[k], to |-> to])
  /\ UNCHANGED <<objects, records>>

\* The status is written, whatever it is by now.
TransitionWrite(o) ==
  LET op == operator[o]
  IN /\ op.stage = "checked"
     /\ objects' = [objects EXCEPT ![op.object].status = op.to]
     /\ OperatorTo(o, [op EXCEPT !.stage = IF op.to = "APPROVED" THEN "dating" ELSE "saving"])
     /\ UNCHANGED records

\* An approval is dated.
TransitionDate(o) ==
  LET op == operator[o]
  IN /\ op.stage = "dating"
     /\ objects' = [objects EXCEPT ![op.object].approved = TRUE]
     /\ OperatorTo(o, [op EXCEPT !.stage = "saving"])
     /\ UNCHANGED records

\* The record is saved, over one that was registered meanwhile.
TransitionSave(o) ==
  LET op == operator[o]
      object == objects[op.object]
  IN /\ op.stage = "saving"
     /\ records' = Save(object.agent, object.version, op.object)
     /\ OperatorTo(o, [stage |-> "idle"])
     /\ UNCHANGED objects

Register == RegisterRecord \/ RegisterServe \/ HttpApp

Transition ==
  \E o \in Operators:
    \/ \E k \in Agents \X Versions, to \in Lifecycle: TransitionCheck(o, k, to)
    \/ TransitionWrite(o) \/ TransitionDate(o) \/ TransitionSave(o)

-----------------------------------------------------------------------------
(* Properties.                                                             *)

\* What the last layer that says anything of a field of the policy says of it.
Stated(f) ==
  LET says(i) == {l \in layers[LAYER_ORDER[i]]: l.path = <<"policy", f>> \/ l.path = <<"policy">>}
      saying == {i \in DOMAIN LAYER_ORDER: \E l \in says(i): l.value # Empty}
      last == CHOOSE i \in saying: \A j \in saying: j <= i
  IN IF saying = {} THEN 0 ELSE Get(says(last), <<"policy", f>>, 0)

\* There is a policy of the platform: the last layer that mentions one does not
\* take it back.
PolicyStated ==
  LET mentions(i) == {l \in layers[LAYER_ORDER[i]]: IsPrefix(<<"policy">>, l.path)}
  IN \E i \in DOMAIN LAYER_ORDER:
       /\ mentions(i) # {} /\ \A l \in mentions(i): l.path = <<"policy">> => l.value # 0
       /\ \A j \in DOMAIN LAYER_ORDER: j > i => mentions(j) = {}

\* What the application registers is governed: there is a record of its version,
\* and a cap its config.yaml states, if it was registered before http_app, is the
\* one the middleware keeps to.  A setting is what its config.yaml says, else what
\* the last layer says; the spec.config of its class, though more specific than the
\* layers, has a say only where neither states a policy at all.  An agent that was handed to the server directly runs
\* with what it was made with, whatever the layers say.
ServedAreGoverned ==
  \A a \in Agents:
    LET agent == served[a]
        expected(f) == IF f \in DOMAIN agent.own THEN agent.own[f]
                       ELSE IF PolicyStated /\ ~agent.direct THEN Stated(f)
                       ELSE IF agent.own = None THEN SettingOf(agent.spec, f) ELSE 0
    IN agent.version # 0 =>
         /\ \A f \in PolicyFields: agent.policy[f] = expected(f)
         /\ ~agent.direct => records[<<a, agent.version>>] # 0
         /\ (~agent.direct /\ limits.made /\ agent.early /\ SettingOf(agent.own, "concurrency") # 0)
               => limits.agents[a] = agent.own["concurrency"]

\* Nothing gets into production, or beyond, that was never approved: neither by
\* operators that overtake each other nor by a registration in between.
ProductionWasApproved ==
  \A k \in Agents \X Versions:
    LET object == objects[records[k]]
    IN (records[k] # 0 /\ object.status \in {"PRODUCTION", "DEPRECATED", "RETIRED"}) =>
         \/ object.approved
         \/ \E o \in Operators:
              operator[o].stage = "dating" /\ operator[o].object = records[k]
=============================================================================
