--------------------------- MODULE PlatformProofs ---------------------------
(***************************************************************************)
(* Proofs about the platform: whatever the application serves has a        *)
(* record, runs with the policy of the place that goes first, and is kept  *)
(* to the cap it asked for; and nothing gets into production without an    *)
(* approval.                                                               *)
(*                                                                         *)
(* The second rests on what an operator knows who has checked a record and *)
(* not yet written it: what he found approved stays approved (Cleared).    *)
(* The first rests on what the registration under way has made so far      *)
(* (Registering, Noted), on deep_merge changing what a configuration says  *)
(* of a setting only where the upper layer says something (Merging), and   *)
(* on there being a policy unless the last layer that mentions one takes   *)
(* it back (MergingPolicy).                                                *)
(***************************************************************************)
EXTENDS Platform, SequenceTheorems, TLAPS

-----------------------------------------------------------------------------
(* The inductive invariant.                                                *)

AgentRecord ==
  [agent: Agents, version: Versions, status: Lifecycle, approved: BOOLEAN]

OperatorStates ==
  [stage: {"idle"}]
    \cup [stage: {"checked", "dating", "saving"}, object: 1..Len(objects), to: Lifecycle]

Types ==
  /\ objects \in Seq(AgentRecord)
  /\ records \in [Agents \X Versions -> 0..Len(objects)]
  /\ operator \in [Operators -> OperatorStates]
  /\ DOMAIN caps = Agents /\ DOMAIN served = Agents /\ limits.made \in BOOLEAN

\* The states a record gets to only by way of an approval.
Beyond == {"PRODUCTION", "DEPRECATED", "RETIRED"}

\* A record was approved, or is as soon as its approval is dated.
IsApproved(i) ==
  \/ objects[i].approved
  \/ \E o \in Operators: operator[o].stage = "dating" /\ operator[o].object = i

ApprovedFirst ==
  \A i \in 1..Len(objects): objects[i].status \in Beyond \cup {"APPROVED"} => IsApproved(i)

\* What an operator is about to take into production was approved before.
Cleared ==
  \A o \in Operators:
    operator[o].stage = "checked" /\ operator[o].to \in Beyond => IsApproved(operator[o].object)

\* What the registration under way works on.
Registering ==
  \/ registrar = [stage |-> "idle"]
  \/ \E stage \in {"made", "recorded"}, a \in Agents, v \in Versions,
        own \in AgentConfig, spec \in SpecConfig:
       registrar = [stage |-> stage, agent |-> a, version |-> v, own |-> own, spec |-> spec,
                    policy |-> Create(a, v, own, spec).policy]

\* An agent of a registration, and one that was handed over.
Registered(a, v, own, spec, early) ==
  [version |-> v, own |-> own, spec |-> spec, policy |-> Create(a, v, own, spec).policy,
   direct |-> FALSE, early |-> early]

HandedOver(v, given, spec, early) ==
  [version |-> v, own |-> given, spec |-> spec, policy |-> InitPolicy(given, spec),
   direct |-> TRUE, early |-> early]

\* What the server serves is what a registration made, or was handed over.
Serving ==
  \A a \in Agents:
    \/ served[a] = NotServed
    \/ \E v \in Versions, own \in AgentConfig, spec \in SpecConfig, early \in BOOLEAN:
         served[a] = Registered(a, v, own, spec, early)
    \/ \E v \in Versions, given \in AgentConfig \cup {policy}, spec \in SpecConfig,
          early \in BOOLEAN:
         served[a] = HandedOver(v, given, spec, early)

\* The application serves it.
OfApp(a) == served[a].version # 0 /\ ~served[a].direct

\* There is a record of what is served, and of what is about to be.
Recorded ==
  /\ registrar.stage = "recorded" => records[<<registrar.agent, registrar.version>>] # 0
  /\ \A a \in Agents: OfApp(a) => records[<<a, served[a].version>>] # 0

Capped(own) == SettingOf(own, "concurrency") # 0

\* Until http_app copies the caps there is one for every agent that states one,
\* but for the agent whose next version is about to be served.
Noted ==
  /\ registrar.stage = "recorded" /\ Capped(registrar.own)
       => caps[registrar.agent] = registrar.own["concurrency"]
  /\ \A a \in Agents:
       OfApp(a) /\ Capped(served[a].own) /\ ~limits.made
         => \/ registrar.stage = "recorded" /\ registrar.agent = a
            \/ caps[a] = served[a].own["concurrency"]

\* What was served before http_app has its cap in the middleware.
Kept ==
  \A a \in Agents:
    OfApp(a) /\ Capped(served[a].own) /\ limits.made /\ served[a].early
      => limits.agents[a] = served[a].own["concurrency"]

\* The platform has a policy if the layers state one, and it says what they say.
Governed == policy = IF PolicyStated THEN [f \in PolicyFields |-> Stated(f)] ELSE None

IInv ==
  /\ Types /\ ApprovedFirst /\ Cleared
  /\ Registering /\ Serving /\ Recorded /\ Noted /\ Kept /\ Governed
-----------------------------------------------------------------------------
(* What deep_merge leaves of a setting.                                    *)

Setting(f) == <<"policy", f>>

\* A configuration says v of a setting; nothing is 0.
SaysOf(config, f, v) ==
  /\ \A l \in config: l.path = Setting(f) => l.value = v
  /\ (\A l \in config: l.path # Setting(f)) => v = 0

\* A layer that says something of a setting, be it only that there is no policy.
Says(layer, f) ==
  \E l \in layer: (l.path = Setting(f) \/ l.path = <<"policy">>) /\ l.value # Empty

\* get answers what the configuration says.
LEMMA Getting ==
  ASSUME NEW config, NEW f, NEW v, SaysOf(config, f, v)
  PROVE  Get(config, Setting(f), 0) = v
  BY Zenon DEF SaysOf, Get

\* A layer says one thing of a setting.
LEMMA Saying ==
  ASSUME NEW layer, IsLayer(layer), NEW f \in PolicyFields
  PROVE  SaysOf(layer, f, Get(layer, Setting(f), 0))
<1>1. IsPrefix(Setting(f), Setting(f))
  BY DEF IsPrefix
<1>2. \A k, l \in layer: k.path = Setting(f) /\ l.path = Setting(f) => k = l
  BY <1>1 DEF IsLayer
<1> QED BY <1>2, Zenon DEF SaysOf, Get

\* A path is above another one that goes on where it ends.
LEMMA Prefix ==
  ASSUME NEW S, NEW p \in Seq(S), NEW q \in Seq(S)
  PROVE  IsPrefix(p, q) <=> Len(p) <= Len(q) /\ \A i \in 1..Len(p): p[i] = q[i]
  BY DEF IsPrefix

LEMMA Paths ==
  ASSUME NEW f \in PolicyFields
  PROVE  /\ <<"policy">> \in Seq(Keys) /\ Len(<<"policy">>) = 1 /\ <<"policy">>[1] = "policy"
         /\ Setting(f) \in Seq(Keys) /\ Len(Setting(f)) = 2
         /\ Setting(f)[1] = "policy" /\ Setting(f)[2] = f
<1>1. f \in Keys /\ "policy" \in Keys
  BY KeysAssumption
<1> HIDE DEF PolicyFields
<1> QED BY <1>1 DEF Setting

\* The paths above a setting's are the policy's and its own.
LEMMA Above ==
  ASSUME NEW f \in PolicyFields, NEW p \in Seq(Keys) \ {<<>>}
  PROVE  /\ IsPrefix(p, Setting(f)) <=> p \in {<<"policy">>, Setting(f)}
         /\ IsPrefix(<<"policy">>, Setting(f)) /\ IsPrefix(Setting(f), Setting(f))
         /\ <<"policy">> # Setting(f)
<1>1. IsPrefix(p, Setting(f)) <=> Len(p) <= 2 /\ \A i \in 1..Len(p): p[i] = Setting(f)[i]
  BY Paths, Prefix
<1>2. IsPrefix(Setting(f), Setting(f)) /\ IsPrefix(<<"policy">>, Setting(f))
  <2>1. /\ <<"policy">> \in Seq(Keys) /\ Setting(f) \in Seq(Keys)
        /\ Len(<<"policy">>) <= Len(Setting(f))
        /\ \A i \in 1..Len(<<"policy">>): <<"policy">>[i] = Setting(f)[i]
    BY Paths
  <2>2. IsPrefix(<<"policy">>, Setting(f))
    BY <2>1, Prefix
  <2> QED BY <2>2, Paths DEF IsPrefix
<1>3. <<"policy">> # Setting(f)
  BY Paths
<1>4. ASSUME IsPrefix(p, Setting(f))
      PROVE  p \in {<<"policy">>, Setting(f)}
  <2>1. CASE Len(p) = 1
    <3>1. p[1] = "policy"
      BY <1>1, <1>4, <2>1, Paths
    <3> QED BY <2>1, <3>1, Paths
  <2>2. CASE Len(p) = 2
    <3>1. p[1] = "policy" /\ p[2] = f
      BY <1>1, <1>4, <2>2, Paths
    <3> QED BY <2>2, <3>1, Paths DEF Setting
  <2>3. Len(p) \in Nat /\ Len(p) # 0 /\ Len(p) <= 2
    BY <1>1, <1>4, EmptySeq
  <2>4. \A n \in Nat: n # 0 /\ n <= 2 => n = 1 \/ n = 2
    OBVIOUS
  <2>5. Len(p) = 1 \/ Len(p) = 2
    BY <2>3, <2>4, Zenon
  <2> QED BY <2>1, <2>2, <2>5
<1> QED BY <1>2, <1>3, <1>4

\* deep_merge: what the upper layer says, and where it says nothing what was said
\* below.
LEMMA Merging ==
  ASSUME NEW base, NEW layer, IsLayer(layer), NEW f \in PolicyFields, NEW v,
         SaysOf(base, f, v)
  PROVE  SaysOf(Merge(base, layer), f,
                IF Says(layer, f) THEN Get(layer, Setting(f), 0) ELSE v)
<1> DEFINE idle(o) == o.value = Empty /\ \E b \in base: IsStrictPrefix(o.path, b.path)
           replaced(b) == \E o \in layer:
                            IsPrefix(b.path, o.path) \/ (IsPrefix(o.path, b.path) /\ ~idle(o))
           merged == {b \in base: ~replaced(b)} \cup {o \in layer: ~idle(o)}
           w == Get(layer, Setting(f), 0)
<1>1. merged = Merge(base, layer)
  BY DEF Merge
<1>2. \A o \in layer: IsPrefix(Setting(f), o.path) => o.path = Setting(f) /\ o.value # Empty
  BY DEF IsLayer, Setting
<1>3. \A o \in layer: IsPrefix(o.path, Setting(f)) <=> o.path \in {<<"policy">>, Setting(f)}
  BY Above DEF IsLayer
<1>4. /\ IsPrefix(<<"policy">>, Setting(f)) /\ IsPrefix(Setting(f), Setting(f))
      /\ <<"policy">> # Setting(f)
  <2>1. <<"policy">> \in Seq(Keys) \ {<<>>}
    BY Paths
  <2> QED BY <2>1, Above
<1>5. \A k, l \in layer: IsPrefix(k.path, l.path) => k = l
  BY DEF IsLayer
<1>6. SaysOf(layer, f, w)
  BY Saying
<1>7. CASE \E o \in layer: o.path = Setting(f)
  <2>1. Says(layer, f)
    BY <1>2, <1>4, <1>7 DEF Says
  <2>2. \A b \in base: b.path = Setting(f) => replaced(b)
    BY <1>4, <1>7
  <2>3. PICK o \in layer: o.path = Setting(f)
    BY <1>7
  <2>4. o \in merged /\ o.path = Setting(f)
    BY <1>2, <1>4, <2>3
  <2>5. SaysOf(merged, f, w)
    BY <1>6, <2>2, <2>4, Zenon DEF SaysOf
  <2> QED BY <1>1, <2>1, <2>5
<1>8. CASE (\A o \in layer: o.path # Setting(f)) /\ Says(layer, f)
  <2>1. PICK p \in layer: p.path = <<"policy">> /\ p.value # Empty
    BY <1>8 DEF Says
  <2>2. \A b \in base: b.path = Setting(f) => replaced(b)
    BY <1>4, <2>1
  <2>3. \A l \in merged: l.path # Setting(f)
    BY <1>8, <2>2
  <2>4. w = 0
    BY <1>6, <1>8 DEF SaysOf
  <2>5. SaysOf(merged, f, w)
    BY <2>3, <2>4 DEF SaysOf
  <2> QED BY <1>1, <1>8, <2>5
<1>9. CASE ~Says(layer, f)
  <2>1. \A o \in layer: o.path # Setting(f)
    BY <1>2, <1>4, <1>9 DEF Says
  <2>2. ASSUME NEW b \in base, b.path = Setting(f)
        PROVE  ~replaced(b)
    <3>1. SUFFICES ASSUME NEW o \in layer, IsPrefix(o.path, b.path), ~idle(o)
                   PROVE  FALSE
      BY <1>2, <2>1, <2>2
    <3>2. o.path = <<"policy">>
      BY <1>3, <2>1, <2>2, <3>1
    <3>3. o.value = Empty
      BY <1>9, <3>2 DEF Says
    <3>4. IsStrictPrefix(o.path, b.path)
      BY <1>4, <2>2, <3>2 DEF IsStrictPrefix
    <3> QED BY <3>1, <3>3, <3>4
  <2>3. \A l: l.path = Setting(f) => (l \in merged <=> l \in base)
    BY <2>1, <2>2
  <2>4. SaysOf(merged, f, v)
    BY <2>3, Zenon DEF SaysOf
  <2> QED BY <1>1, <1>9, <2>4
<1> QED BY <1>7, <1>8, <1>9

\* Prefixes are ordered, and those of one path are linearly.
LEMMA Nesting ==
  ASSUME NEW S, NEW p \in Seq(S), NEW q \in Seq(S), NEW r \in Seq(S)
  PROVE  /\ IsPrefix(p, q) /\ IsPrefix(q, r) => IsPrefix(p, r)
         /\ IsPrefix(p, r) /\ IsPrefix(q, r) => IsPrefix(p, q) \/ IsPrefix(q, p)
         /\ IsPrefix(p, q) /\ IsPrefix(q, p) => p = q
<1>1. /\ IsPrefix(p, q) <=> Len(p) <= Len(q) /\ \A i \in 1..Len(p): p[i] = q[i]
      /\ IsPrefix(q, p) <=> Len(q) <= Len(p) /\ \A i \in 1..Len(q): q[i] = p[i]
      /\ IsPrefix(p, r) <=> Len(p) <= Len(r) /\ \A i \in 1..Len(p): p[i] = r[i]
      /\ IsPrefix(q, r) <=> Len(q) <= Len(r) /\ \A i \in 1..Len(q): q[i] = r[i]
  BY Prefix
<1>2. Len(p) \in Nat /\ Len(q) \in Nat /\ Len(r) \in Nat
  OBVIOUS
<1>3. IsPrefix(p, q) /\ IsPrefix(q, r) => IsPrefix(p, r)
  BY <1>1, <1>2
<1>4. IsPrefix(p, r) /\ IsPrefix(q, r) => IsPrefix(p, q) \/ IsPrefix(q, p)
  BY <1>1, <1>2
<1>5. IsPrefix(p, q) /\ IsPrefix(q, p) => p = q
  BY <1>1, <1>2
<1> QED BY <1>3, <1>4, <1>5

Policy == <<"policy">>

\* The paths of a configuration.
Rooted(config) == \A l \in config: l.path \in Seq(Keys) \ {<<>>}

\* A layer mentions a policy, and takes it back.
Mentions(layer) == \E l \in layer: IsPrefix(Policy, l.path)
TakesBack(layer) == \E l \in layer: l.path = Policy /\ l.value = 0

\* deep_merge: there is a policy if the upper layer mentions one and does not take
\* it back, or mentions none and there was one below.
LEMMA MergingPolicy ==
  ASSUME NEW base, NEW layer, IsLayer(layer), Rooted(base)
  PROVE  /\ Rooted(Merge(base, layer))
         /\ HasPolicy(Merge(base, layer))
              <=> IF Mentions(layer) THEN ~TakesBack(layer) ELSE HasPolicy(base)
<1> DEFINE idle(o) == o.value = Empty /\ \E b \in base: IsStrictPrefix(o.path, b.path)
           replaced(b) == \E o \in layer:
                            IsPrefix(b.path, o.path) \/ (IsPrefix(o.path, b.path) /\ ~idle(o))
           merged == {b \in base: ~replaced(b)} \cup {o \in layer: ~idle(o)}
           holds(l) == IsPrefix(Policy, l.path) /\ (l.path = Policy => l.value # 0)
<1>1. merged = Merge(base, layer)
  BY DEF Merge
<1>2. /\ \A b \in base: b.path \in Seq(Keys)
      /\ \A o \in layer: o.path \in Seq(Keys)
      /\ Policy \in Seq(Keys)
  BY KeysAssumption DEF Rooted, IsLayer, Policy
<1>3. /\ \A k, l \in layer: IsPrefix(k.path, l.path) => k = l
      /\ \A l \in layer: l.path = Policy => l.value \in {0, Empty}
  BY DEF IsLayer, Policy
<1>4. Rooted(merged)
  BY DEF Rooted, IsLayer
<1>5. \A config: HasPolicy(config) <=> \E l \in config: holds(l)
  BY DEF HasPolicy, Policy
<1> HIDE DEF Policy
<1>6. CASE ~Mentions(layer)
  <2>1. ASSUME NEW b \in base, IsPrefix(Policy, b.path)
        PROVE  b \in merged
    <3>1. SUFFICES ASSUME NEW o \in layer, IsPrefix(b.path, o.path) \/ IsPrefix(o.path, b.path)
                   PROVE  IsPrefix(Policy, o.path)
      BY <1>6, <2>1 DEF Mentions
    <3>2. CASE IsPrefix(b.path, o.path)
      BY <1>2, <2>1, <3>2, Nesting
    <3>3. CASE IsPrefix(o.path, b.path)
      <4>1. IsPrefix(Policy, o.path) \/ IsPrefix(o.path, Policy)
        BY <1>2, <2>1, <3>3, Nesting
      <4>2. o.path \in Seq(Keys) \ {<<>>}
        BY DEF IsLayer
      <4>3. IsPrefix(o.path, Policy) => o.path = Policy
        <5>1. IsPrefix(o.path, Policy) => Len(o.path) <= Len(Policy) /\ \A i \in 1..Len(o.path): o.path[i] = Policy[i]
          BY <1>2, Prefix
        <5>2. Len(Policy) = 1
          BY DEF Policy
        <5>3. Len(o.path) \in Nat /\ Len(o.path) # 0
          BY <4>2, EmptySeq
        <5>4. ASSUME IsPrefix(o.path, Policy)
              PROVE  Len(o.path) = 1 /\ o.path[1] = Policy[1]
          <6>1. Len(o.path) <= 1 /\ \A i \in 1..Len(o.path): o.path[i] = Policy[i]
            BY <5>1, <5>2, <5>4
          <6>2. \A n \in Nat: n # 0 /\ n <= 1 => n = 1
            OBVIOUS
          <6>3. Len(o.path) = 1
            BY <5>3, <6>1, <6>2, Zenon
          <6> QED BY <6>1, <6>3
        <5> QED BY <1>2, <4>2, <5>2, <5>4
      <4>4. IsPrefix(Policy, Policy)
        BY DEF IsPrefix
      <4> QED BY <4>1, <4>3, <4>4
    <3> QED BY <3>1, <3>2, <3>3
  <2>2. \A o \in layer: ~IsPrefix(Policy, o.path)
    BY <1>6 DEF Mentions
  <2>3. (\E l \in merged: holds(l)) <=> \E l \in base: holds(l)
    BY <2>1, <2>2
  <2> HIDE DEF merged, holds
  <2> QED BY <1>1, <1>4, <1>5, <1>6, <2>3
<1>7. CASE TakesBack(layer)
  <2>1. PICK o \in layer: o.path = Policy /\ o.value = 0
    BY <1>7 DEF TakesBack
  <2>2. Mentions(layer)
    <3>1. IsPrefix(Policy, Policy)
      BY DEF IsPrefix, Policy
    <3> QED BY <2>1, <3>1 DEF Mentions
  <2>3. ~idle(o)
    BY <2>1, EmptyAssumption
  <2>4. \A b \in base: IsPrefix(Policy, b.path) => replaced(b)
    BY <2>1, <2>3
  <2>5. \A l \in layer: IsPrefix(Policy, l.path) => l = o
    BY <1>3, <2>1
  <2>6. ~holds(o)
    BY <2>1
  <2>7. \A l \in merged: ~holds(l)
    BY <2>4, <2>5, <2>6
  <2> HIDE DEF merged, holds
  <2> QED BY <1>1, <1>4, <1>5, <1>7, <2>2, <2>7
<1>8. CASE Mentions(layer) /\ ~TakesBack(layer)
  <2>1. PICK o \in layer: IsPrefix(Policy, o.path)
    BY <1>8 DEF Mentions
  <2>2. holds(o)
    BY <1>8, <2>1 DEF TakesBack
  <2>3. CASE ~idle(o)
    BY <1>1, <1>4, <1>5, <1>8, <2>2, <2>3
  <2>4. CASE idle(o)
    <3>1. PICK b \in base: IsStrictPrefix(o.path, b.path)
      BY <2>4
    <3>2. IsPrefix(o.path, b.path) /\ o.path # b.path
      BY <3>1 DEF IsStrictPrefix
    <3>3. IsPrefix(Policy, b.path) /\ b.path # Policy
      <4>1. IsPrefix(Policy, b.path)
        BY <1>2, <2>1, <3>2, Nesting
      <4>2. b.path = Policy => o.path = b.path
        BY <1>2, <2>1, <3>2, Nesting
      <4> QED BY <3>2, <4>1, <4>2
    <3>4. ~replaced(b)
      <4>1. SUFFICES ASSUME NEW l \in layer,
                            IsPrefix(b.path, l.path) \/ (IsPrefix(l.path, b.path) /\ ~idle(l))
                     PROVE  FALSE
        OBVIOUS
      <4>2. CASE IsPrefix(b.path, l.path)
        <5>1. IsPrefix(o.path, l.path)
          BY <1>2, <3>2, <4>2, Nesting
        <5>2. o = l
          BY <1>3, <5>1
        <5> QED BY <1>2, <3>2, <4>2, <5>2, Nesting
      <4>3. CASE IsPrefix(l.path, b.path) /\ ~idle(l)
        <5>1. IsPrefix(o.path, l.path) \/ IsPrefix(l.path, o.path)
          BY <1>2, <3>2, <4>3, Nesting
        <5>2. o = l
          BY <1>3, <5>1
        <5> QED BY <2>4, <4>3, <5>2
      <4> QED BY <4>1, <4>2, <4>3
    <3>5. b \in merged /\ holds(b)
      BY <3>3, <3>4
    <3> QED BY <1>1, <1>4, <1>5, <1>8, <3>5
  <2> QED BY <2>3, <2>4
<1> QED BY <1>6, <1>7, <1>8

\* What Stated asks of one layer.
LEMMA Asking ==
  ASSUME NEW layer, IsLayer(layer), NEW f \in PolicyFields
  PROVE  /\ Says(layer, f)
              <=> \E l \in {l \in layer: l.path = Setting(f) \/ l.path = <<"policy">>}:
                    l.value # Empty
         /\ Get({l \in layer: l.path = Setting(f) \/ l.path = <<"policy">>}, Setting(f), 0)
              = Get(layer, Setting(f), 0)
<1> DEFINE says == {l \in layer: l.path = Setting(f) \/ l.path = <<"policy">>}
<1>1. SaysOf(says, f, Get(layer, Setting(f), 0))
  BY Saying, Zenon DEF SaysOf
<1>2. Get(says, Setting(f), 0) = Get(layer, Setting(f), 0)
  BY <1>1, Getting
<1> QED BY <1>2 DEF Says

\* The last of some numbers.
LEMMA TheLast ==
  ASSUME NEW S \in SUBSET (1..5), NEW n \in S, \A j \in S: j <= n
  PROVE  (CHOOSE i \in S: \A j \in S: j <= i) = n
<1>1. \A i \in S: (\A j \in S: j <= i) => i = n
  <2> SUFFICES ASSUME NEW i \in S, \A j \in S: j <= i
               PROVE  i = n
    OBVIOUS
  <2> i <= n /\ n <= i /\ i \in 1..5 /\ n \in 1..5
    OBVIOUS
  <2> QED OBVIOUS
<1> QED BY <1>1, Zenon

\* What the layers come to says of a setting what the last one says of it.
LEMMA Settings ==
  ASSUME layers \in FromDir, NEW f \in PolicyFields
  PROVE  Get(Resolve(layers), Setting(f), 0) = Stated(f)
<1>1. \A n \in LayerNames: layers[n] \in LayerChoices /\ IsLayer(layers[n])
  BY LayersAssumption DEF FromDir
<1>2. /\ LAYER_ORDER[1] = "framework" /\ LAYER_ORDER[2] = "environment"
      /\ LAYER_ORDER[3] = "project" /\ LAYER_ORDER[4] = "agent"
      /\ LAYER_ORDER[5] = "runtime" /\ DOMAIN LAYER_ORDER = 1..5
  BY DEF LAYER_ORDER
<1>3. \A i \in 1..5: LAYER_ORDER[i] \in LayerNames
  BY <1>2 DEF LayerNames
<1>4. layers[LAYER_ORDER[4]] = {} /\ layers[LAYER_ORDER[5]] = {}
  BY <1>2 DEF FromDir
<1> DEFINE L(i) == layers[LAYER_ORDER[i]]
           S(i) == Says(L(i), f)
           w(i) == Get(L(i), Setting(f), 0)
           c1 == Merge({}, L(1))
           c2 == Merge(c1, L(2))
           c3 == Merge(c2, L(3))
           c4 == Merge(c3, L(4))
           c5 == Merge(c4, L(5))
           v1 == IF S(1) THEN w(1) ELSE 0
           v2 == IF S(2) THEN w(2) ELSE v1
           v3 == IF S(3) THEN w(3) ELSE v2
<1>5. \A i \in 1..5: IsLayer(L(i))
  BY <1>1, <1>3
<1>6. ~S(4) /\ ~S(5)
  BY <1>4 DEF Says
<1>7. SaysOf(c5, f, v3)
  <2>0. SaysOf({}, f, 0)
    BY DEF SaysOf
  <2>1. IsLayer(L(1)) /\ IsLayer(L(2)) /\ IsLayer(L(3)) /\ IsLayer(L(4)) /\ IsLayer(L(5))
    BY <1>5
  <2> HIDE DEF L, S, w, c1, c2, c3, c4, c5, v1, v2, v3
  <2>2. SaysOf(c1, f, v1)
    BY <2>0, <2>1, Merging DEF c1, v1, S, w
  <2>3. SaysOf(c2, f, v2)
    BY <2>1, <2>2, Merging DEF c2, v2, S, w
  <2>4. SaysOf(c3, f, v3)
    BY <2>1, <2>3, Merging DEF c3, v3, S, w
  <2>5. SaysOf(c4, f, IF S(4) THEN w(4) ELSE v3)
    BY <2>1, <2>4, Merging DEF c4, S, w
  <2>6. SaysOf(c4, f, v3)
    BY <1>6, <2>5
  <2>7. SaysOf(c5, f, IF S(5) THEN w(5) ELSE v3)
    BY <2>1, <2>6, Merging DEF c5, S, w
  <2> QED BY <1>6, <2>7
<1>8. Get(Resolve(layers), Setting(f), 0) = v3
  <2>1. Resolve(layers) = c5
    BY DEF Resolve
  <2> HIDE DEF c5, v3
  <2>2. Get(c5, Setting(f), 0) = v3
    BY <1>7, Getting
  <2> QED BY <2>1, <2>2
<1>9. Stated(f) = v3
  <2> DEFINE says(i) == {l \in layers[LAYER_ORDER[i]]: l.path = <<"policy", f>> \/ l.path = <<"policy">>}
             saying == {i \in DOMAIN LAYER_ORDER: \E l \in says(i): l.value # Empty}
             last == CHOOSE i \in saying: \A j \in saying: j <= i
  <2>1. Stated(f) = IF saying = {} THEN 0 ELSE Get(says(last), <<"policy", f>>, 0)
    BY DEF Stated
  <2>2. \A i \in 1..5: /\ i \in saying <=> S(i)
                       /\ Get(says(i), <<"policy", f>>, 0) = w(i)
    <3> SUFFICES ASSUME NEW i \in 1..5
                 PROVE  /\ i \in saying <=> S(i)
                        /\ Get(says(i), <<"policy", f>>, 0) = w(i)
      OBVIOUS
    <3>1. says(i) = {l \in L(i): l.path = Setting(f) \/ l.path = <<"policy">>}
      BY DEF Setting
    <3>2. i \in saying <=> \E l \in says(i): l.value # Empty
      BY <1>2
    <3>3. IsLayer(L(i))
      BY <1>5
    <3> HIDE DEF says, saying, L
    <3> QED BY <3>1, <3>2, <3>3, Asking DEF Setting
  <2>3. saying \subseteq 1..5
    BY <1>2
  <2> HIDE DEF says, saying, L, S, w
  <2>4. CASE S(3)
    <3>1. 3 \in saying /\ \A j \in saying: j <= 3
      BY <1>6, <2>2, <2>3, <2>4
    <3>2. last = 3
      BY <2>3, <3>1, TheLast
    <3>3. Get(says(3), <<"policy", f>>, 0) = w(3) /\ v3 = w(3)
      BY <2>2, <2>4
    <3> QED BY <2>1, <3>1, <3>2, <3>3
  <2>5. CASE ~S(3) /\ S(2)
    <3>1. 2 \in saying /\ \A j \in saying: j <= 2
      BY <1>6, <2>2, <2>3, <2>5
    <3>2. last = 2
      BY <2>3, <3>1, TheLast
    <3>3. Get(says(2), <<"policy", f>>, 0) = w(2) /\ v3 = w(2)
      BY <2>2, <2>5
    <3> QED BY <2>1, <3>1, <3>2, <3>3
  <2>6. CASE ~S(3) /\ ~S(2) /\ S(1)
    <3>1. 1 \in saying /\ \A j \in saying: j <= 1
      BY <1>6, <2>2, <2>3, <2>6
    <3>2. last = 1
      BY <2>3, <3>1, TheLast
    <3>3. Get(says(1), <<"policy", f>>, 0) = w(1) /\ v3 = w(1)
      BY <2>2, <2>6
    <3> QED BY <2>1, <3>1, <3>2, <3>3
  <2>7. CASE ~S(3) /\ ~S(2) /\ ~S(1)
    <3>1. saying = {}
      BY <1>6, <2>2, <2>3, <2>7
    <3> QED BY <2>1, <2>7, <3>1
  <2> QED BY <2>4, <2>5, <2>6, <2>7
<1> QED BY <1>8, <1>9

\* What the layers come to holds a policy if they state one.
LEMMA Policies ==
  ASSUME layers \in FromDir
  PROVE  HasPolicy(Resolve(layers)) <=> PolicyStated
<1>1. \A n \in LayerNames: IsLayer(layers[n])
  BY LayersAssumption DEF FromDir
<1>2. /\ LAYER_ORDER[1] = "framework" /\ LAYER_ORDER[2] = "environment"
      /\ LAYER_ORDER[3] = "project" /\ LAYER_ORDER[4] = "agent"
      /\ LAYER_ORDER[5] = "runtime" /\ DOMAIN LAYER_ORDER = 1..5
  BY DEF LAYER_ORDER
<1>3. \A i \in 1..5: LAYER_ORDER[i] \in LayerNames
  BY <1>2 DEF LayerNames
<1> DEFINE L(i) == layers[LAYER_ORDER[i]]
           M(i) == Mentions(L(i))
           H(i) == M(i) /\ ~TakesBack(L(i))
           c1 == Merge({}, L(1))
           c2 == Merge(c1, L(2))
           c3 == Merge(c2, L(3))
           c4 == Merge(c3, L(4))
           c5 == Merge(c4, L(5))
<1>4. IsLayer(L(1)) /\ IsLayer(L(2)) /\ IsLayer(L(3)) /\ IsLayer(L(4)) /\ IsLayer(L(5))
  BY <1>1, <1>3
<1>5. Resolve(layers) = c5
  BY DEF Resolve
<1>6. Rooted({}) /\ ~HasPolicy({})
  BY DEF Rooted, HasPolicy
<1>7. PolicyStated <=> \E i \in 1..5: H(i) /\ \A j \in 1..5: j > i => ~M(j)
  <2> DEFINE mentions(i) == {l \in layers[LAYER_ORDER[i]]: IsPrefix(<<"policy">>, l.path)}
  <2>1. PolicyStated <=>
          \E i \in 1..5:
            /\ mentions(i) # {} /\ \A l \in mentions(i): l.path = <<"policy">> => l.value # 0
            /\ \A j \in 1..5: j > i => mentions(j) = {}
    BY <1>2 DEF PolicyStated
  <2>2. \A i: M(i) <=> mentions(i) # {}
    BY DEF Mentions, Policy
  <2>3. IsPrefix(<<"policy">>, <<"policy">>)
    BY DEF IsPrefix
  <2>4. \A i: TakesBack(L(i)) <=> \E l \in mentions(i): l.path = <<"policy">> /\ l.value = 0
    BY <2>3 DEF TakesBack, Policy
  <2> HIDE DEF mentions, M, L
  <2> QED BY <2>1, <2>2, <2>4
<1> HIDE DEF L, M, c1, c2, c3, c4, c5
<1>8. Rooted(c1) /\ (HasPolicy(c1) <=> H(1))
  BY <1>4, <1>6, MergingPolicy DEF c1, M
<1>9. Rooted(c2) /\ (HasPolicy(c2) <=> (H(2) \/ (~M(2) /\ HasPolicy(c1))))
  BY <1>4, <1>8, MergingPolicy DEF c2, M
<1>10. Rooted(c3) /\ (HasPolicy(c3) <=> (H(3) \/ (~M(3) /\ HasPolicy(c2))))
  BY <1>4, <1>9, MergingPolicy DEF c3, M
<1>11. Rooted(c4) /\ (HasPolicy(c4) <=> (H(4) \/ (~M(4) /\ HasPolicy(c3))))
  BY <1>4, <1>10, MergingPolicy DEF c4, M
<1>12. HasPolicy(c5) <=> (H(5) \/ (~M(5) /\ HasPolicy(c4)))
  BY <1>4, <1>11, MergingPolicy DEF c5, M
<1> HIDE DEF H
<1>13. (\E i \in 1..5: H(i) /\ \A j \in 1..5: j > i => ~M(j))
         <=> \/ H(5)
             \/ H(4) /\ ~M(5)
             \/ H(3) /\ ~M(4) /\ ~M(5)
             \/ H(2) /\ ~M(3) /\ ~M(4) /\ ~M(5)
             \/ H(1) /\ ~M(2) /\ ~M(3) /\ ~M(4) /\ ~M(5)
  OBVIOUS
<1> QED BY <1>5, <1>7, <1>8, <1>9, <1>10, <1>11, <1>12, <1>13

\* What the policy is made of at the start is what the layers state.
LEMMA InitGoverned ==
  ASSUME layers \in FromDir, policy = FromConfig(Resolve(layers))
  PROVE  Governed
<1>1. \A f \in PolicyFields: Get(Resolve(layers), Setting(f), 0) = Stated(f)
  BY Settings
<1>2. HasPolicy(Resolve(layers)) <=> PolicyStated
  BY Policies
<1> QED BY <1>1, <1>2 DEF Governed, FromConfig, Setting

-----------------------------------------------------------------------------
(* The initial states, and the steps that leave the control plane alone.   *)

LEMMA InitIInv == Init => IInv
<1> SUFFICES ASSUME Init PROVE IInv
  OBVIOUS
<1> USE DEF Init, ControlInit
<1>1. Types
  BY DEF Types, OperatorStates
<1>2. ApprovedFirst /\ Cleared
  BY DEF ApprovedFirst, Cleared
<1>3. Registering /\ Serving
  BY DEF Registering, Serving
<1>4. Recorded /\ Noted /\ Kept
  BY DEF Recorded, Noted, Kept, OfApp, NotServed
<1>5. Governed
  BY InitGoverned
<1> QED BY <1>1, <1>2, <1>3, <1>4, <1>5 DEF IInv

\* An agent is made the same as long as the platform's policy stays.
LEMMA SameMade ==
  ASSUME UNCHANGED policy, NEW a, NEW v, NEW own, NEW spec, NEW early
  PROVE  /\ Create(a, v, own, spec)' = Create(a, v, own, spec)
         /\ Registered(a, v, own, spec, early)' = Registered(a, v, own, spec, early)
         /\ HandedOver(v, own, spec, early)' = HandedOver(v, own, spec, early)
  BY DEF Create, Registered, HandedOver

LEMMA ServedMade ==
  ASSUME IInv, UNCHANGED <<policy, served>>
  PROVE  Serving'
  BY SameMade DEF IInv, Serving

LEMMA AgentsMade ==
  ASSUME IInv, UNCHANGED <<policy, registrar, served>>
  PROVE  Registering' /\ Serving'
<1>1. Registering'
  BY SameMade DEF IInv, Registering
<1> QED BY <1>1, ServedMade

LEMMA GovernedStays ==
  ASSUME Governed, UNCHANGED <<layers, policy>>
  PROVE  Governed'
<1>1. PolicyStated' <=> PolicyStated
  BY Zenon DEF PolicyStated
<1>2. ASSUME NEW f \in PolicyFields PROVE Stated(f)' = Stated(f)
  <2> DEFINE says(l, i) == {m \in l[LAYER_ORDER[i]]: m.path = <<"policy", f>> \/ m.path = <<"policy">>}
             saying(l) == {i \in DOMAIN LAYER_ORDER: \E m \in says(l, i): m.value # Empty}
             last(l) == CHOOSE i \in saying(l): \A j \in saying(l): j <= i
             stated(l) == IF saying(l) = {} THEN 0 ELSE Get(says(l, last(l)), <<"policy", f>>, 0)
  <2>1. Stated(f) = stated(layers)
    BY DEF Stated
  <2>2. Stated(f)' = stated(layers')
    BY DEF Stated
  <2> HIDE DEF stated
  <2> QED BY <2>1, <2>2
<1> QED BY <1>1, <1>2 DEF Governed

LEMMA Untouched ==
  ASSUME IInv, UNCHANGED controlVars
  PROVE  IInv'
<1> USE DEF controlVars
<1>1. Types' /\ ApprovedFirst' /\ Cleared'
  BY DEF IInv, Types, OperatorStates, ApprovedFirst, Cleared, IsApproved
<1>2. Registering' /\ Serving'
  BY AgentsMade
<1>3. Recorded' /\ Noted' /\ Kept'
  BY DEF IInv, Recorded, Noted, Kept, OfApp
<1>4. Governed'
  BY GovernedStays DEF IInv
<1> QED BY <1>1, <1>2, <1>3, <1>4 DEF IInv

-----------------------------------------------------------------------------
(* The registration of an agent.                                           *)

LEMMA ServedVersion ==
  ASSUME IInv, NEW b \in Agents, served[b].version # 0
  PROVE  served[b].version \in Versions
<1>1. served[b] # NotServed
  BY DEF NotServed
<1>2. CASE \E v \in Versions, own \in AgentConfig, spec \in SpecConfig, early \in BOOLEAN:
             served[b] = Registered(b, v, own, spec, early)
  BY <1>2 DEF Registered
<1>3. CASE \E v \in Versions, given \in AgentConfig \cup {policy}, spec \in SpecConfig,
              early \in BOOLEAN:
             served[b] = HandedOver(v, given, spec, early)
  BY <1>3 DEF HandedOver
<1> QED BY <1>1, <1>2, <1>3, Zenon DEF IInv, Serving

LEMMA BeginIInv ==
  ASSUME IInv, NEW a \in Agents, NEW v \in Versions, RegisterBegin(a, v)
  PROVE  IInv'
<1>1. PICK own \in AgentConfig, spec \in SpecConfig: registrar' = Create(a, v, own, spec)
  BY DEF RegisterBegin
<1>2. UNCHANGED <<layers, policy, objects, records, caps, served, limits, operator>>
  BY DEF RegisterBegin
<1>3. registrar.stage = "idle"
  BY DEF RegisterBegin
<1>4. registrar' = [stage |-> "made", agent |-> a, version |-> v, own |-> own, spec |-> spec,
                    policy |-> Create(a, v, own, spec).policy]
  BY <1>1 DEF Create
<1>5. Types' /\ ApprovedFirst' /\ Cleared'
  BY <1>2 DEF IInv, Types, OperatorStates, ApprovedFirst, Cleared, IsApproved
<1>6. Registering'
  BY <1>2, <1>4, SameMade DEF Registering
<1>7. Serving'
  BY <1>2, ServedMade
<1>8. Recorded' /\ Noted' /\ Kept'
  BY <1>2, <1>3, <1>4 DEF IInv, Recorded, Noted, Kept, OfApp
<1>9. Governed'
  BY <1>2, GovernedStays DEF IInv
<1> QED BY <1>5, <1>6, <1>7, <1>8, <1>9 DEF IInv

LEMMA RecordIInv ==
  ASSUME IInv, RegisterRecord
  PROVE  IInv'
<1>1. UNCHANGED <<layers, policy, served, limits, operator>>
  BY DEF RegisterRecord
<1>2. registrar.stage = "made"
  BY DEF RegisterRecord
<1>3. PICK a \in Agents, v \in Versions, own \in AgentConfig, spec \in SpecConfig:
        registrar = [stage |-> "made", agent |-> a, version |-> v, own |-> own, spec |-> spec,
                     policy |-> Create(a, v, own, spec).policy]
  BY <1>2 DEF IInv, Registering
<1>4. registrar' = [stage |-> "recorded", agent |-> a, version |-> v, own |-> own,
                    spec |-> spec, policy |-> Create(a, v, own, spec).policy]
  BY <1>3 DEF RegisterRecord
<1>5. caps' = IF Capped(own) THEN [caps EXCEPT ![a] = own["concurrency"]] ELSE caps
  BY <1>3 DEF RegisterRecord, Capped
<1>6. objects' = Append(objects, FromSpec(a, v))
  BY <1>3 DEF RegisterRecord
<1>7. records' = [records EXCEPT ![<<a, v>>] = Len(objects) + 1]
  BY <1>3 DEF RegisterRecord, Save
<1>8. FromSpec(a, v) \in AgentRecord /\ FromSpec(a, v).status = "DEVELOPMENT"
  BY DEF FromSpec, AgentRecord, Lifecycle
<1>9. Types
  BY DEF IInv
<1>10. /\ Len(objects) \in Nat /\ Len(objects') = Len(objects) + 1
       /\ \A i \in 1..Len(objects): objects'[i] = objects[i]
       /\ objects'[Len(objects) + 1] = FromSpec(a, v) /\ objects' \in Seq(AgentRecord)
  BY <1>6, <1>8, <1>9 DEF Types
<1> HIDE DEF AgentRecord, FromSpec
<1>11. Types'
  <2>1. records' \in [Agents \X Versions -> 0..Len(objects')]
    BY <1>7, <1>9, <1>10 DEF Types
  <2>2. operator' \in [Operators -> OperatorStates']
    <3>1. OperatorStates \subseteq OperatorStates'
      BY <1>10 DEF OperatorStates
    <3> HIDE DEF OperatorStates
    <3> QED BY <1>1, <1>9, <3>1 DEF Types
  <2>3. DOMAIN caps' = Agents /\ DOMAIN served' = Agents /\ limits'.made \in BOOLEAN
    BY <1>1, <1>5, <1>9 DEF Types
  <2> QED BY <1>10, <2>1, <2>2, <2>3 DEF Types
<1>12. \A i \in 1..Len(objects): IsApproved(i)' <=> IsApproved(i)
  BY <1>1, <1>10 DEF IsApproved
<1>13. ApprovedFirst'
  BY <1>8, <1>10, <1>12 DEF IInv, ApprovedFirst, Beyond
<1>14. Cleared'
  <2>1. \A o \in Operators: operator[o].stage = "checked" => operator[o].object \in 1..Len(objects)
    BY <1>9 DEF Types, OperatorStates
  <2> QED BY <1>1, <1>12, <2>1 DEF IInv, Cleared
<1>15. Registering' /\ Serving'
  <2>1. Registering'
    BY <1>1, <1>4, SameMade DEF Registering
  <2>2. Serving'
    BY <1>1, ServedMade
  <2> QED BY <2>1, <2>2
<1>16. \A k \in Agents \X Versions: records[k] # 0 => records'[k] # 0
  BY <1>7, <1>9, <1>10 DEF Types
<1>17. Recorded'
  <2>1. records'[<<registrar'.agent, registrar'.version>>] # 0
    <3>1. registrar'.agent = a /\ registrar'.version = v
      BY <1>4
    <3>2. records'[<<a, v>>] = Len(objects) + 1
      BY <1>7, <1>9 DEF Types
    <3> QED BY <1>10, <3>1, <3>2
  <2>2. \A b \in Agents: served[b].version # 0 => served[b].version \in Versions
    BY ServedVersion
  <2> QED BY <1>1, <1>16, <2>1, <2>2 DEF IInv, Recorded, OfApp
<1>18. Noted' /\ Kept'
  BY <1>1, <1>2, <1>4, <1>5, <1>9 DEF IInv, Noted, Kept, OfApp, Types
<1>19. Governed'
  BY <1>1, GovernedStays DEF IInv
<1> QED BY <1>11, <1>13, <1>14, <1>15, <1>17, <1>18, <1>19 DEF IInv

\* One agent is made or handed over, and the others stay as they are.
LEMMA ServingStays ==
  ASSUME IInv, UNCHANGED policy, NEW a \in Agents,
         \A b \in Agents \ {a}: served'[b] = served[b],
         \/ \E v \in Versions, own \in AgentConfig, spec \in SpecConfig, early \in BOOLEAN:
              served'[a] = Registered(a, v, own, spec, early)'
         \/ \E v \in Versions, given \in AgentConfig \cup {policy}, spec \in SpecConfig,
               early \in BOOLEAN:
              served'[a] = HandedOver(v, given, spec, early)'
  PROVE  Serving'
<1>1. ASSUME NEW b \in Agents \ {a}
      PROVE  \/ served'[b] = NotServed
             \/ \E v \in Versions, own \in AgentConfig, spec \in SpecConfig, early \in BOOLEAN:
                  served'[b] = Registered(b, v, own, spec, early)'
             \/ \E v \in Versions, given \in AgentConfig \cup {policy}, spec \in SpecConfig,
                   early \in BOOLEAN:
                  served'[b] = HandedOver(v, given, spec, early)'
  BY SameMade DEF IInv, Serving
<1> QED BY <1>1 DEF Serving

LEMMA ServeIInv ==
  ASSUME IInv, RegisterServe
  PROVE  IInv'
<1>1. UNCHANGED <<layers, policy, objects, records, caps, limits, operator>>
  BY DEF RegisterServe
<1>2. registrar.stage = "recorded" /\ registrar' = [stage |-> "idle"]
  BY DEF RegisterServe
<1>3. PICK a \in Agents, v \in Versions, own \in AgentConfig, spec \in SpecConfig:
        registrar = [stage |-> "recorded", agent |-> a, version |-> v, own |-> own,
                     spec |-> spec, policy |-> Create(a, v, own, spec).policy]
  BY <1>2 DEF IInv, Registering
<1>4. served' = [served EXCEPT ![a] = Registered(a, v, own, spec, ~limits.made)]
  BY <1>3 DEF RegisterServe, Registered
<1>5. DOMAIN served = Agents
  BY DEF IInv, Types
<1>6. /\ \A b \in Agents \ {a}: served'[b] = served[b]
      /\ served'[a] = Registered(a, v, own, spec, ~limits.made)
  BY <1>4, <1>5
<1>7. Types' /\ ApprovedFirst' /\ Cleared'
  BY <1>1, <1>4 DEF IInv, Types, OperatorStates, ApprovedFirst, Cleared, IsApproved
<1>8. Registering'
  BY <1>2 DEF Registering
<1>9. Serving'
  <2>1. (~limits.made) \in BOOLEAN
    BY DEF IInv, Types
  <2>2. \E w \in Versions, o \in AgentConfig, s \in SpecConfig, early \in BOOLEAN:
          served'[a] = Registered(a, w, o, s, early)'
    BY <1>1, <1>6, <2>1, SameMade
  <2> QED BY <1>1, <1>6, <2>2, ServingStays
<1>10. Recorded'
  <2>1. records[<<a, v>>] # 0
    BY <1>3 DEF IInv, Recorded
  <2>2. registrar'.stage # "recorded"
    BY <1>2
  <2>3. served'[a].version = v
    BY <1>6 DEF Registered
  <2> QED BY <1>1, <1>6, <2>1, <2>2, <2>3 DEF IInv, Recorded, OfApp
<1>11. Noted' /\ Kept'
  <2>1. /\ served'[a].version = v /\ served'[a].own = own
        /\ served'[a].early = ~limits.made
    BY <1>6 DEF Registered
  <2>2. Capped(own) => caps[a] = own["concurrency"]
    BY <1>3 DEF IInv, Noted
  <2>3. registrar.agent = a /\ registrar'.stage # "recorded"
    BY <1>2, <1>3
  <2>4. Noted'
    BY <1>1, <1>6, <2>1, <2>2, <2>3 DEF IInv, Noted, OfApp
  <2>5. Kept'
    BY <1>1, <1>6, <2>1 DEF IInv, Kept, OfApp
  <2> QED BY <2>4, <2>5
<1>12. Governed'
  BY <1>1, GovernedStays DEF IInv
<1> QED BY <1>7, <1>8, <1>9, <1>10, <1>11, <1>12 DEF IInv

LEMMA DirectlyIInv ==
  ASSUME IInv, NEW a \in Agents, NEW v \in Versions, ServeDirectly(a, v)
  PROVE  IInv'
<1>1. /\ UNCHANGED <<layers, policy, registrar, objects, records, caps, limits, operator>>
      /\ registrar.stage = "idle"
  BY DEF ServeDirectly
<1>2. PICK given \in AgentConfig \cup {policy}, spec \in SpecConfig:
        served' = [served EXCEPT ![a] = HandedOver(v, given, spec, ~limits.made)]
  BY DEF ServeDirectly, HandedOver
<1>3. DOMAIN served = Agents
  BY DEF IInv, Types
<1>4. /\ \A b \in Agents \ {a}: served'[b] = served[b]
      /\ served'[a] = HandedOver(v, given, spec, ~limits.made)
  BY <1>2, <1>3
<1>5. Types' /\ ApprovedFirst' /\ Cleared'
  BY <1>1, <1>2 DEF IInv, Types, OperatorStates, ApprovedFirst, Cleared, IsApproved
<1>6. Registering'
  BY <1>1, SameMade DEF IInv, Registering
<1>7. Serving'
  <2>1. (~limits.made) \in BOOLEAN
    BY DEF IInv, Types
  <2>2. \E w \in Versions, g \in AgentConfig \cup {policy}, s \in SpecConfig, early \in BOOLEAN:
          served'[a] = HandedOver(w, g, s, early)'
    BY <1>1, <1>4, <2>1, SameMade
  <2> QED BY <1>1, <1>4, <2>2, ServingStays
<1>8. Recorded' /\ Noted' /\ Kept'
  <2>1. ~OfApp(a)'
    BY <1>4 DEF OfApp, HandedOver
  <2> QED BY <1>1, <1>4, <2>1 DEF IInv, Recorded, Noted, Kept, OfApp
<1>9. Governed'
  BY <1>1, GovernedStays DEF IInv
<1> QED BY <1>5, <1>6, <1>7, <1>8, <1>9 DEF IInv

LEMMA HttpAppIInv ==
  ASSUME IInv, HttpApp
  PROVE  IInv'
<1>1. UNCHANGED <<layers, policy, registrar, objects, records, caps, served, operator>>
  BY DEF HttpApp
<1>2. /\ registrar.stage = "idle" /\ ~limits.made
      /\ limits' = [made |-> TRUE, overall |-> SettingOf(policy, "concurrency"), agents |-> caps]
  BY DEF HttpApp
<1>3. Types' /\ ApprovedFirst' /\ Cleared'
  BY <1>1, <1>2 DEF IInv, Types, OperatorStates, ApprovedFirst, Cleared, IsApproved
<1>4. Registering' /\ Serving'
  BY <1>1, AgentsMade
<1>5. Recorded' /\ Noted' /\ Kept'
  BY <1>1, <1>2 DEF IInv, Recorded, Noted, Kept, OfApp
<1>6. Governed'
  BY <1>1, GovernedStays DEF IInv
<1> QED BY <1>3, <1>4, <1>5, <1>6 DEF IInv
-----------------------------------------------------------------------------
(* The transition of a record.                                             *)

\* Operators do not touch the agents; a record may be replaced, never lost.
LEMMA AgentsStay ==
  ASSUME IInv, UNCHANGED <<layers, policy, registrar, caps, served, limits>>,
         \A k \in Agents \X Versions: records[k] # 0 => records'[k] # 0
  PROVE  Registering' /\ Serving' /\ Recorded' /\ Noted' /\ Kept' /\ Governed'
<1>1. Registering' /\ Serving'
  BY AgentsMade
<1>2. Recorded'
  <2>1. ASSUME registrar.stage = "recorded"
        PROVE  records'[<<registrar.agent, registrar.version>>] # 0
    <3>1. registrar.agent \in Agents /\ registrar.version \in Versions
      BY <2>1 DEF IInv, Registering
    <3>2. records[<<registrar.agent, registrar.version>>] # 0
      BY <2>1 DEF IInv, Recorded
    <3> QED BY <3>1, <3>2
  <2>2. ASSUME NEW a \in Agents, OfApp(a)
        PROVE  records'[<<a, served[a].version>>] # 0
    <3>1. served[a].version \in Versions
      BY <2>2, ServedVersion DEF OfApp
    <3>2. records[<<a, served[a].version>>] # 0
      BY <2>2 DEF IInv, Recorded
    <3> QED BY <3>1, <3>2
  <2> QED BY <2>1, <2>2 DEF Recorded, OfApp
<1>3. Noted' /\ Kept'
  BY ZenonT(60) DEF IInv, Noted, Kept, OfApp
<1>4. Governed'
  BY GovernedStays DEF IInv
<1> QED BY <1>1, <1>2, <1>3, <1>4

LEMMA CheckIInv ==
  ASSUME IInv, NEW o \in Operators, NEW k \in Agents \X Versions, NEW to \in Lifecycle,
         TransitionCheck(o, k, to)
  PROVE  IInv'
<1> DEFINE next == [stage |-> "checked", object |-> records[k], to |-> to]
<1>1. /\ operator' = [operator EXCEPT ![o] = next]
      /\ UNCHANGED <<layers, policy, registrar, objects, records, caps, served, limits>>
      /\ operator[o].stage = "idle" /\ records[k] # 0
      /\ CanTransition(objects[records[k]].status, to)
  BY DEF TransitionCheck, OperatorTo
<1>2. Types
  BY DEF IInv
<1>3. records[k] \in 1..Len(objects)
  BY <1>1, <1>2 DEF Types
<1>4. next \in OperatorStates
  BY <1>3 DEF OperatorStates
<1>5. /\ operator'[o] = next
      /\ \A p \in Operators \ {o}: operator'[p] = operator[p]
  BY <1>1, <1>2 DEF Types
<1>6. Types'
  <2>1. OperatorStates' = OperatorStates
    BY <1>1 DEF OperatorStates
  <2>2. operator' \in [Operators -> OperatorStates]
    BY <1>1, <1>2, <1>4, Zenon DEF Types
  <2> QED BY <1>1, <1>2, <2>1, <2>2 DEF Types
<1>7. \A i: IsApproved(i)' <=> IsApproved(i)
  <2>1. next.stage # "dating" /\ operator[o].stage # "dating"
    BY <1>1
  <2> QED BY <1>1, <1>5, <2>1 DEF IsApproved
<1>8. ApprovedFirst'
  BY <1>1, <1>7 DEF IInv, ApprovedFirst
<1>9. Cleared'
  <2>1. to \in Beyond => objects[records[k]].status \in Beyond \cup {"APPROVED"}
    <3>1. objects[records[k]] \in AgentRecord
      BY <1>2, <1>3 DEF Types
    <3>2. objects[records[k]].status \in Lifecycle
      BY <3>1 DEF AgentRecord
    <3> QED BY <1>1, <3>2 DEF CanTransition, Beyond, Lifecycle
  <2>2. to \in Beyond => IsApproved(records[k])
    BY <1>3, <2>1 DEF IInv, ApprovedFirst
  <2> QED BY <1>5, <1>7, <2>2 DEF IInv, Cleared
<1>10. Registering' /\ Serving' /\ Recorded' /\ Noted' /\ Kept' /\ Governed'
  BY <1>1, AgentsStay
<1> QED BY <1>6, <1>8, <1>9, <1>10 DEF IInv

\* What an operator works on.
LEMMA Working ==
  ASSUME Types, NEW o \in Operators, operator[o].stage # "idle"
  PROVE  /\ operator[o].object \in 1..Len(objects) /\ operator[o].to \in Lifecycle
         /\ operator[o] = [stage |-> operator[o].stage, object |-> operator[o].object,
                           to |-> operator[o].to]
         /\ objects[operator[o].object] \in AgentRecord
<1>1. operator[o] \in [stage: {"checked", "dating", "saving"}, object: 1..Len(objects), to: Lifecycle]
  BY DEF Types, OperatorStates
<1>2. objects \in Seq(AgentRecord)
  BY DEF Types
<1> HIDE DEF AgentRecord, Lifecycle
<1> QED BY <1>1, <1>2

\* What an operator has found approved stays so, if that is not undone.
LEMMA ClearedStays ==
  ASSUME Types, Cleared,
         \A j \in 1..Len(objects): IsApproved(j) => IsApproved(j)',
         \A p \in Operators: operator'[p].stage = "checked" => operator'[p] = operator[p]
  PROVE  Cleared'
<1>1. ASSUME NEW p \in Operators, operator'[p].stage = "checked", operator'[p].to \in Beyond,
             NEW j, j = operator'[p].object
      PROVE  IsApproved(j)'
  <2>1. operator'[p] = operator[p]
    BY <1>1
  <2>2. j \in 1..Len(objects)
    BY <1>1, <2>1, Working
  <2>3. IsApproved(j)
    BY <1>1, <2>1 DEF Cleared
  <2> QED BY <2>2, <2>3
<1> QED BY <1>1 DEF Cleared, IsApproved

LEMMA WriteIInv ==
  ASSUME IInv, NEW o \in Operators, TransitionWrite(o)
  PROVE  IInv'
<1> DEFINE op == operator[o]
           stage == IF op.to = "APPROVED" THEN "dating" ELSE "saving"
           next == [op EXCEPT !.stage = stage]
<1>1. /\ objects' = [objects EXCEPT ![op.object].status = op.to]
      /\ operator' = [operator EXCEPT ![o] = next]
      /\ UNCHANGED <<layers, policy, registrar, records, caps, served, limits>>
      /\ op.stage = "checked"
  BY DEF TransitionWrite, OperatorTo
<1>2. Types
  BY DEF IInv
<1>3. /\ op.object \in 1..Len(objects) /\ op.to \in Lifecycle
      /\ op = [stage |-> op.stage, object |-> op.object, to |-> op.to]
      /\ objects[op.object] \in AgentRecord
  BY <1>1, <1>2, Working
<1>4. PICK i \in 1..Len(objects): i = op.object
  BY <1>3
<1>5. next = [stage |-> stage, object |-> i, to |-> op.to]
  BY <1>3, <1>4
<1>6. /\ operator'[o] = next
      /\ \A p \in Operators \ {o}: operator'[p] = operator[p]
  BY <1>1, <1>2 DEF Types
<1>7. /\ objects' \in Seq(AgentRecord) /\ Len(objects') = Len(objects)
      /\ objects'[i].status = op.to /\ objects'[i].approved = objects[i].approved
      /\ \A j \in 1..Len(objects): j # i => objects'[j] = objects[j]
  <2> DEFINE new == [objects[i] EXCEPT !.status = op.to]
  <2>1. new \in AgentRecord /\ new.status = op.to /\ new.approved = objects[i].approved
    BY <1>3, <1>4 DEF AgentRecord
  <2>2. objects' = [objects EXCEPT ![i] = new]
    BY <1>1, <1>4
  <2> HIDE DEF new, AgentRecord
  <2>3. objects \in Seq(AgentRecord)
    BY <1>2 DEF Types
  <2>4. objects' \in Seq(AgentRecord) /\ Len(objects') = Len(objects)
    BY <2>1, <2>2, <2>3
  <2>5. objects'[i] = new /\ \A j \in 1..Len(objects): j # i => objects'[j] = objects[j]
    BY <2>2, <2>3
  <2> QED BY <2>1, <2>4, <2>5
<1>8. Types'
  <2>1. OperatorStates' = OperatorStates
    BY <1>7 DEF OperatorStates
  <2>2. next \in OperatorStates
    BY <1>3, <1>4, <1>5 DEF OperatorStates
  <2>3. operator' \in [Operators -> OperatorStates]
    BY <1>1, <1>2, <2>2, Zenon DEF Types
  <2> QED BY <1>1, <1>2, <1>7, <2>1, <2>3 DEF Types
<1>9. \A j \in 1..Len(objects): IsApproved(j) => IsApproved(j)'
  <2> SUFFICES ASSUME NEW j \in 1..Len(objects), IsApproved(j)
               PROVE  IsApproved(j)'
    OBVIOUS
  <2>1. objects'[j].approved = objects[j].approved
    BY <1>7
  <2>2. ASSUME NEW p \in Operators, operator[p].stage = "dating"
        PROVE  operator'[p] = operator[p]
    BY <1>1, <1>6, <2>2
  <2> QED BY <2>1, <2>2 DEF IsApproved
<1>10. op.to \in Beyond \cup {"APPROVED"} => IsApproved(i)'
  <2>1. CASE op.to = "APPROVED"
    <3>1. next.stage = "dating" /\ next.object = i
      BY <1>5, <2>1
    <3> QED BY <1>6, <3>1 DEF IsApproved
  <2>2. CASE op.to \in Beyond
    BY <1>1, <1>4, <1>9, <2>2 DEF IInv, Cleared
  <2> QED BY <2>1, <2>2
<1>11. ApprovedFirst'
  BY <1>7, <1>9, <1>10 DEF IInv, ApprovedFirst
<1>12. Cleared'
  <2>1. \A p \in Operators: operator'[p].stage = "checked" => operator'[p] = operator[p]
    BY <1>5, <1>6
  <2> QED BY <1>2, <1>9, <2>1, ClearedStays DEF IInv
<1>13. Registering' /\ Serving' /\ Recorded' /\ Noted' /\ Kept' /\ Governed'
  BY <1>1, AgentsStay
<1> QED BY <1>8, <1>11, <1>12, <1>13 DEF IInv

LEMMA DateIInv ==
  ASSUME IInv, NEW o \in Operators, TransitionDate(o)
  PROVE  IInv'
<1> DEFINE op == operator[o]
           next == [op EXCEPT !.stage = "saving"]
<1>1. /\ objects' = [objects EXCEPT ![op.object].approved = TRUE]
      /\ operator' = [operator EXCEPT ![o] = next]
      /\ UNCHANGED <<layers, policy, registrar, records, caps, served, limits>>
      /\ op.stage = "dating"
  BY DEF TransitionDate, OperatorTo
<1>2. Types
  BY DEF IInv
<1>3. /\ op.object \in 1..Len(objects) /\ op.to \in Lifecycle
      /\ op = [stage |-> op.stage, object |-> op.object, to |-> op.to]
      /\ objects[op.object] \in AgentRecord
  BY <1>1, <1>2, Working
<1>4. PICK i \in 1..Len(objects): i = op.object
  BY <1>3
<1>5. next = [stage |-> "saving", object |-> i, to |-> op.to]
  BY <1>3, <1>4
<1>6. /\ operator'[o] = next
      /\ \A p \in Operators \ {o}: operator'[p] = operator[p]
  BY <1>1, <1>2 DEF Types
<1>7. /\ objects' \in Seq(AgentRecord) /\ Len(objects') = Len(objects)
      /\ objects'[i].status = objects[i].status /\ objects'[i].approved
      /\ \A j \in 1..Len(objects): j # i => objects'[j] = objects[j]
  <2> DEFINE new == [objects[i] EXCEPT !.approved = TRUE]
  <2>1. new \in AgentRecord /\ new.status = objects[i].status /\ new.approved
    BY <1>3, <1>4 DEF AgentRecord
  <2>2. objects' = [objects EXCEPT ![i] = new]
    BY <1>1, <1>4
  <2> HIDE DEF new, AgentRecord
  <2>3. objects \in Seq(AgentRecord)
    BY <1>2 DEF Types
  <2>4. objects' \in Seq(AgentRecord) /\ Len(objects') = Len(objects)
    BY <2>1, <2>2, <2>3
  <2>5. objects'[i] = new /\ \A j \in 1..Len(objects): j # i => objects'[j] = objects[j]
    BY <2>2, <2>3
  <2> QED BY <2>1, <2>4, <2>5
<1>8. Types'
  <2>1. OperatorStates' = OperatorStates
    BY <1>7 DEF OperatorStates
  <2>2. next \in OperatorStates
    BY <1>3, <1>4, <1>5 DEF OperatorStates
  <2>3. operator' \in [Operators -> OperatorStates]
    BY <1>1, <1>2, <2>2, Zenon DEF Types
  <2> QED BY <1>1, <1>2, <1>7, <2>1, <2>3 DEF Types
<1>9. \A j \in 1..Len(objects): IsApproved(j) => IsApproved(j)'
  <2> SUFFICES ASSUME NEW j \in 1..Len(objects), IsApproved(j)
               PROVE  IsApproved(j)'
    OBVIOUS
  <2>1. CASE j = i
    BY <1>7, <2>1 DEF IsApproved
  <2>2. CASE j # i
    <3>1. objects'[j].approved = objects[j].approved
      BY <1>7, <2>2
    <3>2. ASSUME NEW p \in Operators, operator[p].object = j
          PROVE  operator'[p] = operator[p]
      BY <1>4, <1>6, <2>2, <3>2
    <3> QED BY <3>1, <3>2 DEF IsApproved
  <2> QED BY <2>1, <2>2
<1>10. ApprovedFirst'
  BY <1>7, <1>9 DEF IInv, ApprovedFirst
<1>11. Cleared'
  <2>1. \A p \in Operators: operator'[p].stage = "checked" => operator'[p] = operator[p]
    BY <1>5, <1>6
  <2> QED BY <1>2, <1>9, <2>1, ClearedStays DEF IInv
<1>12. Registering' /\ Serving' /\ Recorded' /\ Noted' /\ Kept' /\ Governed'
  BY <1>1, AgentsStay
<1> QED BY <1>8, <1>10, <1>11, <1>12 DEF IInv

LEMMA SaveIInv ==
  ASSUME IInv, NEW o \in Operators, TransitionSave(o)
  PROVE  IInv'
<1> DEFINE op == operator[o]
           k == <<objects[op.object].agent, objects[op.object].version>>
           next == [stage |-> "idle"]
<1>1. /\ records' = [records EXCEPT ![k] = op.object]
      /\ operator' = [operator EXCEPT ![o] = next]
      /\ UNCHANGED <<layers, policy, registrar, objects, caps, served, limits>>
      /\ op.stage = "saving"
  BY DEF TransitionSave, OperatorTo, Save
<1>2. Types
  BY DEF IInv
<1>3. op.object \in 1..Len(objects) /\ objects[op.object] \in AgentRecord
  BY <1>1, <1>2, Working
<1>4. k \in Agents \X Versions
  BY <1>3 DEF AgentRecord
<1>5. /\ operator'[o] = next
      /\ \A p \in Operators \ {o}: operator'[p] = operator[p]
  BY <1>1, <1>2 DEF Types
<1> HIDE DEF k
<1>6. /\ records' \in [Agents \X Versions -> 0..Len(objects)]
      /\ \A l \in Agents \X Versions: records[l] # 0 => records'[l] # 0
  <2>1. PICK i: i = op.object
    OBVIOUS
  <2>2. i \in 0..Len(objects) /\ i # 0
    BY <1>3, <2>1
  <2>3. records \in [Agents \X Versions -> 0..Len(objects)] /\ records' = [records EXCEPT ![k] = i]
    BY <1>1, <1>2, <2>1 DEF Types
  <2> QED BY <2>2, <2>3
<1>7. Types'
  <2>1. OperatorStates' = OperatorStates
    BY <1>1 DEF OperatorStates
  <2>2. next \in OperatorStates
    BY DEF OperatorStates
  <2>3. operator' \in [Operators -> OperatorStates]
    BY <1>1, <1>2, <2>2, Zenon DEF Types
  <2> QED BY <1>1, <1>2, <1>6, <2>1, <2>3 DEF Types
<1>8. \A j: IsApproved(j)' <=> IsApproved(j)
  <2>1. next.stage # "dating" /\ operator[o].stage # "dating"
    BY <1>1
  <2> QED BY <1>1, <1>5, <2>1 DEF IsApproved
<1>9. ApprovedFirst' /\ Cleared'
  BY <1>1, <1>5, <1>8 DEF IInv, ApprovedFirst, Cleared
<1>10. Registering' /\ Serving' /\ Recorded' /\ Noted' /\ Kept' /\ Governed'
  BY <1>1, <1>6, AgentsStay
<1> QED BY <1>7, <1>9, <1>10 DEF IInv

-----------------------------------------------------------------------------
(* The theorems.                                                           *)

LEMMA NextIInv == IInv /\ [Next]_vars => IInv'
<1> SUFFICES ASSUME IInv, [Next]_vars PROVE IInv'
  OBVIOUS
<1>1. CASE Control
  <2>1. CASE RegisterNext
    BY <2>1, BeginIInv, DirectlyIInv DEF RegisterNext
  <2>2. CASE ~Connecting /\ Register
    BY <2>2, RecordIInv, ServeIInv, HttpAppIInv DEF Register
  <2>3. CASE Transition
    BY <2>3, CheckIInv, WriteIInv, DateIInv, SaveIInv DEF Transition
  <2> QED BY <1>1, <2>1, <2>2, <2>3 DEF Control
<1>2. CASE UNCHANGED controlVars
  BY <1>2, Untouched
<1> QED BY <1>1, <1>2 DEF Next, vars

LEMMA Inductive == Spec => []IInv
  BY InitIInv, NextIInv, PTL DEF Spec

\* What an agent is made with says of a setting.
LEMMA MadeWith ==
  ASSUME NEW given, NEW spec, NEW f \in PolicyFields
  PROVE  InitPolicy(given, spec)[f]
           = IF f \in DOMAIN given THEN given[f]
             ELSE IF given = None THEN SettingOf(spec, f) ELSE 0
<1>1. DOMAIN None = {}
  BY DEF None
<1>2. InitPolicy(given, spec)[f] = SettingOf(IF given # None THEN given ELSE spec, f)
  BY DEF InitPolicy
<1> HIDE DEF None, PolicyFields
<1> QED BY <1>1, <1>2 DEF SettingOf

LEMMA RegisteredWith ==
  ASSUME IInv, NEW a, NEW v, NEW own, NEW spec, NEW f \in PolicyFields
  PROVE  Create(a, v, own, spec).policy[f]
           = IF f \in DOMAIN own THEN own[f]
             ELSE IF PolicyStated THEN Stated(f)
             ELSE IF own = None THEN SettingOf(spec, f) ELSE 0
<1>1. DOMAIN None = {} /\ PolicyFields # {}
  BY DEF None, PolicyFields
<1>2. \A g: DOMAIN g = PolicyFields => g # None
  BY <1>1
<1>3. \A given: InitPolicy(given, spec)[f] = SettingOf(IF given # None THEN given ELSE spec, f)
  BY DEF InitPolicy
<1>4. /\ SettingOf(policy, f) = IF PolicyStated THEN Stated(f) ELSE 0
      /\ policy = None <=> ~PolicyStated
  BY <1>1, <1>2 DEF IInv, Governed, SettingOf
<1>5. /\ MergePolicy(policy, own) # None
      /\ SettingOf(MergePolicy(policy, own), f)
           = IF f \in DOMAIN own THEN own[f] ELSE SettingOf(policy, f)
  BY <1>2 DEF MergePolicy, SettingOf
<1>6. Create(a, v, own, spec).policy
        = InitPolicy(IF own = None THEN policy ELSE MergePolicy(policy, own), spec)
  BY DEF Create
<1> HIDE DEF PolicyFields, None
<1>7. CASE own = None
  BY <1>1, <1>3, <1>4, <1>6, <1>7
<1>8. CASE own # None
  BY <1>3, <1>4, <1>5, <1>6, <1>8
<1> QED BY <1>7, <1>8

\* Whatever the application serves has a record of its version, runs with the
\* policy of the place that goes first, and is kept to the cap it asked for; what
\* was handed to the server runs with what it was made with: for every number of
\* agents, versions and operators, and whatever mappings the files of the
\* configuration hold.
THEOREM ServedGoverned == Spec => []ServedAreGoverned
<1>1. IInv => ServedAreGoverned
  <2> SUFFICES ASSUME IInv, NEW a \in Agents, served[a].version # 0
               PROVE  /\ \A f \in PolicyFields:
                           served[a].policy[f]
                             = IF f \in DOMAIN served[a].own THEN served[a].own[f]
                               ELSE IF PolicyStated /\ ~served[a].direct THEN Stated(f)
                               ELSE IF served[a].own = None THEN SettingOf(served[a].spec, f)
                               ELSE 0
                      /\ ~served[a].direct => records[<<a, served[a].version>>] # 0
                      /\ (~served[a].direct /\ limits.made /\ served[a].early
                            /\ Capped(served[a].own))
                            => limits.agents[a] = served[a].own["concurrency"]
    BY DEF ServedAreGoverned, Capped
  <2>1. served[a] # NotServed
    BY DEF NotServed
  <2>2. ASSUME NEW f \in PolicyFields
        PROVE  served[a].policy[f]
                 = IF f \in DOMAIN served[a].own THEN served[a].own[f]
                   ELSE IF PolicyStated /\ ~served[a].direct THEN Stated(f)
                   ELSE IF served[a].own = None THEN SettingOf(served[a].spec, f) ELSE 0
    <3>1. CASE \E v \in Versions, own \in AgentConfig, spec \in SpecConfig, early \in BOOLEAN:
                 served[a] = Registered(a, v, own, spec, early)
      <4>1. PICK v \in Versions, own \in AgentConfig, spec \in SpecConfig, early \in BOOLEAN:
              served[a] = Registered(a, v, own, spec, early)
        BY <3>1
      <4>2. /\ served[a].own = own /\ served[a].spec = spec /\ ~served[a].direct
            /\ served[a].policy = Create(a, v, own, spec).policy
        BY <4>1 DEF Registered
      <4> QED BY <4>2, RegisteredWith
    <3>2. CASE \E v \in Versions, given \in AgentConfig \cup {policy}, spec \in SpecConfig,
                  early \in BOOLEAN:
                 served[a] = HandedOver(v, given, spec, early)
      <4>1. PICK v \in Versions, given \in AgentConfig \cup {policy}, spec \in SpecConfig,
                early \in BOOLEAN:
              served[a] = HandedOver(v, given, spec, early)
        BY <3>2
      <4>2. /\ served[a].own = given /\ served[a].spec = spec /\ served[a].direct
            /\ served[a].policy = InitPolicy(given, spec)
        BY <4>1 DEF HandedOver
      <4> QED BY <4>2, MadeWith
    <3> QED BY <2>1, <3>1, <3>2, Zenon DEF IInv, Serving
  <2> QED BY <2>2 DEF IInv, Recorded, Kept, OfApp
<1> QED BY <1>1, Inductive, PTL

\* Nothing gets into production, or beyond, that was never approved, however
\* many operators move its record and however often it is registered again.
THEOREM ProductionApproved == Spec => []ProductionWasApproved
<1>1. IInv => ProductionWasApproved
  <2> SUFFICES ASSUME IInv, NEW k \in Agents \X Versions, records[k] # 0,
                      objects[records[k]].status \in {"PRODUCTION", "DEPRECATED", "RETIRED"}
               PROVE  IsApproved(records[k])
    BY DEF ProductionWasApproved, IsApproved
  <2>1. records[k] \in 1..Len(objects)
    BY DEF IInv, Types
  <2> QED BY <2>1 DEF IInv, ApprovedFirst, Beyond
<1> QED BY <1>1, Inductive, PTL
=============================================================================
