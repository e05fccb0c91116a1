------------------------- MODULE ConversationProofs -------------------------
(***************************************************************************)
(* Proofs about a conversation under one guardrail and the context         *)
(* manager, for threads of any length, any keep_recent and any threshold:  *)
(*                                                                         *)
(*   Typed    every message of the thread is known by its place;           *)
(*   Handled  what was looked at and offends was let pass by a warning;    *)
(*   Viewed   a view shows the thread without what Old names (Tells);      *)
(*   Covered  what has been looked at in front of the agent node, which    *)
(*            rests on the tail of the thread being the tail of what the   *)
(*            node sees (TailIsShown);                                     *)
(*   Streamed what a stream has shown of the agent node, which rests on    *)
(*            what the gate makes of one item (FeedIs).                    *)
(***************************************************************************)
EXTENDS Conversation, GuardrailsProofs

-----------------------------------------------------------------------------
(* The inductive invariant.                                                *)

Roles == {"human", "system", "ai", "call", "tool"}

Messages ==
  [id: Nat, role: Roles, text: BOOLEAN, bad: BOOLEAN, important: BOOLEAN, led: BOOLEAN,
   met: BOOLEAN, of: SUBSET Nat]

Typed ==
  /\ places \in SUBSET Places
  /\ severity \in Severities
  /\ warnOnly \in BOOLEAN
  /\ keep \in Nat
  /\ summarizes \in BOOLEAN
  /\ stage \in {"idle", "agent", "model", "tools", "output"}
  /\ history \in Seq(Messages)
  /\ \A i \in DOMAIN history: history[i].id = i
  /\ looked \in SUBSET DOMAIN history
  /\ stage = "agent" => history # <<>>

Handled == OffencesAreHandled

\* A view, or the messages it is made of, leaves out old: it shows the others in
\* their order, and a summary of old if there is to be one.
Tells(seen, old) ==
  /\ seen \in Seq(Messages)
  /\ \A k \in DOMAIN seen: seen[k].id # 0 => seen[k].id \in DOMAIN history \ old
  /\ \A i \in DOMAIN history \ old: \E k \in DOMAIN seen: seen[k].id = i
  /\ \A k, l \in DOMAIN seen:
       (k < l /\ seen[k].id # 0 /\ seen[l].id # 0) => seen[k].id < seen[l].id
  /\ \A k \in DOMAIN seen: seen[k].id = 0 => seen[k].of = old
  /\ IF summarizes /\ old # {}
     THEN \E p \in DOMAIN seen: \A k \in DOMAIN seen: (seen[k].id = 0) <=> (k = p)
     ELSE \A k \in DOMAIN seen: seen[k].id # 0

\* What is shown is what is kept, and the summary has system messages only in
\* front of it.
Shows(seen, old) ==
  /\ Tells(seen, old)
  /\ \A k \in DOMAIN seen: seen[k].id # 0 => seen[k] = history[seen[k].id]
  /\ \A k \in DOMAIN seen:
       seen[k].id = 0 => \A j \in 1..k: seen[j].role = "system"

LeftOut(old) == old = {} \/ old = Old(history, keep)

Viewed == stage = "model" => \E old: LeftOut(old) /\ Tells(view, old)

\* What AskedWasLookedAt asks of one message.
IsCovered(i) ==
  \/ i \in looked
  \/ history[i].role \notin {"human", "tool"}
  \/ history[i].led
  \/ \E j \in looked: SameCall(j, i) /\ history[j].bad

\* In front of the agent node, all but the tail; elsewhere, everything.
Covered ==
  ("before" \in places /\ keep # 0) =>
    \A i \in DOMAIN history: (stage = "agent" => i < TailStart(history)) => IsCovered(i)

-----------------------------------------------------------------------------
(* Messages.                                                               *)

\* A summary is a system message without a place in the thread.
LEMMA SummaryTyped ==
  ASSUME NEW old \in SUBSET Nat
  PROVE  /\ Summary(old) \in Messages
         /\ Summary(old).id = 0 /\ Summary(old).role = "system" /\ Summary(old).of = old
BY DEF Summary, Message, Messages, Roles

\* A message that is masked stays the message it was, and offends no longer.
LEMMA MaskTyped ==
  ASSUME NEW m \in Messages
  PROVE  /\ [m EXCEPT !.bad = FALSE] \in Messages
         /\ ~[m EXCEPT !.bad = FALSE].bad
         /\ [m EXCEPT !.bad = FALSE].id = m.id
         /\ [m EXCEPT !.bad = FALSE].role = m.role
         /\ [m EXCEPT !.bad = FALSE].text = m.text
         /\ [m EXCEPT !.bad = FALSE].led = m.led
         /\ [m EXCEPT !.bad = FALSE].of = m.of
BY DEF Messages

\* A message that is marked as looked at stays the message it was.
LEMMA MarkTyped ==
  ASSUME NEW m \in Messages, NEW met \in BOOLEAN
  PROVE  /\ [m EXCEPT !.met = met] \in Messages
         /\ [m EXCEPT !.met = met].id = m.id
         /\ [m EXCEPT !.met = met].role = m.role
         /\ [m EXCEPT !.met = met].text = m.text
         /\ [m EXCEPT !.met = met].led = m.led
         /\ [m EXCEPT !.met = met].bad = m.bad
         /\ [m EXCEPT !.met = met].met = met
BY DEF Messages

\* What a guardrail makes of an offence; only a warning lets it pass.
LEMMA EffectiveIs ==
  ASSUME NEW s, NEW w \in BOOLEAN
  PROVE  /\ Effective(s, w) \in {"mask", "warn", "block"}
         /\ Effective(s, w) = "warn" => s # "mask" /\ (w \/ s = "warn")
BY DEF Effective, WarnOnly

-----------------------------------------------------------------------------
(* A pipeline.                                                             *)

\* What comes out of a pipeline are the messages that went into it, masked
\* perhaps; what was looked at, let pass and offends, was let pass by a warning;
\* and the tail is looked at up to the message that blocks.
LEMMA GuardedProperties ==
  ASSUME NEW messages \in Seq(Messages), Typed, NEW place,
         NEW g, g = Guarded(messages, place)
  PROVE  /\ g.value \in Seq(Messages) /\ Len(g.value) = Len(messages)
         /\ \A i \in 1..Len(messages):
              /\ g.value[i].id = messages[i].id /\ g.value[i].role = messages[i].role
              /\ g.value[i].text = messages[i].text
              /\ g.value[i].led = messages[i].led /\ g.value[i].of = messages[i].of
         /\ g.looked \in SUBSET (1..Len(messages))
         /\ \A i \in g.looked: (~g.blocked /\ g.value[i].bad) => Effective(severity, warnOnly) = "warn"
         /\ (messages # <<>> /\ place \in places) =>
              \A i \in TailStart(messages)..Len(messages):
                i \in g.looked \/ \E j \in g.looked: /\ TailStart(messages) <= j /\ j < i
                                                     /\ messages[j].bad
<1>1. DOMAIN messages = 1..Len(messages) /\ Len(messages) \in Nat
      /\ \A i \in 1..Len(messages): messages[i] \in Messages
  BY LenProperties, ElementOfSeq
<1>2. CASE place \notin places
  <2>1. g = [blocked |-> FALSE, looked |-> {}, value |-> messages]
    BY <1>2, Zenon DEF Guarded
  <2>2. ~g.blocked /\ g.looked = {} /\ g.value = messages
    BY <2>1
  <2> QED BY <1>2, <2>2
<1>3. CASE place \in places
  <2> DEFINE effective == Effective(severity, warnOnly)
  <2>1. g = Enforce(messages, effective)
    BY <1>3, Zenon DEF Guarded
  <2>2. effective \in {"mask", "warn", "block"}
    BY EffectiveIs DEF Typed
  <2> HIDE DEF effective
  <2>3. \A m \in Messages: ~[m EXCEPT !.bad = FALSE].bad
    BY MaskTyped
  <2>5. /\ DOMAIN g.value = DOMAIN messages
        /\ \A i \in DOMAIN messages:
             g.value[i] = messages[i] \/ g.value[i] = [messages[i] EXCEPT !.bad = FALSE]
        /\ g.looked \in SUBSET DOMAIN messages
        /\ \A i \in g.looked: (~g.blocked /\ g.value[i].bad) => effective = "warn"
        /\ messages # <<>> =>
             \A i \in TailStart(messages)..Len(messages):
               i \in g.looked \/ \E j \in g.looked: /\ TailStart(messages) <= j /\ j < i
                                                    /\ messages[j].bad
    BY <2>1, <2>2, <2>3, EnforceProperties
  <2>6. ASSUME NEW i \in 1..Len(messages)
        PROVE  /\ g.value[i] \in Messages
               /\ g.value[i].id = messages[i].id /\ g.value[i].role = messages[i].role
               /\ g.value[i].text = messages[i].text
               /\ g.value[i].led = messages[i].led /\ g.value[i].of = messages[i].of
    <3>1. messages[i] \in Messages /\ i \in DOMAIN messages
      BY <1>1
    <3>2. CASE g.value[i] = messages[i]
      BY <3>1, <3>2
    <3>3. CASE g.value[i] = [messages[i] EXCEPT !.bad = FALSE]
      BY <3>1, <3>3, MaskTyped, Zenon
    <3> QED BY <2>5, <3>1, <3>2, <3>3
  <2>7. g.value \in Seq(Messages) /\ Len(g.value) = Len(messages)
    <3>1. g.value = [i \in DOMAIN g.value |-> g.value[i]]
      <4>1. g.value = [i \in DOMAIN messages |->
                         IF i \in (IF messages = <<>> THEN {} ELSE TailStart(messages)..Len(messages))
                         THEN CheckLeaf(messages[i], effective) ELSE messages[i]]
        BY <2>1 DEF Enforce
      <4> QED BY <4>1, Zenon
    <3>2. g.value \in [1..Len(messages) -> Messages]
      BY <1>1, <2>5, <2>6, <3>1
    <3> QED BY <1>1, <3>2, SeqDef, LenProperties
  <2> QED BY <1>1, <2>5, <2>6, <2>7 DEF effective
<1> QED BY <1>2, <1>3

\* What is added to the history.
LEMMA KeptProperties ==
  ASSUME NEW messages \in Seq(Messages), Typed, NEW place,
         NEW g, g = Guarded(messages, place), ~g.blocked
  PROVE  /\ Kept(g) \in Seq(Messages) /\ Len(Kept(g)) = Len(messages)
         /\ \A i \in 1..Len(messages):
              /\ Kept(g)[i].id = messages[i].id /\ Kept(g)[i].role = messages[i].role
              /\ Kept(g)[i].text = messages[i].text
              /\ Kept(g)[i].led = messages[i].led
              /\ (Kept(g)[i].bad /\ Kept(g)[i].met) =>
                   severity # "mask" /\ (warnOnly \/ severity = "warn")
<1>1. /\ g.value \in Seq(Messages) /\ Len(g.value) = Len(messages)
      /\ \A i \in 1..Len(messages):
           /\ g.value[i].id = messages[i].id /\ g.value[i].role = messages[i].role
           /\ g.value[i].text = messages[i].text
           /\ g.value[i].led = messages[i].led
      /\ \A i \in g.looked: g.value[i].bad => Effective(severity, warnOnly) = "warn"
  BY GuardedProperties
<1>2. DOMAIN g.value = 1..Len(messages) /\ Len(messages) \in Nat
      /\ \A i \in 1..Len(messages): g.value[i] \in Messages
  BY <1>1, LenProperties, ElementOfSeq
<1>3. Kept(g) = [i \in 1..Len(messages) |-> [g.value[i] EXCEPT !.met = i \in g.looked]]
  BY <1>2, Zenon DEF Kept
<1>4. ASSUME NEW i \in 1..Len(messages)
      PROVE  /\ Kept(g)[i] \in Messages
             /\ Kept(g)[i].id = messages[i].id /\ Kept(g)[i].role = messages[i].role
             /\ Kept(g)[i].text = messages[i].text
             /\ Kept(g)[i].led = messages[i].led
             /\ (Kept(g)[i].bad /\ Kept(g)[i].met) =>
                  severity # "mask" /\ (warnOnly \/ severity = "warn")
  <2> DEFINE met == i \in g.looked
  <2>1. Kept(g)[i] = [g.value[i] EXCEPT !.met = met]
    BY <1>3, Zenon
  <2>2. g.value[i] \in Messages /\ met \in BOOLEAN
    BY <1>2
  <2>3. met /\ g.value[i].bad => severity # "mask" /\ (warnOnly \/ severity = "warn")
    <3>1. warnOnly \in BOOLEAN
      BY DEF Typed
    <3> QED BY <1>1, <3>1, EffectiveIs
  <2> HIDE DEF met
  <2> DEFINE k == [g.value[i] EXCEPT !.met = met]
  <2>4. /\ k \in Messages /\ k.id = g.value[i].id /\ k.role = g.value[i].role
        /\ k.text = g.value[i].text
        /\ k.led = g.value[i].led /\ k.bad = g.value[i].bad /\ k.met = met
    BY <2>2, MarkTyped, ZenonT(60)
  <2> HIDE DEF k
  <2>5. Kept(g)[i] = k
    BY <2>1 DEF k
  <2> QED BY <1>1, <2>3, <2>4, <2>5
<1>5. Kept(g) \in [1..Len(messages) -> Messages]
  BY <1>3, <1>4, Zenon
<1>6. Kept(g) \in Seq(Messages) /\ Len(Kept(g)) = Len(messages)
  BY <1>2, <1>5, SeqDef, LenProperties
<1> QED BY <1>4, <1>6

-----------------------------------------------------------------------------
(* What a view leaves out and what it shows.                               *)

\* What is left out, as far as the properties of views ask for it.
LEMMA LeftOutIs ==
  ASSUME Typed, NEW old, LeftOut(old)
  PROVE  LeavesOutOldest(history, Plain(history), old, keep)
<1>1. CASE old = {}
  <2>1. Plain(history) \in SUBSET DOMAIN history
    BY DEF Plain
  <2> QED BY <1>1, <2>1 DEF LeavesOutOldest
<1>2. CASE old = Old(history, keep)
  <2>1. history \in Seq(Messages) /\ keep \in Nat
    BY DEF Typed
  <2> QED BY <1>2, <2>1, OldProperties, Zenon
<1> QED BY <1>1, <1>2 DEF LeftOut

\* A message of the thread has a place, and that is what it is known by.
LEMMA PlacesAreNumbers ==
  ASSUME Typed
  PROVE  /\ Len(history) \in Nat /\ DOMAIN history = 1..Len(history)
         /\ \A i \in 1..Len(history): history[i] \in Messages /\ history[i].id = i
BY LenProperties, ElementOfSeq DEF Typed

\* The messages that stay.
LEMMA RestShows ==
  ASSUME Typed, NEW old, LeftOut(old), NEW rest, rest = Rest(history, old)
  PROVE  /\ rest \in Seq(Messages)
         /\ \A k \in DOMAIN rest: /\ rest[k].id \in DOMAIN history \ old
                                  /\ rest[k] = history[rest[k].id]
         /\ \A i \in DOMAIN history \ old: \E k \in DOMAIN rest: rest[k].id = i
         /\ \A k, l \in DOMAIN rest: k < l => rest[k].id < rest[l].id
<1> DEFINE shown == DOMAIN history \ old
           n == Cardinality(shown)
<1>1. rest = At(history, shown) /\ shown \in SUBSET DOMAIN history /\ history \in Seq(Messages)
  BY DEF Rest, Typed
<1>2. \A i \in shown: history[i].id = i
  BY DEF Typed
<1> HIDE DEF shown
<1>3. /\ n \in Nat /\ rest \in Seq(Messages) /\ Len(rest) = n
      /\ \A k \in 1..n: Nth(shown, k) \in shown /\ rest[k] = history[Nth(shown, k)]
      /\ \A k, l \in 1..n: k < l => Nth(shown, k) < Nth(shown, l)
      /\ \A i \in shown: \E k \in 1..n: Nth(shown, k) = i
  BY <1>1, AtProperties
<1>4. DOMAIN rest = 1..n
  BY <1>3, LenProperties
<1> HIDE DEF n
<1>5. \A k \in 1..n: rest[k].id = Nth(shown, k) /\ rest[k] = history[rest[k].id]
  BY <1>2, <1>3
<1>6. \A k \in DOMAIN rest: rest[k].id \in shown /\ rest[k] = history[rest[k].id]
  BY <1>3, <1>4, <1>5
<1>7. \A i \in shown: \E k \in DOMAIN rest: rest[k].id = i
  BY <1>3, <1>4, <1>5
<1>8. \A k, l \in DOMAIN rest: k < l => rest[k].id < rest[l].id
  BY <1>3, <1>4, <1>5
<1> QED BY <1>3, <1>6, <1>7, <1>8 DEF shown

\* What the agent node's before pipeline gets.
LEMMA SeenShows ==
  ASSUME Typed, NEW old, LeftOut(old),
         NEW seen,
         seen = IF old = {} THEN history
                ELSE IF summarizes THEN WithSummary(Rest(history, old), Summary(old))
                ELSE Rest(history, old)
  PROVE  Shows(seen, old)
<1>1. /\ Len(history) \in Nat /\ DOMAIN history = 1..Len(history)
      /\ \A i \in 1..Len(history): history[i] \in Messages /\ history[i].id = i
  BY PlacesAreNumbers
<1>2. old \in SUBSET DOMAIN history
  BY LeftOutIs DEF LeavesOutOldest
<1> DEFINE rest == Rest(history, old)
<1>3. /\ rest \in Seq(Messages)
      /\ \A k \in DOMAIN rest: rest[k].id \in DOMAIN history \ old /\ rest[k] = history[rest[k].id]
      /\ \A i \in DOMAIN history \ old: \E k \in DOMAIN rest: rest[k].id = i
      /\ \A k, l \in DOMAIN rest: k < l => rest[k].id < rest[l].id
  BY RestShows
<1> HIDE DEF rest
<1>4. CASE old = {}
  <2>1. seen = history /\ history \in Seq(Messages)
    BY <1>4 DEF Typed
  <2>2. \A k \in DOMAIN seen: seen[k].id = k /\ k # 0 /\ k \in Nat
    BY <1>1, <2>1
  <2>3. Tells(seen, old)
    <3>1. \A k \in DOMAIN seen: seen[k].id \in DOMAIN history \ old
      BY <1>4, <2>1, <2>2
    <3>2. \A i \in DOMAIN history \ old: \E k \in DOMAIN seen: seen[k].id = i
      BY <2>1, <2>2
    <3>3. \A k, l \in DOMAIN seen: k < l => seen[k].id < seen[l].id
      BY <2>2
    <3> QED BY <1>4, <2>1, <2>2, <3>1, <3>2, <3>3 DEF Tells
  <2> QED BY <2>1, <2>2, <2>3 DEF Shows
<1>5. CASE old # {} /\ ~summarizes
  <2>1. seen = rest
    BY <1>5 DEF rest
  <2>2. \A k \in DOMAIN rest: rest[k].id # 0
    BY <1>1, <1>3
  <2>3. Tells(seen, old)
    BY <1>3, <1>5, <2>1, <2>2 DEF Tells
  <2> QED BY <1>3, <2>1, <2>2, <2>3 DEF Shows
<1>6. CASE old # {} /\ summarizes
  <2> DEFINE summary == Summary(old)
             n == Len(rest)
  <2>1. seen = WithSummary(rest, summary)
    BY <1>6 DEF rest
  <2>2. summary \in Messages /\ summary.id = 0 /\ summary.role = "system" /\ summary.of = old
    <3>1. old \in SUBSET Nat
      BY <1>1, <1>2
    <3> QED BY <3>1, SummaryTyped
  <2> HIDE DEF summary
  <2>3. /\ seen \in Seq(Messages) /\ Len(seen) = n + 1
        /\ \E p \in 1..n + 1:
             /\ \A k \in 1..p - 1: seen[k] = rest[k] /\ rest[k].role = "system"
             /\ seen[p] = summary
             /\ \A k \in p + 1..n + 1: seen[k] = rest[k - 1]
    <3>1. seen \in Seq(Messages) /\ IsPutInto(summary, rest, seen)
      <4>1. rest \in Seq(Messages) /\ summary \in Messages
        BY <1>3, <2>2
      <4>2. /\ WithSummary(rest, summary) \in Seq(Messages)
            /\ IsPutInto(summary, rest, WithSummary(rest, summary))
        BY <4>1, WithSummaryProperties
      <4> QED BY <2>1, <4>2, Zenon
    <3> QED BY <3>1 DEF IsPutInto
  <2>4. DOMAIN rest = 1..n /\ n \in Nat /\ DOMAIN seen = 1..n + 1
    BY <1>3, <2>3, LenProperties
  <2> HIDE DEF n
  <2>5. PICK p \in 1..n + 1:
          /\ \A k \in 1..p - 1: seen[k] = rest[k] /\ rest[k].role = "system"
          /\ seen[p] = summary
          /\ \A k \in p + 1..n + 1: seen[k] = rest[k - 1]
    BY <2>3
  <2> DEFINE from(k) == IF k < p THEN k ELSE k - 1
  <2>6. ASSUME NEW k \in DOMAIN seen, k # p
        PROVE  from(k) \in DOMAIN rest /\ seen[k] = rest[from(k)]
    <3>1. CASE k < p
      <4>1. k \in 1..p - 1 /\ k \in 1..n
        BY <2>4, <3>1
      <4> QED BY <2>4, <2>5, <3>1, <4>1, SMTT(40)
    <3>2. CASE p < k
      <4>1. k \in p + 1..n + 1 /\ k - 1 \in 1..n /\ ~(k < p)
        BY <2>4, <3>2
      <4> QED BY <2>4, <2>5, <4>1
    <3> QED BY <2>4, <2>6, <3>1, <3>2
  <2>7. ASSUME NEW k \in DOMAIN seen, k # p
        PROVE  /\ seen[k].id \in DOMAIN history \ old /\ seen[k].id # 0
               /\ seen[k] = history[seen[k].id]
    BY <1>1, <1>3, <2>6, <2>7
  <2>8. seen[p].id = 0 /\ p \in DOMAIN seen
    BY <2>2, <2>4, <2>5
  <2>9. ASSUME NEW i \in DOMAIN history \ old PROVE \E k \in DOMAIN seen: seen[k].id = i
    <3>1. PICK l \in DOMAIN rest: rest[l].id = i
      BY <1>3
    <3>2. CASE l < p
      <4>1. l \in 1..p - 1 /\ l \in 1..n + 1
        BY <2>4, <3>2
      <4> QED BY <2>4, <2>5, <3>1, <4>1, SMTT(40)
    <3>3. CASE ~(l < p)
      <4>1. l + 1 \in p + 1..n + 1 /\ l + 1 \in 1..n + 1 /\ (l + 1) - 1 = l
        BY <2>4, <3>3
      <4> QED BY <2>4, <2>5, <3>1, <4>1, SMTT(40)
    <3> QED BY <3>2, <3>3
  <2>10. ASSUME NEW k \in DOMAIN seen, NEW l \in DOMAIN seen, k < l, k # p, l # p
         PROVE  seen[k].id < seen[l].id
    <3>1. from(k) < from(l)
      BY <2>4, <2>10
    <3> HIDE DEF from
    <3>2. from(k) \in DOMAIN rest /\ from(l) \in DOMAIN rest
          /\ seen[k] = rest[from(k)] /\ seen[l] = rest[from(l)]
      BY <2>6, <2>10
    <3> QED BY <1>3, <3>1, <3>2
  <2> HIDE DEF from
  <2>11. \A k \in DOMAIN seen: (seen[k].id = 0) <=> (k = p)
    BY <2>7, <2>8
  <2>12. Tells(seen, old)
    <3>1. \A k \in DOMAIN seen: seen[k].id # 0 => seen[k].id \in DOMAIN history \ old
      BY <2>7, <2>11
    <3>2. \A k, l \in DOMAIN seen:
            (k < l /\ seen[k].id # 0 /\ seen[l].id # 0) => seen[k].id < seen[l].id
      BY <2>10, <2>11
    <3>3. \A k \in DOMAIN seen: seen[k].id = 0 => seen[k].of = old
      BY <2>2, <2>5, <2>11
    <3>4. \E q \in DOMAIN seen: \A k \in DOMAIN seen: (seen[k].id = 0) <=> (k = q)
      BY <2>8, <2>11, Zenon
    <3> QED BY <1>6, <2>3, <2>9, <3>1, <3>2, <3>3, <3>4 DEF Tells
  <2>13. ASSUME NEW k \in DOMAIN seen, seen[k].id = 0, NEW j \in 1..k
         PROVE  seen[j].role = "system"
    <3>1. k = p
      BY <2>11, <2>13
    <3>2. j = p \/ j \in 1..p - 1
      BY <3>1
    <3> QED BY <2>2, <2>5, <3>2
  <2>14. \A k \in DOMAIN seen: seen[k].id # 0 => seen[k] = history[seen[k].id]
    BY <2>7, <2>11
  <2> QED BY <2>12, <2>13, <2>14, Zenon DEF Shows
<1>7. summarizes \in BOOLEAN
  BY DEF Typed
<1> QED BY <1>4, <1>5, <1>6, <1>7

\* What a view misses is what was left out.
LEMMA MissingIs ==
  ASSUME Typed, NEW old, LeftOut(old), Tells(view, old)
  PROVE  Missing = old
<1>1. old \in SUBSET DOMAIN history
  BY LeftOutIs DEF LeavesOutOldest
<1>2. \A i \in DOMAIN history: i # 0
  BY PlacesAreNumbers
<1>3. /\ \A k \in DOMAIN view: view[k].id # 0 => view[k].id \in DOMAIN history \ old
      /\ \A i \in DOMAIN history \ old: \E k \in DOMAIN view: view[k].id = i
  BY DEF Tells
<1> QED BY <1>1, <1>2, <1>3 DEF Missing

\* A view that tells what was not left out is complete.
LEMMA ViewedIsComplete ==
  ASSUME Typed, Viewed
  PROVE  ViewsAreComplete
<1> SUFFICES ASSUME stage = "model" PROVE ViewsAreComplete
  BY DEF ViewsAreComplete
<1>1. PICK old: LeftOut(old) /\ Tells(view, old)
  BY DEF Viewed
<1>2. Missing = old
  BY <1>1, MissingIs
<1> DEFINE shown == {i \in DOMAIN view: view[i].id # 0}
           sums == DOMAIN view \ shown
           plain == Plain(history)
<1>3. \A i, j \in shown: i < j => view[i].id < view[j].id
  BY <1>1 DEF Tells
<1>4. /\ Missing \in SUBSET plain
      /\ \A i \in Missing, j \in plain \ Missing: i < j
      /\ Missing # {} => Cardinality(plain \ Missing) >= keep
  BY <1>1, <1>2, LeftOutIs DEF LeavesOutOldest
<1>5. \A i \in sums: view[i].of = Missing
  BY <1>1, <1>2 DEF Tells
<1>6. Cardinality(sums) = (IF summarizes /\ Missing # {} THEN 1 ELSE 0)
  <2>1. CASE summarizes /\ old # {}
    <3>1. PICK p \in DOMAIN view: \A k \in DOMAIN view: (view[k].id = 0) <=> (k = p)
      BY <1>1, <2>1 DEF Tells
    <3>2. sums = {p}
      BY <3>1
    <3>3. Cardinality({p}) = 1
      BY FS_Singleton
    <3> QED BY <1>2, <2>1, <3>2, <3>3
  <2>2. CASE ~(summarizes /\ old # {})
    <3>1. \A k \in DOMAIN view: view[k].id # 0
      BY <1>1, <2>2 DEF Tells
    <3>2. sums = {}
      BY <3>1
    <3>3. Cardinality({}) = 0
      BY FS_EmptySet
    <3> QED BY <1>2, <2>2, <3>2, <3>3
  <2> QED BY <2>1, <2>2
<1> QED BY <1>3, <1>4, <1>5, <1>6 DEF ViewsAreComplete

\* Calls and results are not parted, since the cut is in front of a human turn,
\* and the messages of one call have none in between.
LEMMA ViewedKeepsPairs ==
  ASSUME Typed, Viewed
  PROVE  PairsStayTogether
<1> SUFFICES ASSUME stage = "model" PROVE PairsStayTogether
  BY DEF PairsStayTogether
<1>1. PICK old: LeftOut(old) /\ Tells(view, old)
  BY DEF Viewed
<1>2. Missing = old
  BY <1>1, MissingIs
<1> DEFINE plain == Plain(history)
           shown == plain \ Missing
<1>3. /\ plain \in SUBSET DOMAIN history
      /\ \A i \in Missing, j \in shown: i < j
      /\ (Missing # {} /\ shown # {}) =>
           \E f \in shown: history[f].role = "human" /\ \A j \in shown: f <= j
  BY <1>1, <1>2, LeftOutIs DEF LeavesOutOldest
<1>4. DOMAIN history \in SUBSET Nat
  BY PlacesAreNumbers
<1> HIDE DEF plain
<1>5. ASSUME NEW i \in plain, NEW j \in plain, SameCall(i, j)
      PROVE  (i \in Missing) <=> (j \in Missing)
  <2>1. i \in Nat /\ j \in Nat /\ i < j /\ \A k \in i + 1..j: history[k].role = "tool"
    BY <1>3, <1>4, <1>5 DEF SameCall
  <2>2. ASSUME j \in Missing, i \notin Missing PROVE FALSE
    <3>1. j < i
      BY <1>3, <2>2
    <3> QED BY <2>1, <3>1
  <2>3. ASSUME i \in Missing, j \notin Missing PROVE FALSE
    <3>1. PICK f \in shown: history[f].role = "human" /\ \A l \in shown: f <= l
      BY <1>3, <2>3
    <3>2. i < f /\ f <= j /\ f \in Nat
      BY <1>3, <1>4, <2>3, <3>1
    <3>3. f \in i + 1..j
      BY <2>1, <3>2
    <3> QED BY <2>1, <3>1, <3>3
  <2> QED BY <2>2, <2>3
<1>6. ASSUME Missing # {}, shown # {} PROVE history[Min(shown)].role = "human"
  <2>1. PICK f \in shown: history[f].role = "human" /\ \A j \in shown: f <= j
    BY <1>3, <1>6
  <2>2. shown \in SUBSET Nat
    BY <1>3, <1>4
  <2> HIDE DEF shown
  <2>3. Min(shown) \in shown /\ Min(shown) <= f
    BY <1>6, <2>2, LeastIs
  <2>4. Min(shown) = f
    <3>1. f <= Min(shown) /\ f \in Nat /\ Min(shown) \in Nat
      BY <2>1, <2>2, <2>3
    <3> QED BY <2>3, <3>1
  <2> QED BY <2>1, <2>4
<1> QED BY <1>5, <1>6 DEF PairsStayTogether, plain

-----------------------------------------------------------------------------
(* The tail of the thread is the tail of what the agent node sees.         *)

\* Every message of the thread's tail lies in the tail of what is seen, with
\* nothing but results of the same call before it; but a system message may not.
LEMMA TailIsShown ==
  ASSUME Typed, NEW old, LeftOut(old), NEW seen, Shows(seen, old),
         keep # 0, history # <<>>,
         NEW i \in TailStart(history)..Len(history), history[i].role \in {"human", "tool"}
  PROVE  /\ seen # <<>>
         /\ \E k \in TailStart(seen)..Len(seen):
              /\ seen[k].id = i
              /\ \A j \in TailStart(seen)..k - 1:
                   /\ seen[j].id \in DOMAIN history /\ seen[j] = history[seen[j].id]
                   /\ SameCall(seen[j].id, i)
<1> DEFINE n == Len(history)
           t == TailStart(history)
<1>1. /\ n \in Nat /\ DOMAIN history = 1..n /\ t \in 1..n
      /\ t = n \/ \A j \in t..n: history[j].role = "tool"
      /\ \A j \in 1..n: (\A l \in j..n: history[l].role = "tool") => t <= j
  <2>1. history \in Seq(Messages)
    BY DEF Typed
  <2> QED BY <2>1, PlacesAreNumbers, TailStartProperties
<1> HIDE DEF n, t
<1>2. i \in t..n /\ i \in 1..n
  BY <1>1 DEF n, t
\* Nothing of the tail is left out, nor the message in front of it.
<1>3. ASSUME NEW j \in 1..n, j >= t \/ (j + 1 = t /\ history[t].role = "tool")
      PROVE  j \notin old
  <2> SUFFICES ASSUME j \in old PROVE FALSE
    OBVIOUS
  <2> DEFINE recent == Plain(history) \ old
  <2>1. /\ Plain(history) \in SUBSET DOMAIN history
        /\ \A l \in recent: j < l
        /\ recent # {}
    BY LeftOutIs DEF LeavesOutOldest
  <2>2. PICK f \in recent: history[f].role = "human"
    BY <2>1, LeftOutIs DEF LeavesOutOldest
  <2>3. j < f /\ f \in 1..n
    BY <1>1, <2>1, <2>2
  <2>4. CASE j >= t
    <3>1. t # n /\ f \in t..n
      BY <1>1, <2>3, <2>4
    <3>2. history[f].role = "tool"
      BY <1>1, <3>1
    <3> QED BY <2>2, <3>2
  <2>5. CASE j + 1 = t /\ history[t].role = "tool"
    <3>1. f \in t..n
      BY <1>1, <2>3, <2>5
    <3>2. history[f].role = "tool"
      <4>1. CASE t = n
        BY <1>1, <2>5, <3>1, <4>1
      <4>2. CASE t # n
        BY <1>1, <3>1, <4>2
      <4> QED BY <4>1, <4>2
    <3> QED BY <2>2, <3>2
  <2> QED BY <1>3, <2>4, <2>5
<1> DEFINE m == Len(seen)
<1>4. /\ seen \in Seq(Messages) /\ DOMAIN seen = 1..m
      /\ \A k \in 1..m:
           /\ seen[k].id # 0 => seen[k].id \in 1..n /\ seen[k] = history[seen[k].id]
           /\ seen[k].id = 0 => \A j \in 1..k: seen[j].role = "system"
      /\ \A j \in 1..n: j \notin old => \E k \in 1..m: seen[k].id = j
      /\ \A k, l \in 1..m:
           (k < l /\ seen[k].id # 0 /\ seen[l].id # 0) => seen[k].id < seen[l].id
  <2>1. seen \in Seq(Messages)
    BY DEF Shows, Tells
  <2>2. m \in Nat /\ DOMAIN seen = 1..m
    BY <2>1, LenProperties
  <2> QED BY <1>1, <2>1, <2>2 DEF Shows, Tells
<1>12. m \in Nat
  BY <1>4, LenProperties
<1> HIDE DEF m
<1>5. PICK k \in 1..m: seen[k].id = i
  BY <1>1, <1>2, <1>3, <1>4
<1>6. seen # <<>>
  <2>1. m # 0
    BY <1>5
  <2> QED BY <2>1, EmptySeq DEF m
<1> DEFINE s == TailStart(seen)
<1>7. /\ s \in 1..m
      /\ s = m \/ \A j \in s..m: seen[j].role = "tool"
      /\ \A j \in 1..m: (\A l \in j..m: seen[l].role = "tool") => s <= j
  BY <1>4, <1>6, TailStartProperties DEF m
<1> HIDE DEF s
\* What comes behind a message that is neither a system message nor the summary.
<1>8. ASSUME NEW j \in 1..m, seen[j].id # 0, seen[j].role # "system", NEW l \in j + 1..m
      PROVE  seen[l].id \in 1..n /\ seen[l].id > seen[j].id /\ seen[l] = history[seen[l].id]
  <2>1. l \in 1..m /\ j < l /\ j \in 1..l
    BY <1>4
  <2>2. seen[l].id # 0
    BY <1>4, <1>8, <2>1
  <2>3. seen[j].id \in 1..n /\ seen[l].id \in 1..n /\ seen[j].id < seen[l].id
        /\ seen[l] = history[seen[l].id]
    BY <1>4, <1>8, <2>1, <2>2
  <2> QED BY <2>3
<1>9. seen[k].id # 0 /\ seen[k] = history[i] /\ seen[k].role # "system"
  BY <1>1, <1>2, <1>4, <1>5
<1>10. CASE history[i].role = "human"
  <2>1. i = n
    BY <1>1, <1>2, <1>10
  <2>2. k = m
    <3> SUFFICES ASSUME k # m PROVE FALSE
      OBVIOUS
    <3>1. k + 1 \in k + 1..m /\ m \in Nat
      BY <1>5, <1>12
    <3>2. seen[k + 1].id \in 1..n /\ seen[k + 1].id > n
      BY <1>5, <1>8, <1>9, <2>1, <3>1
    <3> QED BY <1>1, <3>2
  <2>3. s = m
    <3>1. seen[m].role = "human"
      BY <1>9, <1>10, <2>2
    <3>2. m \in s..m
      BY <1>7, <1>12
    <3> QED BY <1>7, <3>1, <3>2
  <2>4. k \in s..m /\ s..k - 1 = {}
    BY <1>5, <1>12, <2>2, <2>3
  <2> QED BY <1>5, <1>6, <2>4 DEF s, m
<1>11. CASE history[i].role = "tool"
  <2>1. \A j \in t..n: history[j].role = "tool"
    <3>1. CASE t = n
      BY <1>1, <1>2, <1>11, <3>1
    <3>2. CASE t # n
      BY <1>1, <3>2
    <3> QED BY <3>1, <3>2
  <2>2. s <= k
    <3>1. \A l \in k..m: seen[l].role = "tool"
      <4> SUFFICES ASSUME NEW l \in k..m PROVE seen[l].role = "tool"
        OBVIOUS
      <4>1. CASE l = k
        BY <1>9, <1>11, <4>1
      <4>2. CASE l # k
        <5>1. l \in k + 1..m
          BY <1>4, <1>5, <4>2
        <5>2. seen[l].id \in 1..n /\ seen[l].id > i /\ seen[l] = history[seen[l].id]
          BY <1>5, <1>8, <1>9, <5>1
        <5>3. seen[l].id \in t..n
          BY <1>1, <1>2, <5>2
        <5> QED BY <2>1, <5>2, <5>3
      <4> QED BY <4>1, <4>2
    <3> QED BY <1>5, <1>7, <3>1
  <2>3. k \in s..m
    BY <1>5, <1>7, <1>12, <2>2
  <2>4. ASSUME NEW j \in s..k - 1
        PROVE  /\ seen[j].id \in 1..n /\ seen[j] = history[seen[j].id]
               /\ SameCall(seen[j].id, i)
    <3>1. j \in 1..m /\ j < k /\ k \in j + 1..m /\ s # m /\ j \in s..m
      BY <1>5, <1>7, <1>12, <2>3
    <3>2. seen[j].role = "tool"
      BY <1>7, <3>1
    <3>3. seen[j].id # 0
      <4>1. j \in 1..j
        BY <3>1
      <4> QED BY <1>4, <3>1, <3>2, <4>1
    <3>4. seen[j].id \in 1..n /\ seen[j] = history[seen[j].id] /\ seen[j].id < i
      BY <1>4, <1>5, <1>9, <3>1, <3>3
    <3>5. t <= seen[j].id
      <4> SUFFICES ASSUME seen[j].id < t PROVE FALSE
        BY <1>1, <3>4
      <4>1. t - 1 \in 1..n /\ (t - 1) + 1 = t /\ history[t].role = "tool"
        BY <1>1, <2>1, <3>4
      <4>2. PICK b \in 1..m: seen[b].id = t - 1
        BY <1>3, <1>4, <4>1
      <4>3. b \notin s..m \/ seen[b].role # "tool"
        <5>1. history[t - 1].role # "tool"
          <6> SUFFICES ASSUME history[t - 1].role = "tool" PROVE FALSE
            OBVIOUS
          <6>1. \A l \in t - 1..n: l = t - 1 \/ l \in t..n
            BY <1>1
          <6>2. \A l \in t - 1..n: history[l].role = "tool"
            BY <2>1, <6>1
          <6>3. t <= t - 1
            BY <1>1, <4>1, <6>2
          <6> QED BY <1>1, <6>3
        <5>2. seen[b] = history[t - 1]
          BY <1>4, <4>1, <4>2
        <5> QED BY <5>1, <5>2
      <4>4. b >= j
        <5> SUFFICES ASSUME b < j PROVE FALSE
          BY <3>1, <4>2
        <5>1. t - 1 < seen[j].id
          <6>1. seen[b].id # 0 /\ seen[j].id # 0
            BY <3>3, <4>1, <4>2
          <6> QED BY <1>4, <3>1, <4>2, <6>1
        <5> QED BY <1>1, <3>4, <5>1
      <4>5. b \in s..m
        BY <1>7, <1>12, <3>1, <4>2, <4>4
      <4>6. seen[b].role = "tool"
        BY <1>7, <3>1, <4>5
      <4> QED BY <4>3, <4>5, <4>6
    <3>6. SameCall(seen[j].id, i)
      <4>1. \A l \in seen[j].id + 1..i: l \in t..n
        BY <1>1, <1>2, <3>4, <3>5
      <4>2. \A l \in seen[j].id + 1..i: history[l].role = "tool"
        BY <2>1, <4>1
      <4>3. history[seen[j].id].role = "tool"
        BY <3>2, <3>4
      <4> QED BY <3>4, <4>2, <4>3 DEF SameCall
    <3> QED BY <3>4, <3>6
  <2> QED BY <1>1, <1>5, <1>6, <2>3, <2>4 DEF s, m
<1> QED BY <1>10, <1>11

-----------------------------------------------------------------------------
(* The invariant is inductive.                                             *)

Inv == Typed /\ Handled /\ Viewed /\ Covered

\* An empty thread keeps the invariant.
LEMMA InitInv == Init => Inv
<1> SUFFICES ASSUME Init PROVE Inv
  OBVIOUS
<1>1. /\ places \in SUBSET Places /\ severity \in Severities /\ warnOnly \in BOOLEAN
      /\ keep \in Keeps /\ summarizes \in BOOLEAN
      /\ stage = "idle" /\ history = <<>> /\ looked = {}
  BY Zenon DEF Init
<1>2. DOMAIN history = {} /\ history \in Seq(Messages)
  BY <1>1
<1>3. keep \in Nat
  BY <1>1, ConversationAssumption
<1> QED BY <1>1, <1>2, <1>3 DEF Inv, Typed, Handled, OffencesAreHandled, Viewed, Covered

\* What is added to the thread has its place behind everything else, which
\* stays where it is.
LEMMA Appended ==
  ASSUME Typed, NEW more \in Seq(Messages),
         \A k \in 1..Len(more): more[k].id = Len(history) + k,
         history' = history \o more
  PROVE  /\ history' \in Seq(Messages)
         /\ Len(history) \in Nat /\ Len(more) \in Nat
         /\ DOMAIN history = 1..Len(history)
         /\ DOMAIN history' = 1..Len(history) + Len(more)
         /\ Len(history') = Len(history) + Len(more)
         /\ \A i \in DOMAIN history': history'[i].id = i
         /\ \A i \in DOMAIN history: i \in DOMAIN history' /\ history'[i] = history[i]
         /\ \A k \in 1..Len(more): /\ Len(history) + k \in DOMAIN history'
                                   /\ history'[Len(history) + k] = more[k]
         /\ \A i \in DOMAIN history':
              i \in DOMAIN history \/ \E k \in 1..Len(more): i = Len(history) + k
<1> DEFINE n == Len(history)
           l == Len(more)
<1>1. /\ n \in Nat /\ DOMAIN history = 1..n /\ l \in Nat
      /\ \A i \in 1..n: history[i].id = i
  BY PlacesAreNumbers, LenProperties
<1>2. /\ history' \in Seq(Messages) /\ Len(history') = n + l
      /\ \A i \in 1..n + l: history'[i] = IF i <= n THEN history[i] ELSE more[i - n]
  <2>1. history \in Seq(Messages)
    BY DEF Typed
  <2> QED BY <2>1, ConcatProperties
<1>3. DOMAIN history' = 1..n + l
  BY <1>2, LenProperties
<1>4. \A k \in 1..l: more[k].id = n + k
  OBVIOUS
<1> HIDE DEF n, l
<1>5. \A i \in 1..n: i \in 1..n + l /\ history'[i] = history[i]
  BY <1>1, <1>2
<1>6. ASSUME NEW k \in 1..l PROVE n + k \in 1..n + l /\ history'[n + k] = more[k]
  <2>1. n + k \in 1..n + l /\ ~(n + k <= n) /\ (n + k) - n = k
    BY <1>1
  <2> QED BY <1>2, <2>1
<1>7. ASSUME NEW i \in 1..n + l PROVE i \in 1..n \/ \E k \in 1..l: i = n + k
  <2>1. CASE i <= n
    BY <1>1, <2>1
  <2>2. CASE ~(i <= n)
    <3>1. i - n \in 1..l /\ i = n + (i - n)
      BY <1>1, <2>2
    <3> QED BY <3>1
  <2> QED BY <2>1, <2>2
<1>8. ASSUME NEW i \in 1..n + l PROVE history'[i].id = i
  <2>1. CASE i \in 1..n
    BY <1>1, <1>5, <2>1
  <2>2. ASSUME NEW k \in 1..l, i = n + k PROVE history'[i].id = i
    BY <1>4, <1>6, <2>2
  <2> QED BY <1>7, <2>1, <2>2
<1> QED BY <1>1, <1>2, <1>3, <1>5, <1>6, <1>7, <1>8 DEF n, l

\* What is covered stays so.
LEMMA StaysCovered ==
  ASSUME Typed, NEW i \in DOMAIN history, IsCovered(i),
         \A j \in DOMAIN history: history'[j] = history[j],
         looked \in SUBSET looked'
  PROVE  IsCovered(i)'
<1>1. Len(history) \in Nat /\ DOMAIN history = 1..Len(history) /\ looked \in SUBSET DOMAIN history
  BY PlacesAreNumbers DEF Typed
<1>2. ASSUME NEW j \in looked, SameCall(j, i), history[j].bad
      PROVE  j \in looked' /\ SameCall(j, i)' /\ history'[j].bad
  <2>1. \A k \in j + 1..i: k \in DOMAIN history
    BY <1>1
  <2>2. j \in DOMAIN history /\ j \in looked'
    BY <1>1
  <2>3. j < i /\ history[j].role \in {"call", "tool"} /\ \A k \in j + 1..i: history[k].role = "tool"
    BY <1>2 DEF SameCall
  <2>4. /\ j < i /\ history'[j].role \in {"call", "tool"}
        /\ \A k \in j + 1..i: history'[k].role = "tool"
    BY <2>1, <2>2, <2>3
  <2> QED BY <1>2, <2>2, <2>4 DEF SameCall
<1>3. history'[i] = history[i]
  OBVIOUS
<1> QED BY <1>2, <1>3 DEF IsCovered

\* The steps that leave the thread and what was looked at alone.
LEMMA RestingStep ==
  ASSUME Inv, UNCHANGED <<config, history, looked>>,
         stage # "agent", stage' \in {"idle", "output", "model"},
         stage' = "model" => stage = "model" /\ view' = view
  PROVE  Inv'
<1>1. /\ places' = places /\ severity' = severity /\ warnOnly' = warnOnly /\ keep' = keep
      /\ summarizes' = summarizes /\ history' = history /\ looked' = looked
  BY DEF config
<1>2. Typed'
  BY <1>1 DEF Inv, Typed
<1>3. Handled'
  BY <1>1 DEF Inv, Handled, OffencesAreHandled
<1>4. Viewed'
  <2> SUFFICES ASSUME stage' = "model" PROVE Viewed'
    BY DEF Viewed
  <2>1. PICK old: LeftOut(old) /\ Tells(view, old)
    BY DEF Inv, Viewed
  <2>2. LeftOut(old)' /\ Tells(view, old)'
    BY <1>1, <2>1 DEF LeftOut, Old, Tells
  <2> QED BY <2>2 DEF Viewed
<1>5. Covered'
  <2> SUFFICES ASSUME "before" \in places, keep # 0, NEW i \in DOMAIN history PROVE IsCovered(i)'
    BY <1>1 DEF Covered
  <2>1. IsCovered(i)
    BY DEF Inv, Covered
  <2> QED BY <1>1, <2>1 DEF IsCovered, SameCall
<1> QED BY <1>2, <1>3, <1>4, <1>5 DEF Inv

\* The steps that add to the thread: what is added is to be handled, and covered
\* as far as it lies in front of the tail.
LEMMA AddingStep ==
  ASSUME Inv, UNCHANGED <<config, looked>>,
         stage # "agent", stage' \in {"idle", "output", "tools", "agent"},
         NEW more \in Seq(Messages), history' = history \o more,
         stage' = "agent" => more # <<>>,
         \A k \in 1..Len(more):
           /\ more[k].id = Len(history) + k
           /\ (more[k].bad /\ more[k].met) => severity # "mask" /\ (warnOnly \/ severity = "warn")
           /\ \/ more[k].role \notin {"human", "tool"}
              \/ more[k].led
              \/ stage' = "agent" /\ \A l \in k..Len(more): more[l].role = "tool"
              \/ stage' = "agent" /\ k = Len(more)
  PROVE  Inv'
<1> DEFINE n == Len(history)
           l == Len(more)
<1>1. /\ places' = places /\ severity' = severity /\ warnOnly' = warnOnly /\ keep' = keep
      /\ summarizes' = summarizes /\ looked' = looked
  BY DEF config
<1>2. /\ history' \in Seq(Messages) /\ n \in Nat /\ l \in Nat
      /\ DOMAIN history = 1..n /\ DOMAIN history' = 1..n + l /\ Len(history') = n + l
      /\ \A i \in DOMAIN history': history'[i].id = i
      /\ \A i \in DOMAIN history: i \in DOMAIN history' /\ history'[i] = history[i]
      /\ \A k \in 1..l: n + k \in DOMAIN history' /\ history'[n + k] = more[k]
      /\ \A i \in DOMAIN history': i \in DOMAIN history \/ \E k \in 1..l: i = n + k
  BY Appended DEF Inv
<1>3. ASSUME stage' = "agent" PROVE l # 0 /\ history' # <<>>
  <2>1. l # 0
    BY <1>3, EmptySeq
  <2> HIDE DEF l
  <2>2. 1 \in DOMAIN history'
    BY <1>2, <2>1
  <2> QED BY <2>1, <2>2
<1>4. \A k \in 1..l:
        /\ (more[k].bad /\ more[k].met) => severity # "mask" /\ (warnOnly \/ severity = "warn")
        /\ \/ more[k].role \notin {"human", "tool"}
           \/ more[k].led
           \/ stage' = "agent" /\ \A j \in k..l: more[j].role = "tool"
           \/ stage' = "agent" /\ k = l
  OBVIOUS
<1> HIDE DEF n, l
<1>5. Typed'
  <2>1. looked' \in SUBSET DOMAIN history'
    BY <1>1, <1>2 DEF Inv, Typed
  <2> QED BY <1>1, <1>2, <1>3, <2>1 DEF Inv, Typed
<1>6. Handled'
  <2> SUFFICES ASSUME NEW i \in DOMAIN history', history'[i].bad, history'[i].met
               PROVE  severity # "mask" /\ (warnOnly \/ severity = "warn")
    BY <1>1 DEF Handled, OffencesAreHandled
  <2>1. CASE i \in DOMAIN history
    BY <1>2, <2>1 DEF Inv, Handled, OffencesAreHandled
  <2>2. CASE i \notin DOMAIN history
    BY <1>2, <1>4, <2>2
  <2> QED BY <2>1, <2>2
<1>7. Viewed'
  BY DEF Viewed
<1>8. Covered'
  <2> SUFFICES ASSUME "before" \in places, keep # 0, NEW i \in DOMAIN history',
                      stage' = "agent" => i < TailStart(history')
               PROVE  IsCovered(i)'
    BY <1>1 DEF Covered
  <2>1. CASE i \in DOMAIN history
    <3>1. IsCovered(i)
      BY <2>1 DEF Inv, Covered
    <3> QED BY <1>1, <1>2, <2>1, <3>1, StaysCovered DEF Inv
  <2>2. CASE i \notin DOMAIN history
    <3>1. PICK k \in 1..l: i = n + k
      BY <1>2, <2>2
    <3>2. history'[i] = more[k]
      BY <1>2, <3>1
    <3>3. CASE more[k].role \notin {"human", "tool"} \/ more[k].led
      BY <3>2, <3>3 DEF IsCovered
    <3>4. CASE stage' = "agent" /\ \A j \in k..l: more[j].role = "tool"
      <4>1. \A j \in i..n + l: j - n \in k..l /\ j - n \in 1..l /\ n + (j - n) = j
        <5>1. n \in Nat /\ l \in Nat /\ k \in 1..l /\ i = n + k
          BY <1>2, <3>1
        <5> QED BY ONLY <5>1
      <4>2. \A j \in i..n + l: history'[j].role = "tool"
        BY <1>2, <3>4, <4>1
      <4>3. history' \in Seq(Messages) /\ history' # <<>>
        BY <1>2, <1>3, <3>4
      <4>4. /\ TailStart(history') \in 1..Len(history')
            /\ \A h \in 1..Len(history'):
                 (\A j \in h..Len(history'): history'[j].role = "tool") => TailStart(history') <= h
        BY <4>3, TailStartProperties
      <4>5. i \in 1..n + l /\ n + l \in Nat /\ Len(history') = n + l
        BY <1>2
      <4>6. TailStart(history') \in 1..n + l /\ TailStart(history') <= i
        BY <4>2, <4>4, <4>5
      <4>7. ~(i < TailStart(history'))
        BY <4>5, <4>6
      <4> QED BY <2>2, <3>4, <4>7
    <3>5. CASE stage' = "agent" /\ k = l
      <4>1. TailStart(history') \in 1..n + l
        BY <1>2, <1>3, <3>5, TailStartProperties
      <4> QED BY <1>2, <3>1, <3>5, <4>1
    <3> QED BY <1>4, <3>3, <3>4, <3>5
  <2> QED BY <2>1, <2>2
<1> QED BY <1>5, <1>6, <1>7, <1>8 DEF Inv

\* The last message of an input is the tail; one in front of it has led.
LEMMA InputStep ==
  ASSUME Inv, Input
  PROVE  Inv'
<1> DEFINE n == Len(history)
<1>1. n \in Nat /\ Typed
  BY PlacesAreNumbers DEF Inv
<1>2. PICK bad \in [1..2 -> BOOLEAN], important \in BOOLEAN, first \in {"none", "human", "system"}:
        LET id == Len(history) + 1
            lead == [Message(id, first, bad[1], FALSE) EXCEPT !.led = TRUE]
            input == IF first = "none" THEN <<Message(id, "human", bad[2], important)>>
                     ELSE <<lead, Message(id + 1, "human", bad[2], important)>>
            guarded == Guarded(input, "input")
        IN /\ stage = "idle"
           /\ first = "none" => ~bad[1]
           /\ Fits(input)
           /\ ~guarded.blocked
           /\ history' = history \o Kept(guarded)
           /\ stage' = "agent"
           /\ gate' = [gate EXCEPT !.hold = {}]
           /\ sent' = <<>>
           /\ returned' = 0
           /\ UNCHANGED <<config, view, looked>>
  BY Zenon DEF Input
<1> DEFINE lead == [Message(n + 1, first, bad[1], FALSE) EXCEPT !.led = TRUE]
           alone == Message(n + 1, "human", bad[2], important)
           second == Message(n + 1 + 1, "human", bad[2], important)
           input == IF first = "none" THEN <<alone>> ELSE <<lead, second>>
           guarded == Guarded(input, "input")
<1>3. /\ stage = "idle" /\ ~guarded.blocked /\ history' = history \o Kept(guarded)
      /\ stage' = "agent" /\ UNCHANGED <<config, looked>>
  BY <1>2, Zenon
<1>4. /\ alone \in Messages /\ alone.id = n + 1 /\ alone.role = "human"
      /\ second \in Messages /\ second.id = n + 2 /\ second.role = "human"
      /\ first # "none" => lead \in Messages /\ lead.id = n + 1 /\ lead.led
  <2>1. /\ n + 1 \in Nat /\ n + 1 + 1 \in Nat /\ n + 1 + 1 = n + 2
        /\ "human" \in Roles /\ (first # "none" => first \in Roles)
        /\ bad[1] \in BOOLEAN /\ bad[2] \in BOOLEAN
    BY <1>1 DEF Roles
  <2>2. alone \in Messages /\ alone.id = n + 1 /\ alone.role = "human"
    BY <2>1 DEF Message, Messages
  <2>3. second \in Messages /\ second.id = n + 1 + 1 /\ second.role = "human"
    BY <2>1 DEF Message, Messages
  <2>4. ASSUME first # "none" PROVE lead \in Messages /\ lead.id = n + 1 /\ lead.led
    <3>1. first \in Roles /\ FALSE \in BOOLEAN
      BY <2>1, <2>4
    <3> QED BY <2>1, <3>1 DEF Message, Messages
  <2> QED BY <2>1, <2>2, <2>3, <2>4
<1> HIDE DEF lead, alone, second
<1>5. /\ input \in Seq(Messages) /\ Len(input) \in 1..2
      /\ \A k \in 1..Len(input): input[k].id = n + k /\ (input[k].led \/ k = Len(input))
  <2>1. CASE first = "none"
    <3>1. input = <<alone>>
      BY <2>1
    <3> QED BY <1>4, <3>1
  <2>2. CASE first # "none"
    <3>1. input = <<lead, second>>
      BY <2>2
    <3>2. input \in Seq(Messages) /\ Len(input) = 2 /\ input[1] = lead /\ input[2] = second
      BY <1>4, <2>2, <3>1
    <3>3. \A k \in 1..2: k = 1 \/ k = 2
      OBVIOUS
    <3> QED BY <1>4, <2>2, <3>2, <3>3
  <2> QED BY <2>1, <2>2
<1> HIDE DEF input
<1> DEFINE more == Kept(guarded)
<1>6. /\ more \in Seq(Messages) /\ Len(more) = Len(input)
      /\ \A k \in 1..Len(input):
           /\ more[k].id = input[k].id /\ more[k].led = input[k].led
           /\ (more[k].bad /\ more[k].met) => severity # "mask" /\ (warnOnly \/ severity = "warn")
  BY <1>1, <1>3, <1>5, KeptProperties
<1>7. history' = history \o more
  BY <1>3
<1> HIDE DEF more, guarded
<1>8. more # <<>>
  <2>1. Len(more) # 0
    BY <1>5, <1>6
  <2> QED BY <2>1, EmptySeq
<1>9. \A k \in 1..Len(more):
        /\ more[k].id = n + k
        /\ (more[k].bad /\ more[k].met) => severity # "mask" /\ (warnOnly \/ severity = "warn")
        /\ more[k].led \/ k = Len(more)
  BY <1>5, <1>6
<1> QED BY <1>3, <1>6, <1>7, <1>8, <1>9, AddingStep

\* An answer is nothing the guardrail in front of the node looks for.
LEMMA ModelStep ==
  ASSUME Inv, Model
  PROVE  Inv'
<1> DEFINE n == Len(history)
<1>1. n \in Nat /\ Typed
  BY PlacesAreNumbers DEF Inv
<1>2. PICK role \in {"ai", "call"}, text, bad, important, valued \in BOOLEAN:
        LET answer == <<[Message(Len(history) + 1, role, bad, important) EXCEPT !.text = text]>>
            guarded == Guarded(answer, "after")
        IN /\ stage = "model"
           /\ text \/ (role = "call" /\ ~bad)
           /\ valued => contract # "none"
           /\ Fits(answer)
           /\ stage' = IF guarded.blocked THEN "idle" ELSE IF role = "call" THEN "tools" ELSE "output"
           /\ history' = IF guarded.blocked THEN history ELSE history \o Kept(guarded)
           /\ view' = <<>>
           /\ Stream(IF guarded.blocked THEN Tokens("agent", answer)
                     ELSE Returned(Tokens("agent", answer), "agent", Kept(guarded), Valued(valued)))
           /\ returned' = IF valued /\ ~guarded.blocked THEN returned + 1 ELSE returned
           /\ UNCHANGED <<config, looked>>
  BY Zenon DEF Model
<1> DEFINE message == [Message(n + 1, role, bad, important) EXCEPT !.text = text]
           answer == <<message>>
           guarded == Guarded(answer, "after")
<1>3. /\ stage = "model"
      /\ stage' = IF guarded.blocked THEN "idle" ELSE IF role = "call" THEN "tools" ELSE "output"
      /\ history' = IF guarded.blocked THEN history ELSE history \o Kept(guarded)
      /\ UNCHANGED <<config, looked>>
  BY <1>2, Zenon
<1>4. message \in Messages /\ message.id = n + 1 /\ message.role \in {"ai", "call"}
  <2>1. n + 1 \in Nat /\ role \in Roles
    BY <1>1 DEF Roles
  <2> QED BY <2>1 DEF Message, Messages
<1> HIDE DEF message
<1>5. /\ answer \in Seq(Messages) /\ Len(answer) = 1 /\ answer[1] = message
  BY <1>4
<1> HIDE DEF answer
<1>6. CASE guarded.blocked
  <2>1. history' = history /\ stage' = "idle"
    BY <1>3, <1>6, Zenon
  <2> HIDE DEF guarded
  <2> QED BY <1>3, <2>1, RestingStep
<1>7. CASE ~guarded.blocked
  <2> DEFINE more == Kept(guarded)
  <2>1. history' = history \o more /\ stage' \in {"output", "tools"}
    BY <1>3, <1>7, Zenon
  <2>2. /\ more \in Seq(Messages) /\ Len(more) = 1
        /\ \A k \in 1..1:
             /\ more[k].id = answer[k].id /\ more[k].role = answer[k].role
             /\ (more[k].bad /\ more[k].met) => severity # "mask" /\ (warnOnly \/ severity = "warn")
    <3>1. /\ more \in Seq(Messages) /\ Len(more) = Len(answer)
          /\ \A k \in 1..Len(answer):
               /\ more[k].id = answer[k].id /\ more[k].role = answer[k].role
               /\ (more[k].bad /\ more[k].met) => severity # "mask" /\ (warnOnly \/ severity = "warn")
      BY <1>1, <1>5, <1>7, KeptProperties
    <3> QED BY <1>5, <3>1
  <2> HIDE DEF more, guarded
  <2>3. \A k \in 1..Len(more):
          /\ more[k].id = n + k /\ more[k].role \notin {"human", "tool"}
          /\ (more[k].bad /\ more[k].met) => severity # "mask" /\ (warnOnly \/ severity = "warn")
    BY <1>4, <1>5, <2>2
  <2> QED BY <1>3, <2>1, <2>2, <2>3, AddingStep
<1> QED BY <1>6, <1>7

\* Results are all in the tail, with the results before them.
LEMMA ToolsStep ==
  ASSUME Inv, Tools
  PROVE  Inv'
<1> DEFINE n == Len(history)
<1>1. n \in Nat
  BY PlacesAreNumbers DEF Inv
<1>2. PICK bad \in [1..2 -> BOOLEAN], l \in 1..2, important \in BOOLEAN:
        /\ stage = "tools"
        /\ history' = history \o [i \in 1..l |-> Message(n + i, "tool", bad[i], important /\ i = 1)]
        /\ stage' = "agent"
        /\ UNCHANGED <<config, looked>>
  BY Zenon DEF Tools
<1> DEFINE result(i) == Message(n + i, "tool", bad[i], important /\ i = 1)
           more == [i \in 1..l |-> result(i)]
<1>3. ASSUME NEW i \in 1..l
      PROVE  /\ result(i) \in Messages /\ result(i).id = n + i /\ result(i).role = "tool"
             /\ ~result(i).met
  <2> DEFINE special == important /\ i = 1
  <2>1. n + i \in Nat /\ "tool" \in Roles /\ bad[i] \in BOOLEAN /\ special \in BOOLEAN
    BY <1>1 DEF Roles
  <2> HIDE DEF special
  <2>2. LET m == Message(n + i, "tool", bad[i], special)
        IN m \in Messages /\ m.id = n + i /\ m.role = "tool" /\ ~m.met
    BY <2>1 DEF Message, Messages
  <2> QED BY <2>2 DEF special
<1>4. history' = history \o more
  BY <1>2, Zenon
<1> HIDE DEF result
<1>5. more \in Seq(Messages) /\ Len(more) = l
      /\ \A i \in 1..l: more[i].id = n + i /\ more[i].role = "tool" /\ ~more[i].met
  <2>1. more \in [1..l -> Messages]
    BY <1>3
  <2>2. l \in Nat
    OBVIOUS
  <2>3. more \in Seq(Messages) /\ Len(more) = l
    BY <2>1, <2>2, SeqDef, LenProperties
  <2> QED BY <1>3, <2>3
<1> HIDE DEF more
<1>6. more # <<>>
  BY <1>5, EmptySeq
<1>7. \A k \in 1..Len(more): \A j \in k..Len(more): more[j].role = "tool"
  <2>1. \A k \in 1..l: \A j \in k..l: j \in 1..l
    OBVIOUS
  <2> QED BY <1>5, <2>1
<1>8. \A k \in 1..Len(more): more[k].id = n + k /\ ~more[k].met
  BY <1>5
<1> QED BY <1>2, <1>4, <1>5, <1>6, <1>7, <1>8, AddingStep

\* The node sees the tail of the thread, so that the tail is looked at: up to the
\* message that blocks, which is a result of the same call.
LEMMA AgentNodeStep ==
  ASSUME Inv, AgentNode
  PROVE  Inv'
<1>1. PICK fails \in BOOLEAN:
        LET old == IF OverThreshold(history) THEN Old(history, keep) ELSE {}
            rest == Rest(history, old)
            seen == IF old = {} \/ fails THEN history
                    ELSE IF summarizes THEN WithSummary(rest, Summary(old)) ELSE rest
            guarded == Guarded(seen, "before")
        IN /\ stage = "agent"
           /\ stage' = IF guarded.blocked THEN "idle" ELSE "model"
           /\ view' = IF guarded.blocked THEN <<>> ELSE guarded.value
           /\ looked' = looked \cup ({seen[i].id: i \in guarded.looked} \ {0})
           /\ UNCHANGED <<config, history>>
  BY Zenon DEF AgentNode
<1> DEFINE over == IF OverThreshold(history) THEN Old(history, keep) ELSE {}
           old == IF fails THEN {} ELSE over
           seen == IF over = {} \/ fails THEN history
                   ELSE IF summarizes THEN WithSummary(Rest(history, over), Summary(over))
                   ELSE Rest(history, over)
           guarded == Guarded(seen, "before")
<1>2. /\ stage = "agent"
      /\ stage' = IF guarded.blocked THEN "idle" ELSE "model"
      /\ view' = IF guarded.blocked THEN <<>> ELSE guarded.value
      /\ looked' = looked \cup ({seen[i].id: i \in guarded.looked} \ {0})
      /\ UNCHANGED <<config, history>>
  BY <1>1, Zenon
<1>3. /\ Typed /\ keep \in Nat /\ summarizes \in BOOLEAN /\ history # <<>>
      /\ looked \in SUBSET DOMAIN history
  BY <1>2 DEF Inv, Typed
<1>4. LeftOut(old)
  BY DEF LeftOut
<1>5. seen = IF old = {} THEN history
             ELSE IF summarizes THEN WithSummary(Rest(history, old), Summary(old))
             ELSE Rest(history, old)
  <2> HIDE DEF over
  <2> QED OBVIOUS
<1> HIDE DEF old, seen
<1>6. Shows(seen, old)
  BY <1>3, <1>4, <1>5, SeenShows
<1>7. /\ seen \in Seq(Messages) /\ DOMAIN seen = 1..Len(seen)
      /\ \A k \in 1..Len(seen): seen[k].id # 0 =>
           seen[k].id \in DOMAIN history /\ seen[k] = history[seen[k].id]
  <2>1. seen \in Seq(Messages)
    BY <1>6 DEF Shows, Tells
  <2>2. DOMAIN seen = 1..Len(seen)
    BY <2>1, LenProperties
  <2> QED BY <1>6, <2>1, <2>2 DEF Shows, Tells
<1>8. /\ guarded.value \in Seq(Messages) /\ Len(guarded.value) = Len(seen)
      /\ \A k \in 1..Len(seen): guarded.value[k].id = seen[k].id /\ guarded.value[k].of = seen[k].of
      /\ guarded.looked \in SUBSET (1..Len(seen))
      /\ (seen # <<>> /\ "before" \in places) =>
           \A k \in TailStart(seen)..Len(seen):
             k \in guarded.looked \/ \E j \in guarded.looked: /\ TailStart(seen) <= j /\ j < k
                                                              /\ seen[j].bad
  BY <1>3, <1>7, GuardedProperties
<1> DEFINE value == guarded.value
           blocked == guarded.blocked
           places1 == guarded.looked
<1>9. /\ places' = places /\ severity' = severity /\ warnOnly' = warnOnly /\ keep' = keep
      /\ summarizes' = summarizes /\ history' = history
      /\ stage' \in {"idle", "model"}
      /\ stage' = "model" => view' = value
      /\ looked' = looked \cup ({seen[i].id: i \in places1} \ {0})
  <2>1. UNCHANGED config
    BY <1>2
  <2>2. /\ places' = places /\ severity' = severity /\ warnOnly' = warnOnly /\ keep' = keep
        /\ summarizes' = summarizes
    BY <2>1 DEF config
  <2> HIDE DEF guarded
  <2> QED BY <1>2, <2>2
<1>10. DOMAIN value = 1..Len(seen)
  BY <1>8, LenProperties
<1> HIDE DEF guarded, value, blocked, places1
<1>11. looked' \in SUBSET DOMAIN history /\ looked \in SUBSET looked'
  <2>1. \A k \in places1: seen[k].id # 0 => seen[k].id \in DOMAIN history
    BY <1>7, <1>8 DEF places1
  <2> QED BY <1>3, <1>9, <2>1
<1>12. Typed'
  BY <1>9, <1>11 DEF Inv, Typed
<1>13. Handled'
  BY <1>9 DEF Inv, Handled, OffencesAreHandled
<1>14. Viewed'
  <2> SUFFICES ASSUME stage' = "model" PROVE Viewed'
    BY DEF Viewed
  <2>1. value \in Seq(Messages)
        /\ \A k \in DOMAIN seen: value[k].id = seen[k].id /\ value[k].of = seen[k].of
    BY <1>7, <1>8 DEF value
  <2>2. DOMAIN value = DOMAIN seen
    BY <1>7, <1>10
  <2>3. PICK o, v, w: o = old /\ v = value /\ w = seen
    OBVIOUS
  <2>4. Tells(w, o) /\ LeftOut(o)
    BY <1>4, <1>6, <2>3 DEF Shows
  <2>5. /\ v \in Seq(Messages) /\ DOMAIN v = DOMAIN w
        /\ \A k \in DOMAIN w: v[k].id = w[k].id /\ v[k].of = w[k].of
    BY <2>1, <2>2, <2>3
  <2>6. Tells(v, o)
    <3>1. CASE summarizes /\ o # {}
      <4>1. PICK p \in DOMAIN w: \A k \in DOMAIN w: (w[k].id = 0) <=> (k = p)
        BY <2>4, <3>1 DEF Tells
      <4>2. p \in DOMAIN v /\ \A k \in DOMAIN v: (v[k].id = 0) <=> (k = p)
        BY <2>5, <4>1
      <4> QED BY <2>4, <2>5, <3>1, <4>2, ZenonT(60) DEF Tells
    <3>2. CASE ~(summarizes /\ o # {})
      BY <2>4, <2>5, <3>2, ZenonT(60) DEF Tells
    <3> QED BY <3>1, <3>2
  <2>7. history' = history /\ keep' = keep /\ summarizes' = summarizes /\ view' = v
    BY <1>9, <2>3
  <2>8. Tells(view, o)'
    BY <2>6, <2>7, ZenonT(60) DEF Tells
  <2>9. LeftOut(o)'
    BY <2>4, <2>7, Zenon DEF LeftOut
  <2> QED BY <2>8, <2>9 DEF Viewed
<1>15. Covered'
  <2> SUFFICES ASSUME "before" \in places, keep # 0, NEW i \in DOMAIN history PROVE IsCovered(i)'
    BY <1>9 DEF Covered
  <2>1. CASE IsCovered(i)
    BY <1>3, <1>9, <1>11, <2>1, StaysCovered
  <2>2. CASE ~IsCovered(i)
    <3>1. i \in TailStart(history)..Len(history) /\ history[i].role \in {"human", "tool"}
      <4>1. /\ Len(history) \in Nat /\ DOMAIN history = 1..Len(history)
            /\ TailStart(history) \in 1..Len(history)
        <5>1. history \in Seq(Messages)
          BY <1>3 DEF Typed
        <5> QED BY <1>3, <5>1, PlacesAreNumbers, TailStartProperties
      <4>2. ~(i < TailStart(history))
        BY <2>2 DEF Inv, Covered
      <4>3. history[i].role \in {"human", "tool"}
        BY <2>2 DEF IsCovered
      <4> QED BY <4>1, <4>2, <4>3
    <3>2. /\ seen # <<>>
          /\ \E k \in TailStart(seen)..Len(seen):
               /\ seen[k].id = i
               /\ \A j \in TailStart(seen)..k - 1:
                    /\ seen[j].id \in DOMAIN history /\ seen[j] = history[seen[j].id]
                    /\ SameCall(seen[j].id, i)
      BY <1>3, <1>4, <1>6, <3>1, TailIsShown
    <3>3. PICK k \in TailStart(seen)..Len(seen):
            /\ seen[k].id = i
            /\ \A j \in TailStart(seen)..k - 1:
                 /\ seen[j].id \in DOMAIN history /\ seen[j] = history[seen[j].id]
                 /\ SameCall(seen[j].id, i)
      BY <3>2
    <3>4. \A h \in DOMAIN history: h # 0
      BY <1>3, PlacesAreNumbers
    <3>5. CASE k \in places1
      <4>1. i \in looked'
        BY <1>9, <3>3, <3>4, <3>5
      <4> QED BY <4>1 DEF IsCovered
    <3>6. CASE k \notin places1
      <4>1. PICK j \in places1: TailStart(seen) <= j /\ j < k /\ seen[j].bad
        BY <1>8, <3>2, <3>3, <3>6 DEF places1
      <4>2. j \in TailStart(seen)..k - 1
        <5>1. TailStart(seen) \in Nat /\ Len(seen) \in Nat
          BY <1>7, <3>2, TailStartProperties
        <5>2. j \in 1..Len(seen)
          BY <1>8, <4>1 DEF places1
        <5> QED BY <3>3, <4>1, <5>1, <5>2
      <4>3. PICK h \in DOMAIN history:
              h = seen[j].id /\ seen[j] = history[h] /\ SameCall(h, i)
        BY <3>3, <4>2
      <4>4. h \in looked' /\ history[h].bad
        BY <1>9, <3>4, <4>1, <4>3
      <4>5. history' = history
        BY <1>9
      <4>6. SameCall(h, i)' /\ history'[h].bad
        BY <4>3, <4>4, <4>5, Zenon DEF SameCall
      <4> QED BY <4>4, <4>6 DEF IsCovered
    <3> QED BY <3>5, <3>6
  <2> QED BY <2>1, <2>2
<1> QED BY <1>12, <1>13, <1>14, <1>15 DEF Inv

\* Every step keeps the invariant.
LEMMA NextInv == Inv /\ [Next]_vars => Inv'
<1> SUFFICES ASSUME Inv, [Next]_vars PROVE Inv'
  OBVIOUS
<1>1. CASE Input
  BY <1>1, InputStep
<1>2. CASE AgentNode
  BY <1>2, AgentNodeStep
<1>3. CASE Model
  BY <1>3, ModelStep
<1>4. CASE ModelFails
  <2>1. /\ UNCHANGED <<config, history, looked>> /\ stage = "model" /\ stage' \in {"idle", "model"}
        /\ stage' = "model" => view' = view
    BY <1>4, Zenon DEF ModelFails
  <2> QED BY <2>1, RestingStep
<1>5. CASE Extract
  <2>1. UNCHANGED <<config, history, looked>> /\ stage = "model" /\ stage' = "output"
    BY <1>5, Zenon DEF Extract
  <2> QED BY <2>1, RestingStep
<1>6. CASE Tools
  BY <1>6, ToolsStep
<1>7. CASE ToolBlocked
  BY <1>7, RestingStep DEF ToolBlocked
<1>8. CASE Output
  BY <1>8, RestingStep DEF Output
<1>9. CASE UNCHANGED vars
  <2>1. /\ UNCHANGED <<config, stage, history, view, looked>>
    BY <1>9 DEF vars
  <2>2. /\ places' = places /\ severity' = severity /\ warnOnly' = warnOnly /\ keep' = keep
        /\ summarizes' = summarizes /\ history' = history /\ looked' = looked
        /\ stage' = stage /\ view' = view
    BY <2>1 DEF config
  <2>3. Typed' /\ Handled'
    BY <2>2 DEF Inv, Typed, Handled, OffencesAreHandled
  <2>4. Viewed'
    <3> SUFFICES ASSUME stage' = "model" PROVE Viewed'
      BY DEF Viewed
    <3>1. PICK old: LeftOut(old) /\ Tells(view, old)
      BY <2>2 DEF Inv, Viewed
    <3>2. LeftOut(old)' /\ Tells(view, old)'
      BY <2>2, <3>1, ZenonT(60) DEF LeftOut, Tells
    <3> QED BY <3>2 DEF Viewed
  <2>5. Covered'
    BY <2>2, Zenon DEF Inv, Covered, IsCovered, SameCall
  <2> QED BY <2>3, <2>4, <2>5 DEF Inv
<1> QED BY <1>1, <1>2, <1>3, <1>4, <1>5, <1>6, <1>7, <1>8, <1>9, Zenon DEF Next

-----------------------------------------------------------------------------
(* What goes through the gate of a stream.                                 *)

Nodes == {"agent", "tools"}

Items == [mode: Modes \cup {"structured"}, node: Nodes, messages: Seq(Messages), value: Nat]

Gates ==
  [requested: SUBSET Modes, single: BOOLEAN, passthrough: BOOLEAN,
   guarded: SUBSET Nodes, internal: SUBSET Nodes, structured: SUBSET Nodes, named: SUBSET Nodes,
   hold: SUBSET Nodes]

\* All of a gate but which nodes are held back.
SameGate(g, f) ==
  /\ f \in Gates
  /\ f.requested = g.requested /\ f.single = g.single /\ f.passthrough = g.passthrough
  /\ f.guarded = g.guarded /\ f.internal = g.internal
  /\ f.structured = g.structured /\ f.named = g.named

IsToken(item) == item.mode = "messages"

\* Items among which there is one of a mode at the most.
Once(items, mode) ==
  \A k, l \in DOMAIN items: (items[k].mode = mode /\ items[l].mode = mode) => k = l

\* The modes in which the gate says something of its own.
Own == {"messages", "structured"}

\* The message an update ends with is shown in place of its tokens.
IsFinal(out, item) ==
  /\ IsToken(out) /\ item.messages # <<>>
  /\ out.messages = <<Chunk(Last(item.messages))>> /\ Last(item.messages).role \in {"ai", "call"}

\* The structured value of an update is shown.
IsValue(out, g, item) ==
  out.mode = "structured" /\ out.value = item.value /\ ShowsValue(g, item)

\* What an item makes of a gate, and what comes out.
FedIs(g, item, fed) ==
  /\ SameGate(g, fed.gate)
  /\ fed.out \in Seq(Items)
  /\ Withholds(g, item) => fed.out = <<>>
  /\ (Withholds(g, item) /\ item.node \notin g.internal) => item.node \in fed.gate.hold
  /\ \A k \in DOMAIN fed.out:
       /\ fed.out[k].node = item.node
       /\ \/ fed.out[k] = item
          \/ item.mode = "updates" /\ (IsFinal(fed.out[k], item) \/ IsValue(fed.out[k], g, item))
  /\ \A mode \in Own: Once(fed.out, mode)
  /\ (~Withholds(g, item) /\ item.mode \in g.requested) => \E k \in DOMAIN fed.out: fed.out[k] = item
  /\ (~Withholds(g, item) /\ item.mode = "updates") =>
       /\ (item.node \in g.hold /\ "messages" \in g.requested /\ item.messages # <<>>
             /\ Last(item.messages).role \in {"ai", "call"}) =>
            \E k \in DOMAIN fed.out: IsFinal(fed.out[k], item)
       /\ ShowsValue(g, item) => \E k \in DOMAIN fed.out: IsValue(fed.out[k], g, item)

\* A sequence of none or one.
LEMMA NoneOrOne ==
  ASSUME NEW A, NEW a \in A
  PROVE  /\ <<a>> \in Seq(A) /\ DOMAIN <<a>> = {1} /\ <<a>>[1] = a
         /\ <<>> \in Seq(A) /\ DOMAIN <<>> = {}
OBVIOUS

\* A chunk has the content and the id of the message it is made of.
LEMMA ChunkIs ==
  ASSUME NEW m \in Messages
  PROVE  /\ Chunk(m) \in Messages /\ Chunk(m).id = m.id /\ Chunk(m).role = "ai"
         /\ Chunk(m).text = m.text /\ Chunk(m).bad = m.bad
BY DEF Chunk, Messages, Roles

LEMMA LastTyped ==
  ASSUME NEW messages \in Seq(Messages), messages # <<>>
  PROVE  Last(messages) \in Messages
<1>1. Len(messages) \in Nat /\ Len(messages) # 0
  BY LenProperties, EmptySeq
<1>2. messages[Len(messages)] \in Messages
  BY <1>1, ElementOfSeq
<1> QED BY <1>2 DEF Last

LEMMA FinalIs ==
  ASSUME NEW item \in Items, NEW chunk,
         chunk = Item("messages", item.node, <<Chunk(Last(item.messages))>>, 0)
  PROVE  \/ /\ FinalChunk(item) = <<>>
            /\ item.messages = <<>> \/ Last(item.messages).role \notin {"ai", "call"}
         \/ FinalChunk(item) = <<chunk>> /\ chunk \in Items /\ IsFinal(chunk, item)
<1>1. CASE item.messages # <<>> /\ Last(item.messages).role \in {"ai", "call"}
  <2>1. item.messages \in Seq(Messages) /\ item.node \in Nodes
    BY DEF Items
  <2>2. Last(item.messages) \in Messages
    BY <1>1, <2>1, LastTyped
  <2>3. <<Chunk(Last(item.messages))>> \in Seq(Messages)
    BY <2>2, ChunkIs
  <2>4. chunk \in Items
    BY <2>1, <2>3 DEF Item, Items, Modes
  <2>5. IsFinal(chunk, item)
    BY <1>1 DEF IsFinal, Item, IsToken
  <2> QED BY <1>1, <2>4, <2>5 DEF FinalChunk
<1>2. CASE ~(item.messages # <<>> /\ Last(item.messages).role \in {"ai", "call"})
  BY <1>2 DEF FinalChunk
<1> QED BY <1>1, <1>2

\* The members of a concatenation and where they are.
LEMMA ConcatMembers ==
  ASSUME NEW A, NEW s \in Seq(A), NEW t \in Seq(A)
  PROVE  /\ s \o t \in Seq(A)
         /\ \A k \in DOMAIN s: k \in DOMAIN (s \o t) /\ (s \o t)[k] = s[k]
         /\ \A k \in DOMAIN t: Len(s) + k \in DOMAIN (s \o t) /\ (s \o t)[Len(s) + k] = t[k]
         /\ \A k \in DOMAIN (s \o t): k \in DOMAIN s \/ \E j \in DOMAIN t: k = Len(s) + j
         /\ \A k \in DOMAIN s, j \in DOMAIN t: k # Len(s) + j
<1>1. /\ Len(s) \in Nat /\ Len(t) \in Nat /\ DOMAIN s = 1..Len(s) /\ DOMAIN t = 1..Len(t)
  BY LenProperties
<1>2. /\ s \o t \in Seq(A) /\ Len(s \o t) = Len(s) + Len(t)
      /\ \A i \in 1..Len(s) + Len(t): (s \o t)[i] = IF i <= Len(s) THEN s[i] ELSE t[i - Len(s)]
  BY ConcatProperties
<1>3. DOMAIN (s \o t) = 1..Len(s) + Len(t)
  BY <1>2, LenProperties
<1>4. ASSUME NEW k \in DOMAIN s PROVE k \in DOMAIN (s \o t) /\ (s \o t)[k] = s[k]
  BY <1>1, <1>2, <1>3
<1>5. ASSUME NEW k \in DOMAIN t
      PROVE  Len(s) + k \in DOMAIN (s \o t) /\ (s \o t)[Len(s) + k] = t[k]
  <2>1. Len(s) + k \in 1..Len(s) + Len(t) /\ ~(Len(s) + k <= Len(s)) /\ Len(s) + k - Len(s) = k
    BY <1>1
  <2> QED BY <1>2, <1>3, <2>1
<1>6. ASSUME NEW k \in DOMAIN (s \o t), k \notin DOMAIN s PROVE \E j \in DOMAIN t: k = Len(s) + j
  <2>1. k \in 1..Len(s) + Len(t) /\ k \notin 1..Len(s)
    BY <1>1, <1>3, <1>6
  <2>2. k - Len(s) \in 1..Len(t) /\ k = Len(s) + (k - Len(s))
    BY <1>1, <2>1
  <2> QED BY <1>1, <2>2
<1>7. \A k \in DOMAIN s, j \in DOMAIN t: k # Len(s) + j
  BY <1>1
<1> QED BY <1>2, <1>4, <1>5, <1>6, <1>7

\* There is one of a mode at the most among two kinds of items, if the one kind has
\* none and the other one at the most.
LEMMA OnceOfTwo ==
  ASSUME NEW A, NEW s \in Seq(A), NEW t \in Seq(A), NEW mode, Once(s, mode), Once(t, mode),
         \/ \A k \in DOMAIN s: s[k].mode # mode
         \/ \A k \in DOMAIN t: t[k].mode # mode
  PROVE  Once(s \o t, mode)
<1> SUFFICES ASSUME NEW k \in DOMAIN (s \o t), NEW l \in DOMAIN (s \o t),
                    (s \o t)[k].mode = mode, (s \o t)[l].mode = mode
             PROVE  k = l
  BY DEF Once
<1>1. /\ \A i \in DOMAIN s: (s \o t)[i] = s[i]
      /\ \A i \in DOMAIN t: (s \o t)[Len(s) + i] = t[i]
      /\ \A i \in DOMAIN (s \o t): i \in DOMAIN s \/ \E j \in DOMAIN t: i = Len(s) + j
  BY ConcatMembers, SMTT(40)
<1> DEFINE u == s \o t
<1>2. ASSUME NEW i \in DOMAIN u, u[i].mode = mode
      PROVE  \/ i \in DOMAIN s /\ s[i].mode = mode
             \/ \E j \in DOMAIN t: i = Len(s) + j /\ t[j].mode = mode
  BY <1>1, <1>2
<1> HIDE DEF u
<1>3. /\ (k \in DOMAIN s /\ s[k].mode = mode) \/ \E j \in DOMAIN t: k = Len(s) + j /\ t[j].mode = mode
      /\ (l \in DOMAIN s /\ s[l].mode = mode) \/ \E j \in DOMAIN t: l = Len(s) + j /\ t[j].mode = mode
  BY <1>2 DEF u
<1> QED BY <1>3, Zenon DEF Once

\* feed: what is withheld, what comes out in its place and what comes through.
LEMMA FeedIs ==
  ASSUME NEW g \in Gates, NEW item \in Items, item.mode \in Modes
  PROVE  FedIs(g, item, Feed(g, item))
<1> DEFINE fed == Feed(g, item)
<1>1. CASE Withholds(g, item)
  <2>1. /\ fed.gate = IF item.node \in g.internal THEN g
                      ELSE [g EXCEPT !.hold = @ \cup {item.node}]
        /\ fed.out = <<>>
    BY <1>1 DEF Feed
  <2>2. SameGate(g, fed.gate)
    <3>1. [g EXCEPT !.hold = @ \cup {item.node}] \in Gates
      BY DEF Gates, Items
    <3> QED BY <2>1, <3>1 DEF SameGate, Gates
  <2>3. item.node \notin g.internal => item.node \in fed.gate.hold
    BY <2>1 DEF Gates
  <2>4. fed.out \in Seq(Items) /\ DOMAIN fed.out = {}
    BY <2>1
  <2>5. \A mode \in Own: Once(fed.out, mode)
    BY <2>4 DEF Once
  <2> HIDE DEF fed
  <2> QED BY <1>1, <2>1, <2>2, <2>3, <2>4, <2>5 DEF FedIs, fed
<1>2. CASE ~Withholds(g, item)
  <2> DEFINE final == IF item.mode = "updates" THEN HeldBack(g, item) ELSE <<>>
             structured == IF item.mode = "updates" THEN Structured(g, item) ELSE <<>>
             through == IF item.mode \in g.requested THEN <<item>> ELSE <<>>
  <2>1. fed.gate = IF item.mode = "updates" THEN [g EXCEPT !.hold = @ \ {item.node}] ELSE g
    BY <1>2 DEF Feed
  <2>2. SameGate(g, fed.gate)
    <3>1. [g EXCEPT !.hold = @ \ {item.node}] \in Gates
      BY DEF Gates, Items
    <3> QED BY <2>1, <3>1 DEF SameGate, Gates
  <2>3. /\ final \in Seq(Items) /\ DOMAIN final \subseteq {1}
        /\ \A k \in DOMAIN final: /\ item.mode = "updates" /\ final[k].node = item.node
                                  /\ IsFinal(final[k], item)
        /\ (/\ item.mode = "updates" /\ item.node \in g.hold /\ "messages" \in g.requested
            /\ item.messages # <<>> /\ Last(item.messages).role \in {"ai", "call"}) =>
             \E k \in DOMAIN final: IsFinal(final[k], item)
    <3> DEFINE chunk == Item("messages", item.node, <<Chunk(Last(item.messages))>>, 0)
    <3>1. \/ /\ FinalChunk(item) = <<>>
             /\ item.messages = <<>> \/ Last(item.messages).role \notin {"ai", "call"}
          \/ FinalChunk(item) = <<chunk>> /\ chunk \in Items /\ IsFinal(chunk, item)
      BY FinalIs
    <3>2. chunk.node = item.node
      BY DEF Item
    <3> HIDE DEF chunk
    <3>3. CASE final = <<>>
      <4>1. final \in Seq(Items) /\ DOMAIN final = {}
        <5> HIDE DEF final
        <5> QED BY <3>3
      <4>2. ~(/\ item.mode = "updates" /\ item.node \in g.hold /\ "messages" \in g.requested
              /\ item.messages # <<>> /\ Last(item.messages).role \in {"ai", "call"})
        <5>1. <<chunk>> # <<>>
          OBVIOUS
        <5> QED BY <3>1, <3>3, <5>1 DEF HeldBack
      <4> HIDE DEF final
      <4> QED BY <4>1, <4>2
    <3>4. CASE /\ final = <<chunk>> /\ chunk \in Items /\ IsFinal(chunk, item)
               /\ item.mode = "updates"
      <4>1. final \in Seq(Items) /\ DOMAIN final = {1} /\ final[1] = chunk
        BY <3>4, NoneOrOne
      <4> HIDE DEF final
      <4> QED BY <3>2, <3>4, <4>1
    <3> QED BY <3>1, <3>3, <3>4 DEF HeldBack
  <2>4. /\ structured \in Seq(Items) /\ DOMAIN structured \subseteq {1}
        /\ \A k \in DOMAIN structured:
             /\ item.mode = "updates" /\ structured[k].node = item.node
             /\ IsValue(structured[k], g, item)
        /\ (item.mode = "updates" /\ ShowsValue(g, item)) =>
             \E k \in DOMAIN structured: IsValue(structured[k], g, item)
    <3> DEFINE value == Item("structured", item.node, <<>>, item.value)
    <3>1. /\ value \in Items /\ value.node = item.node
          /\ value.mode = "structured" /\ value.value = item.value
      BY DEF Item, Items
    <3> HIDE DEF value
    <3>2. CASE ~(item.mode = "updates" /\ ShowsValue(g, item))
      <4>1. structured = <<>>
        BY <3>2 DEF Structured
      <4>2. structured \in Seq(Items) /\ DOMAIN structured = {}
        <5> HIDE DEF structured
        <5> QED BY <4>1
      <4> QED BY <3>2, <4>2
    <3>3. CASE item.mode = "updates" /\ ShowsValue(g, item)
      <4>1. structured = <<value>>
        BY <3>3, Zenon DEF value, Structured
      <4>2. structured \in Seq(Items) /\ DOMAIN structured = {1} /\ structured[1] = value
        BY <3>1, <4>1, NoneOrOne
      <4> HIDE DEF structured
      <4>3. IsValue(value, g, item)
        BY <3>1, <3>3 DEF IsValue
      <4> QED BY <3>1, <3>3, <4>2, <4>3
    <3> QED BY <3>2, <3>3
  <2>5. /\ through \in Seq(Items) /\ DOMAIN through \subseteq {1}
        /\ \A k \in DOMAIN through: through[k] = item
        /\ item.mode \in g.requested => \E k \in DOMAIN through: through[k] = item
    <3>1. CASE item.mode \notin g.requested
      <4>1. through \in Seq(Items) /\ DOMAIN through = {}
        BY <3>1
      <4> QED BY <3>1, <4>1
    <3>2. CASE item.mode \in g.requested
      <4>1. through \in Seq(Items) /\ DOMAIN through = {1} /\ through[1] = item
        BY <3>2, NoneOrOne
      <4> HIDE DEF through
      <4> QED BY <4>1
    <3> QED BY <3>1, <3>2
  <2>6. fed.out = (final \o structured) \o through
    <3>1. CASE item.mode = "updates"
      BY <1>2, <3>1 DEF Feed, Completion
    <3>2. CASE item.mode # "updates"
      <4>1. fed.out = <<>> \o through /\ final = <<>> /\ structured = <<>>
        BY <1>2, <3>2 DEF Feed
      <4>2. <<>> \o <<>> = <<>>
        OBVIOUS
      <4> QED BY <4>1, <4>2
    <3> QED BY <3>1, <3>2
  <2> HIDE DEF fed, final, structured, through
  <2> DEFINE added == final \o structured
  <2>7. /\ added \in Seq(Items)
        /\ \A k \in DOMAIN final: k \in DOMAIN added /\ added[k] = final[k]
        /\ \A k \in DOMAIN structured: /\ Len(final) + k \in DOMAIN added
                                       /\ added[Len(final) + k] = structured[k]
        /\ \A k \in DOMAIN added: k \in DOMAIN final \/ \E j \in DOMAIN structured: k = Len(final) + j
    <3>1. final \in Seq(Items) /\ structured \in Seq(Items)
      BY <2>3, <2>4
    <3> QED BY ONLY <3>1, ConcatMembers, SMTT(40)
  <2>8. /\ \A k \in DOMAIN final: final[k].mode = "messages"
        /\ \A k \in DOMAIN structured: structured[k].mode = "structured"
    BY <2>3, <2>4 DEF IsFinal, IsToken, IsValue
  <2>9. ASSUME NEW mode \in Own PROVE Once(added, mode)
    <3>1. Once(final, mode) /\ Once(structured, mode)
      BY <2>3, <2>4 DEF Once
    <3>2. \/ \A k \in DOMAIN final: final[k].mode # mode
          \/ \A k \in DOMAIN structured: structured[k].mode # mode
      BY <2>8
    <3> QED BY <2>3, <2>4, <3>1, <3>2, OnceOfTwo
  <2>10. \A k \in DOMAIN added:
           /\ item.mode = "updates" /\ added[k].node = item.node /\ added[k].mode \in Own
           /\ IsFinal(added[k], item) \/ IsValue(added[k], g, item)
    BY <2>3, <2>4, <2>7, <2>8 DEF Own
  <2> HIDE DEF added
  <2>11. fed.out = added \o through
    BY <2>6 DEF added
  <2>12. /\ fed.out \in Seq(Items)
         /\ \A k \in DOMAIN added: k \in DOMAIN fed.out /\ fed.out[k] = added[k]
         /\ \A k \in DOMAIN through: /\ Len(added) + k \in DOMAIN fed.out
                                     /\ fed.out[Len(added) + k] = through[k]
         /\ \A k \in DOMAIN fed.out: k \in DOMAIN added \/ \E j \in DOMAIN through: k = Len(added) + j
    BY <2>5, <2>7, <2>11, ConcatMembers
  <2>13. ASSUME NEW mode \in Own PROVE Once(fed.out, mode)
    <3>1. Once(added, mode) /\ Once(through, mode)
      BY <2>5, <2>9 DEF Once
    <3>2. \/ \A k \in DOMAIN added: added[k].mode # mode
          \/ \A k \in DOMAIN through: through[k].mode # mode
      <4>1. CASE item.mode = "updates"
        BY <2>5, <4>1 DEF Own
      <4>2. CASE item.mode # "updates"
        BY <2>10, <4>2
      <4> QED BY <4>1, <4>2
    <3> QED BY <2>5, <2>7, <2>11, <3>1, <3>2, OnceOfTwo
  <2>14. \A k \in DOMAIN fed.out:
           /\ fed.out[k].node = item.node
           /\ \/ fed.out[k] = item
              \/ item.mode = "updates" /\ (IsFinal(fed.out[k], item) \/ IsValue(fed.out[k], g, item))
    BY <2>5, <2>10, <2>12
  <2>15. item.mode \in g.requested => \E k \in DOMAIN fed.out: fed.out[k] = item
    BY <2>5, <2>12
  <2>16. \A k \in DOMAIN final: \E l \in DOMAIN fed.out: fed.out[l] = final[k]
    BY <2>7, <2>12
  <2>17. \A k \in DOMAIN structured: \E l \in DOMAIN fed.out: fed.out[l] = structured[k]
    BY <2>7, <2>12
  <2>18. item.mode = "updates" =>
           /\ (item.node \in g.hold /\ "messages" \in g.requested /\ item.messages # <<>>
                 /\ Last(item.messages).role \in {"ai", "call"}) =>
                \E k \in DOMAIN fed.out: IsFinal(fed.out[k], item)
           /\ ShowsValue(g, item) => \E k \in DOMAIN fed.out: IsValue(fed.out[k], g, item)
    BY <2>3, <2>4, <2>16, <2>17
  <2> QED BY <1>2, <2>2, <2>12, <2>13, <2>14, <2>15, <2>18 DEF FedIs, fed
<1> QED BY <1>1, <1>2

\* What an item adds to what has come out before it.
GoesOn(fed, item, f) ==
  /\ SameGate(fed.gate, f.gate)
  /\ f.out \in Seq(Items)
  /\ \A k \in DOMAIN fed.out: k \in DOMAIN f.out /\ f.out[k] = fed.out[k]
  /\ \A k \in DOMAIN f.out \ DOMAIN fed.out:
       /\ f.out[k].node = item.node /\ ~Withholds(fed.gate, item)
       /\ \/ f.out[k] = item
          \/ item.mode = "updates" /\ (IsFinal(f.out[k], item) \/ IsValue(f.out[k], fed.gate, item))
  /\ \A mode \in Own:
       (/\ Once(fed.out, mode)
        /\ item.mode = "values" \/ \A k \in DOMAIN fed.out: fed.out[k].mode # mode) =>
         Once(f.out, mode)
  /\ item.mode \in Subscribed(fed.gate) =>
       /\ (Withholds(fed.gate, item) /\ item.node \notin fed.gate.internal) => item.node \in f.gate.hold
       /\ (~Withholds(fed.gate, item) /\ item.mode \in fed.gate.requested) =>
            \E k \in DOMAIN f.out: f.out[k] = item
       /\ (~Withholds(fed.gate, item) /\ item.mode = "updates") =>
            /\ (item.node \in fed.gate.hold /\ "messages" \in fed.gate.requested /\ item.messages # <<>>
                  /\ Last(item.messages).role \in {"ai", "call"}) =>
                 \E k \in DOMAIN f.out: IsFinal(f.out[k], item)
            /\ ShowsValue(fed.gate, item) => \E k \in DOMAIN f.out: IsValue(f.out[k], fed.gate, item)

LEMMA ThroughGoesOn ==
  ASSUME NEW fed, fed.gate \in Gates, fed.out \in Seq(Items), NEW item \in Items, item.mode \in Modes
  PROVE  GoesOn(fed, item, Through(fed, item))
<1> DEFINE f == Through(fed, item)
           step == Feed(fed.gate, item)
<1>1. FedIs(fed.gate, item, step)
  BY FeedIs
<1>2. CASE item.mode \notin Subscribed(fed.gate)
  <2>1. f = fed
    BY <1>2 DEF Through
  <2>2. SameGate(fed.gate, fed.gate)
    BY DEF SameGate
  <2> HIDE DEF f
  <2> QED BY <1>2, <2>1, <2>2 DEF GoesOn, f
<1>3. CASE item.mode \in Subscribed(fed.gate)
  <2>1. f.gate = step.gate /\ f.out = fed.out \o step.out
    BY <1>3 DEF Through
  <2> HIDE DEF f, step
  <2>2. step.out \in Seq(Items) /\ \A mode \in Own: Once(step.out, mode)
    BY <1>1 DEF FedIs
  <2>3. /\ f.out \in Seq(Items)
        /\ \A k \in DOMAIN fed.out: k \in DOMAIN f.out /\ f.out[k] = fed.out[k]
        /\ \A k \in DOMAIN step.out: /\ Len(fed.out) + k \in DOMAIN f.out
                                     /\ f.out[Len(fed.out) + k] = step.out[k]
        /\ \A k \in DOMAIN f.out: k \in DOMAIN fed.out \/ \E j \in DOMAIN step.out: k = Len(fed.out) + j
    <3> DEFINE s == fed.out
               t == step.out
    <3>1. s \in Seq(Items) /\ t \in Seq(Items) /\ f.out = s \o t
      BY <2>1, <2>2
    <3> HIDE DEF s, t
    <3>2. /\ f.out \in Seq(Items)
          /\ \A k \in DOMAIN s: k \in DOMAIN f.out /\ f.out[k] = s[k]
          /\ \A k \in DOMAIN t: Len(s) + k \in DOMAIN f.out /\ f.out[Len(s) + k] = t[k]
          /\ \A k \in DOMAIN f.out: k \in DOMAIN s \/ \E j \in DOMAIN t: k = Len(s) + j
      BY ONLY <3>1, ConcatMembers
    <3> QED BY <3>2 DEF s, t
  <2>4. \A k \in DOMAIN step.out: \E l \in DOMAIN f.out: f.out[l] = step.out[k]
    BY <2>3
  <2>5. \A k \in DOMAIN f.out \ DOMAIN fed.out: \E j \in DOMAIN step.out: f.out[k] = step.out[j]
    BY <2>3
  <2>6. ASSUME NEW k \in DOMAIN step.out
        PROVE  /\ step.out[k].node = item.node /\ ~Withholds(fed.gate, item)
               /\ \/ step.out[k] = item
                  \/ item.mode = "updates" /\ (IsFinal(step.out[k], item) \/ IsValue(step.out[k], fed.gate, item))
    <3>1. DOMAIN <<>> = {}
      OBVIOUS
    <3> QED BY <1>1, <3>1 DEF FedIs
  <2>7. ASSUME NEW mode \in Own, Once(fed.out, mode),
               item.mode = "values" \/ \A k \in DOMAIN fed.out: fed.out[k].mode # mode
        PROVE  Once(f.out, mode)
    <3>1. item.mode = "values" => \A k \in DOMAIN step.out: step.out[k].mode # mode
      BY <2>6 DEF Own
    <3> QED BY <2>1, <2>2, <2>7, <3>1, OnceOfTwo, SMTT(40)
  <2>8. /\ SameGate(fed.gate, step.gate)
        /\ (Withholds(fed.gate, item) /\ item.node \notin fed.gate.internal) => item.node \in step.gate.hold
    BY <1>1 DEF FedIs
  <2>9. /\ (~Withholds(fed.gate, item) /\ item.mode \in fed.gate.requested) =>
             \E k \in DOMAIN step.out: step.out[k] = item
        /\ (~Withholds(fed.gate, item) /\ item.mode = "updates") =>
             /\ (item.node \in fed.gate.hold /\ "messages" \in fed.gate.requested /\ item.messages # <<>>
                   /\ Last(item.messages).role \in {"ai", "call"}) =>
                  \E k \in DOMAIN step.out: IsFinal(step.out[k], item)
             /\ ShowsValue(fed.gate, item) =>
                  \E k \in DOMAIN step.out: IsValue(step.out[k], fed.gate, item)
    BY <1>1 DEF FedIs
  <2>10. /\ (~Withholds(fed.gate, item) /\ item.mode \in fed.gate.requested) =>
              \E k \in DOMAIN f.out: f.out[k] = item
         /\ (~Withholds(fed.gate, item) /\ item.mode = "updates") =>
              /\ (item.node \in fed.gate.hold /\ "messages" \in fed.gate.requested /\ item.messages # <<>>
                    /\ Last(item.messages).role \in {"ai", "call"}) =>
                   \E k \in DOMAIN f.out: IsFinal(f.out[k], item)
              /\ ShowsValue(fed.gate, item) =>
                   \E k \in DOMAIN f.out: IsValue(f.out[k], fed.gate, item)
    BY <2>4, <2>9
  <2>11. \A k \in DOMAIN f.out \ DOMAIN fed.out:
           /\ f.out[k].node = item.node /\ ~Withholds(fed.gate, item)
           /\ \/ f.out[k] = item
              \/ item.mode = "updates" /\ (IsFinal(f.out[k], item) \/ IsValue(f.out[k], fed.gate, item))
    BY <2>5, <2>6
  <2> QED BY <2>1, <2>3, <2>7, <2>8, <2>10, <2>11 DEF GoesOn, f
<1> QED BY <1>2, <1>3

\* The tokens of a node: they are shown unless the node is internal or guarded,
\* and in a stream of messages a guarded node's are held back.
TokensAre(node, messages, f) ==
  /\ SameGate(gate, f.gate)
  /\ f.out \in Seq(Items)
  /\ \A k \in DOMAIN f.out: f.out[k] = Item("messages", node, messages, 0)
  /\ node \in gate.internal \cup gate.guarded => DOMAIN f.out = {}
  /\ (node \in gate.guarded \ gate.internal /\ "messages" \in gate.requested) => node \in f.gate.hold
  /\ (node \notin gate.internal \cup gate.guarded /\ "messages" \in gate.requested) =>
       \E k \in DOMAIN f.out: f.out[k] = Item("messages", node, messages, 0)

LEMMA TokensProperties ==
  ASSUME gate \in Gates, NEW node \in Nodes, NEW messages \in Seq(Messages)
  PROVE  TokensAre(node, messages, Tokens(node, messages))
<1> DEFINE fed == [gate |-> gate, out |-> <<>>]
           item == Item("messages", node, messages, 0)
           f == Tokens(node, messages)
<1>1. f = Through(fed, item)
  BY DEF Tokens
<1>2. /\ fed.gate = gate /\ fed.out = <<>> /\ fed.out \in Seq(Items) /\ DOMAIN fed.out = {}
      /\ item \in Items /\ item.mode = "messages" /\ item.node = node /\ item.mode \in Modes
  BY DEF Item, Items, Modes
<1> HIDE DEF f, fed
<1>3. GoesOn(fed, item, f)
  BY <1>1, <1>2, ThroughGoesOn
<1>4. Withholds(gate, item) <=> node \in gate.internal \cup gate.guarded
  BY <1>2 DEF Withholds
<1>5. "messages" \in Subscribed(gate) <=> "messages" \in gate.requested
  BY DEF Subscribed
<1> HIDE DEF item
<1>6. \A k \in DOMAIN f.out: f.out[k] = item /\ ~Withholds(gate, item)
  BY <1>2, <1>3 DEF GoesOn
<1>7. /\ SameGate(gate, f.gate) /\ f.out \in Seq(Items)
      /\ "messages" \in gate.requested =>
           /\ (Withholds(gate, item) /\ node \notin gate.internal) => node \in f.gate.hold
           /\ ~Withholds(gate, item) => \E k \in DOMAIN f.out: f.out[k] = item
  BY <1>2, <1>3, <1>5 DEF GoesOn
<1> QED BY <1>4, <1>6, <1>7 DEF TokensAre, f, item

\* What a node returned: the message it ends with in place of the tokens that were
\* held back, and the structured output.
ReturnedAre(fed, node, messages, value, r) ==
  /\ SameGate(gate, r.gate)
  /\ r.out \in Seq(Items)
  /\ \A k \in DOMAIN fed.out: k \in DOMAIN r.out /\ r.out[k] = fed.out[k]
  /\ \A k \in DOMAIN r.out \ DOMAIN fed.out:
       /\ r.out[k].node = node
       /\ node \in gate.internal => r.out[k].mode = "values"
       /\ IsToken(r.out[k]) => IsFinal(r.out[k], Item("updates", node, messages, value))
       /\ r.out[k].mode = "structured" => IsValue(r.out[k], gate, Item("updates", node, messages, value))
  /\ \A mode \in Own: (\A k \in DOMAIN fed.out: fed.out[k].mode # mode) => Once(r.out, mode)
  /\ (~gate.passthrough /\ node \notin gate.internal) =>
       /\ (node \in fed.gate.hold /\ "messages" \in gate.requested /\ messages # <<>>
             /\ Last(messages).role \in {"ai", "call"}) =>
            \E k \in DOMAIN r.out: IsFinal(r.out[k], Item("updates", node, messages, value))
       /\ ShowsValue(gate, Item("updates", node, messages, value)) =>
            \E k \in DOMAIN r.out: IsValue(r.out[k], gate, Item("updates", node, messages, value))

LEMMA ReturnedProperties ==
  ASSUME NEW fed, SameGate(gate, fed.gate), fed.out \in Seq(Items), NEW node \in Nodes,
         NEW messages \in Seq(Messages), NEW value \in Nat
  PROVE  ReturnedAre(fed, node, messages, value, Returned(fed, node, messages, value))
<1> DEFINE update == Item("updates", node, messages, value)
           state == Item("values", node, messages, value)
           u == Through(fed, update)
           r == Returned(fed, node, messages, value)
<1>1. /\ update \in Items /\ update.mode = "updates" /\ update.node = node
      /\ update.messages = messages
      /\ state \in Items /\ state.mode = "values" /\ state.node = node
      /\ "updates" \in Modes /\ "values" \in Modes
  BY DEF Item, Items, Modes
<1>2. r = Through(u, state)
  BY DEF Returned
<1> HIDE DEF update, state, u, r
<1>3. GoesOn(fed, update, u)
  <2>1. fed.gate \in Gates
    BY DEF SameGate
  <2> QED BY <1>1, <2>1, ThroughGoesOn DEF u
<1>4. u.gate \in Gates /\ u.out \in Seq(Items)
  BY <1>3 DEF GoesOn, SameGate
<1>5. GoesOn(u, state, r)
  BY <1>1, <1>2, <1>4, ThroughGoesOn
<1>6. SameGate(gate, u.gate) /\ SameGate(gate, r.gate) /\ r.out \in Seq(Items)
  <2>1. SameGate(gate, u.gate)
    BY <1>3 DEF GoesOn, SameGate
  <2>2. SameGate(gate, r.gate) /\ r.out \in Seq(Items)
    BY <1>5, <2>1 DEF GoesOn, SameGate
  <2> QED BY <2>1, <2>2
<1>7. /\ \A k \in DOMAIN fed.out: k \in DOMAIN u.out /\ u.out[k] = fed.out[k]
      /\ \A k \in DOMAIN u.out: k \in DOMAIN r.out /\ r.out[k] = u.out[k]
  BY <1>3, <1>5 DEF GoesOn
<1>8. \A out: IsValue(out, fed.gate, update) <=> IsValue(out, gate, update)
  BY DEF IsValue, ShowsValue, SameGate
<1>9. ASSUME NEW k \in DOMAIN u.out \ DOMAIN fed.out
      PROVE  /\ u.out[k].node = node /\ node \notin gate.internal
             /\ IsToken(u.out[k]) => IsFinal(u.out[k], update)
             /\ u.out[k].mode = "structured" => IsValue(u.out[k], gate, update)
  <2>1. /\ u.out[k].node = node /\ ~Withholds(fed.gate, update)
        /\ u.out[k] = update \/ IsFinal(u.out[k], update) \/ IsValue(u.out[k], gate, update)
    BY <1>1, <1>3, <1>8 DEF GoesOn
  <2>2. node \notin gate.internal
    BY <1>1, <2>1 DEF Withholds, SameGate
  <2> QED BY <1>1, <2>1, <2>2 DEF IsToken, IsFinal, IsValue
<1>10. ASSUME NEW k \in DOMAIN r.out \ DOMAIN u.out
       PROVE  r.out[k].node = node /\ r.out[k].mode = "values"
  BY <1>1, <1>5 DEF GoesOn
<1>11. ASSUME NEW k \in DOMAIN r.out \ DOMAIN fed.out
       PROVE  /\ r.out[k].node = node
              /\ node \in gate.internal => r.out[k].mode = "values"
              /\ IsToken(r.out[k]) => IsFinal(r.out[k], update)
              /\ r.out[k].mode = "structured" => IsValue(r.out[k], gate, update)
  <2>1. CASE k \in DOMAIN u.out
    <3>1. r.out[k] = u.out[k] /\ k \in DOMAIN u.out \ DOMAIN fed.out
      BY <1>7, <2>1
    <3> QED BY <1>9, <3>1
  <2>2. CASE k \notin DOMAIN u.out
    BY <1>10, <2>2 DEF IsToken
  <2> QED BY <2>1, <2>2
<1>12. ASSUME NEW mode \in Own, \A k \in DOMAIN fed.out: fed.out[k].mode # mode
       PROVE  Once(r.out, mode)
  <2>1. Once(fed.out, mode)
    BY <1>12 DEF Once
  <2>2. Once(u.out, mode)
    BY <1>3, <1>12, <2>1 DEF GoesOn
  <2> QED BY <1>1, <1>5, <2>2 DEF GoesOn
<1>13. ASSUME ~gate.passthrough, node \notin gate.internal
       PROVE  /\ (node \in fed.gate.hold /\ "messages" \in gate.requested /\ messages # <<>>
                    /\ Last(messages).role \in {"ai", "call"}) =>
                   \E k \in DOMAIN r.out: IsFinal(r.out[k], update)
              /\ ShowsValue(gate, update) => \E k \in DOMAIN r.out: IsValue(r.out[k], gate, update)
  <2>1. "updates" \in Subscribed(fed.gate) /\ ~Withholds(fed.gate, update)
    BY <1>1, <1>13 DEF Subscribed, Withholds, SameGate
  <2>2. ShowsValue(gate, update) <=> ShowsValue(fed.gate, update)
    BY DEF ShowsValue, SameGate
  <2>3. /\ (node \in fed.gate.hold /\ "messages" \in gate.requested /\ messages # <<>>
              /\ Last(messages).role \in {"ai", "call"}) =>
             \E k \in DOMAIN u.out: IsFinal(u.out[k], update)
        /\ ShowsValue(gate, update) => \E k \in DOMAIN u.out: IsValue(u.out[k], gate, update)
    BY <1>1, <1>3, <1>8, <2>1, <2>2 DEF GoesOn, SameGate
  <2> QED BY <1>7, <2>3
<1> QED BY <1>6, <1>7, <1>11, <1>12, <1>13 DEF ReturnedAre, update, r

-----------------------------------------------------------------------------
(* What reaches the caller.                                                *)

\* The lines of what has come out: all of it, but for an HTTP stream.
Lines(out) == At(out, {i \in DOMAIN out: http => HasLine(out[i])})

LEMMA LinesProperties ==
  ASSUME NEW out \in Seq(Items)
  PROVE  /\ Lines(out) \in Seq(Items)
         /\ \A k \in DOMAIN Lines(out): \E i \in DOMAIN out:
              Lines(out)[k] = out[i] /\ (http => HasLine(out[i]))
         /\ \A i \in DOMAIN out: (http => HasLine(out[i])) => \E k \in DOMAIN Lines(out): Lines(out)[k] = out[i]
         /\ \A mode: Once(out, mode) => Once(Lines(out), mode)
<1> DEFINE S == {i \in DOMAIN out: http => HasLine(out[i])}
           lines == At(out, S)
           n == Cardinality(S)
<1>1. S \in SUBSET DOMAIN out
  OBVIOUS
<1> HIDE DEF S
<1>2. /\ n \in Nat /\ lines \in Seq(Items) /\ Len(lines) = n
      /\ \A k \in 1..n: Nth(S, k) \in S /\ lines[k] = out[Nth(S, k)]
      /\ \A k, l \in 1..n: k < l => Nth(S, k) < Nth(S, l)
      /\ \A i \in S: \E k \in 1..n: Nth(S, k) = i
  BY <1>1, AtProperties
<1>3. DOMAIN lines = 1..n
  BY <1>2, LenProperties
<1>4. \A i \in DOMAIN out: i \in S <=> (http => HasLine(out[i]))
  BY DEF S
<1> HIDE DEF n, lines
<1>5. \A k \in DOMAIN lines: \E i \in DOMAIN out: lines[k] = out[i] /\ (http => HasLine(out[i]))
  BY <1>1, <1>2, <1>3, <1>4
<1>6. \A i \in DOMAIN out: (http => HasLine(out[i])) => \E k \in DOMAIN lines: lines[k] = out[i]
  BY <1>1, <1>2, <1>3, <1>4
<1>7. ASSUME NEW mode, Once(out, mode) PROVE Once(lines, mode)
  <2> SUFFICES ASSUME NEW k \in 1..n, NEW l \in 1..n, lines[k].mode = mode, lines[l].mode = mode
               PROVE  k = l
    BY <1>3 DEF Once
  <2>1. Nth(S, k) = Nth(S, l)
    BY <1>1, <1>2, <1>7 DEF Once
  <2>2. Nth(S, k) \in Nat
    <3>1. DOMAIN out = 1..Len(out)
      BY LenProperties
    <3> QED BY <1>1, <1>2, <3>1
  <2>3. k \in Nat /\ l \in Nat /\ ~(k < l) /\ ~(l < k)
    BY <1>2, <2>1, <2>2, SMTT(40)
  <2> QED BY <2>3
<1>8. Lines(out) = lines
  BY DEF Lines, lines, S
<1> QED BY <1>2, <1>5, <1>6, <1>7, <1>8

-----------------------------------------------------------------------------
(* What a stream has shown of the agent node.                              *)

OfAgent(items, mode) == {k \in DOMAIN items: items[k].mode = mode /\ items[k].node = "agent"}

\* The answers of this turn, those which a stream can show.
CanShow(m) == m.role \in {"ai", "call"} /\ (http => m.text)

Answers ==
  {i \in DOMAIN history: CanShow(history[i]) /\ \A k \in i..Len(history): history[k].role # "human"}

\* An item shows message m of the thread, which has place i.
ShowsIt(item, i, m) ==
  /\ item.messages[1].id = i
  /\ item.messages[1].text = m.text /\ item.messages[1].bad = m.bad
  /\ item.messages[1].role = IF "agent" \in gate.guarded THEN "ai" ELSE m.role

\* The structured values of this turn, each of them once.
ValuesShown ==
  LET shown == OfAgent(sent, "structured")
  IN IF gate.single THEN shown = {}
     ELSE /\ \A n \in 1..returned: \E k \in shown: sent[k].value = n
          /\ \A k, l \in shown: (sent[k].value # 0 /\ sent[k].value = sent[l].value) => k = l
          /\ \A k \in shown:
               sent[k].value \in 1..returned \/ (contract = "named" /\ sent[k].value = 0)

Shown ==
  ~gate.passthrough =>
    IF "agent" \in gate.internal
    THEN \A k \in DOMAIN sent: sent[k].node = "agent" => sent[k].mode = "values"
    ELSE /\ "messages" \in gate.requested =>
              \A i \in Answers: \E k \in OfAgent(sent, "messages"): ShowsIt(sent[k], i, history[i])
         /\ "agent" \in gate.guarded =>
              /\ \A k \in OfAgent(sent, "messages"): \E i \in Answers: ShowsIt(sent[k], i, history[i])
              /\ \A k, l \in OfAgent(sent, "messages"):
                   sent[k].messages[1].id = sent[l].messages[1].id => k = l
         /\ ValuesShown

\* What the gate knows of the agent node is what the node declares.
Gated ==
  ~gate.passthrough =>
    /\ ("agent" \in gate.guarded) <=> ("after" \in places \/ contract # "none")
    /\ ("agent" \in gate.structured) <=> (contract # "none")
    /\ ("agent" \in gate.named) <=> (contract = "named")

Streamed ==
  /\ gate \in Gates
  /\ sent \in Seq(Items)
  /\ contract \in Contracts /\ http \in BOOLEAN /\ returned \in Nat
  /\ Gated
  /\ Shown

\* At most one is at most one.
LEMMA AtMostOne ==
  ASSUME NEW S, \A k, l \in S: k = l
  PROVE  Cardinality(S) <= 1
<1>1. CASE S = {}
  BY <1>1, FS_EmptySet
<1>2. CASE S # {}
  <2>1. PICK x: S = {x}
    BY <1>2
  <2> QED BY <2>1, FS_Singleton
<1> QED BY <1>1, <1>2

\* The values shown are what the property asks for.
LEMMA ValuesAreProperty ==
  ASSUME Streamed, ValuesShown, NEW shown, shown = OfAgent(sent, "structured")
  PROVE  IF gate.single THEN shown = {}
         ELSE /\ \A n \in 1..returned: Cardinality({k \in shown: sent[k].value = n}) = 1
              /\ \A k \in shown:
                   sent[k].value \in 1..returned \/ (contract = "named" /\ sent[k].value = 0)
<1>1. CASE gate.single
  BY <1>1 DEF ValuesShown
<1>2. CASE ~gate.single
  <2>1. ASSUME NEW n \in 1..returned PROVE Cardinality({k \in shown: sent[k].value = n}) = 1
    <3>1. PICK k \in shown: sent[k].value = n
      BY <1>2 DEF ValuesShown
    <3>2. n # 0
      BY DEF Streamed
    <3>3. \A l \in shown: sent[l].value = n => l = k
      BY <1>2, <3>1, <3>2 DEF ValuesShown
    <3>4. {l \in shown: sent[l].value = n} = {k}
      BY <3>1, <3>3
    <3> QED BY <3>4, FS_Singleton
  <2> QED BY <1>2, <2>1 DEF ValuesShown
<1> QED BY <1>1, <1>2

\* The invariant is what the property asks for.
LEMMA ShownIsProperty == Streamed => StreamsShowWhatWasKept
<1> SUFFICES ASSUME Streamed, ~gate.passthrough PROVE StreamsShowWhatWasKept
  BY DEF StreamsShowWhatWasKept
<1> DEFINE of(mode) == {k \in DOMAIN sent: sent[k].mode = mode /\ sent[k].node = "agent"}
           tokens == of("messages")
           guarded == "agent" \in gate.guarded
           thisTurn(i) == \A k \in i..Len(history): history[k].role # "human"
           answers == {i \in DOMAIN history: history[i].role \in {"ai", "call"} /\ thisTurn(i)
                                              /\ (http => history[i].text)}
           shows(k, i) == LET message == sent[k].messages[1]
                          IN /\ message.id = i
                             /\ message.text = history[i].text /\ message.bad = history[i].bad
                             /\ message.role = IF guarded THEN "ai" ELSE history[i].role
           shown(i) == {k \in tokens: shows(k, i)}
           valued(n) == {k \in of("structured"): sent[k].value = n}
<1>1. tokens = OfAgent(sent, "messages") /\ of("structured") = OfAgent(sent, "structured")
      /\ of("updates") = OfAgent(sent, "updates")
  BY DEF OfAgent
<1>2. answers = Answers
  BY Zenon DEF Answers, CanShow
<1>3. \A i, k: shows(k, i) <=> ShowsIt(sent[k], i, history[i])
  BY Zenon DEF ShowsIt
<1> HIDE DEF answers, thisTurn, shows
<1>4. \A i, k: k \in shown(i) <=> k \in tokens /\ ShowsIt(sent[k], i, history[i])
  BY <1>3
<1>5. CASE "agent" \in gate.internal
  <2>1. \A k \in DOMAIN sent: sent[k].node = "agent" => sent[k].mode = "values"
    BY <1>5 DEF Streamed, Shown
  <2>2. tokens = {} /\ of("updates") = {} /\ of("structured") = {}
    BY <2>1
  <2>3. tokens \cup of("updates") \cup of("structured") = {}
    BY <2>2
  <2> QED BY <1>5, <2>3, Zenon DEF StreamsShowWhatWasKept
<1>6. CASE "agent" \notin gate.internal
  <2>1. /\ "messages" \in gate.requested =>
             \A i \in Answers: \E k \in OfAgent(sent, "messages"): ShowsIt(sent[k], i, history[i])
        /\ guarded =>
             /\ \A k \in OfAgent(sent, "messages"): \E i \in Answers: ShowsIt(sent[k], i, history[i])
             /\ \A k, l \in OfAgent(sent, "messages"):
                  sent[k].messages[1].id = sent[l].messages[1].id => k = l
        /\ ValuesShown
    BY <1>6 DEF Streamed, Shown
  <2>2. "messages" \in gate.requested => \A i \in answers: shown(i) # {}
    <3> SUFFICES ASSUME "messages" \in gate.requested, NEW i \in answers PROVE \E k: k \in shown(i)
      BY Zenon
    <3> QED BY <1>1, <1>2, <1>4, <2>1, Zenon
  <2>3. ASSUME guarded, NEW i \in answers PROVE Cardinality(shown(i)) <= 1
    <3>1. \A k, l \in shown(i): k = l
      <4> SUFFICES ASSUME NEW k \in shown(i), NEW l \in shown(i) PROVE k = l
        BY Zenon
      <4>1. k \in tokens /\ l \in tokens
            /\ sent[k].messages[1].id = i /\ sent[l].messages[1].id = i
        BY <1>4 DEF ShowsIt
      <4> QED BY <1>1, <2>1, <2>3, <4>1
    <3> HIDE DEF shown
    <3> QED BY <3>1, AtMostOne
  <2>4. ASSUME guarded, NEW k \in tokens PROVE \E i \in answers: shows(k, i)
    <3>1. k \in OfAgent(sent, "messages")
      BY <1>1
    <3>2. PICK i \in Answers: ShowsIt(sent[k], i, history[i])
      BY <2>1, <2>4, <3>1
    <3>3. i \in answers /\ shows(k, i)
      BY <1>2, <1>3, <3>2, Zenon
    <3> QED BY <3>3
  <2>5. IF gate.single THEN of("structured") = {}
        ELSE /\ \A n \in 1..returned: Cardinality(valued(n)) = 1
             /\ \A k \in of("structured"):
                  sent[k].value \in 1..returned \/ (contract = "named" /\ sent[k].value = 0)
    <3> DEFINE values == of("structured")
    <3>1. values = OfAgent(sent, "structured")
      BY <1>1
    <3> HIDE DEF values
    <3>2. IF gate.single THEN values = {}
          ELSE /\ \A n \in 1..returned: Cardinality({k \in values: sent[k].value = n}) = 1
               /\ \A k \in values:
                    sent[k].value \in 1..returned \/ (contract = "named" /\ sent[k].value = 0)
      BY <2>1, <3>1, ValuesAreProperty
    <3> QED BY <3>2, Zenon DEF values
  <2> HIDE DEF shown, tokens, of, valued, guarded
  <2>6. StreamsShowWhatWasKept <=>
          (IF "agent" \in gate.internal
           THEN tokens \cup of("updates") \cup of("structured") = {}
           ELSE /\ "messages" \in gate.requested => \A i \in answers: shown(i) # {}
                /\ guarded =>
                     /\ \A i \in answers: Cardinality(shown(i)) <= 1
                     /\ \A k \in tokens: \E i \in answers: shows(k, i)
                /\ IF gate.single THEN of("structured") = {}
                   ELSE /\ \A n \in 1..returned: Cardinality(valued(n)) = 1
                        /\ \A k \in of("structured"):
                             sent[k].value \in 1..returned \/ (contract = "named" /\ sent[k].value = 0))
    BY Zenon DEF StreamsShowWhatWasKept, shown, tokens, of, answers, thisTurn, shows, valued, guarded
  <2> QED BY <1>6, <2>2, <2>3, <2>4, <2>5, <2>6, Zenon
<1> QED BY <1>5, <1>6

\* What a step adds to the structured values, and shows of them.
ValuesAdded(more) ==
  LET shown == OfAgent(more, "structured")
  IN IF gate.single THEN shown = {}
     ELSE /\ \A n \in returned + 1..returned': \E k \in shown: more[k].value = n
          /\ \A k, l \in shown: k = l
          /\ \A k \in shown:
               more[k].value \in returned + 1..returned' \/ (contract = "named" /\ more[k].value = 0)

\* A step adds to the thread and to the stream: what it adds to the stream of the
\* agent node shows what it adds to the thread.
Adds(added, more) ==
  /\ added \in Seq(Messages) /\ more \in Seq(Items)
  /\ SameGate(gate, gate')
  /\ history' = history \o added /\ sent' = sent \o more
  /\ \A k \in 1..Len(added): added[k].id = Len(history) + k /\ added[k].role # "human"
  /\ returned' \in {returned, returned + 1}
  /\ ~gate.passthrough =>
       IF "agent" \in gate.internal
       THEN \A k \in DOMAIN more: more[k].node = "agent" => more[k].mode = "values"
       ELSE /\ "messages" \in gate.requested =>
                 \A k \in 1..Len(added): CanShow(added[k]) =>
                   \E l \in OfAgent(more, "messages"): ShowsIt(more[l], added[k].id, added[k])
            /\ "agent" \in gate.guarded =>
                 /\ \A l \in OfAgent(more, "messages"): \E k \in 1..Len(added):
                      CanShow(added[k]) /\ ShowsIt(more[l], added[k].id, added[k])
                 /\ \A k, l \in OfAgent(more, "messages"): k = l
            /\ ValuesAdded(more)

\* The answers of a turn to which more is added.
LEMMA AnswersGrow ==
  ASSUME Typed, NEW added \in Seq(Messages), history' = history \o added, http' = http,
         \A k \in 1..Len(added): added[k].id = Len(history) + k /\ added[k].role # "human"
  PROVE  /\ \A i \in Answers': \/ i \in Answers /\ history'[i] = history[i]
                               \/ \E k \in 1..Len(added): /\ i = added[k].id /\ history'[i] = added[k]
                                                          /\ CanShow(added[k])
         /\ \A i \in Answers: i \in Answers' /\ history'[i] = history[i]
         /\ \A k \in 1..Len(added): CanShow(added[k]) =>
              added[k].id \in Answers' /\ history'[added[k].id] = added[k]
         /\ \A i \in Answers: \A k \in 1..Len(added): i # added[k].id
<1> DEFINE n == Len(history)
           l == Len(added)
<1>1. /\ n \in Nat /\ l \in Nat /\ DOMAIN history = 1..n /\ DOMAIN history' = 1..n + l
      /\ Len(history') = n + l
      /\ \A i \in DOMAIN history: i \in DOMAIN history' /\ history'[i] = history[i]
      /\ \A k \in 1..l: n + k \in DOMAIN history' /\ history'[n + k] = added[k]
      /\ \A i \in DOMAIN history': i \in DOMAIN history \/ \E k \in 1..l: i = n + k
  BY Appended
<1>2. \A k \in 1..l: added[k].id = n + k /\ added[k].role # "human"
  OBVIOUS
<1> HIDE DEF n, l
<1>3. \A m: CanShow(m)' <=> CanShow(m)
  BY DEF CanShow
<1>4. \A i \in n + 1..n + l: history'[i].role # "human"
  <2> SUFFICES ASSUME NEW i \in n + 1..n + l PROVE history'[i].role # "human"
    OBVIOUS
  <2>1. i - n \in 1..l /\ i = n + (i - n)
    BY <1>1
  <2> QED BY <1>1, <1>2, <2>1
<1>5. ASSUME NEW i \in DOMAIN history
      PROVE  (\A k \in i..n + l: history'[k].role # "human") <=> (\A k \in i..n: history[k].role # "human")
  <2>1. \A k \in i..n: k \in i..n + l /\ k \in DOMAIN history
    BY <1>1
  <2>2. \A k \in i..n + l: k \in i..n \/ k \in n + 1..n + l
    BY <1>1
  <2> QED BY <1>1, <1>4, <2>1, <2>2
<1>6. \A i \in DOMAIN history: i \in Answers' <=> i \in Answers
  <2>1. \A i: i \in Answers' <=> /\ i \in DOMAIN history' /\ CanShow(history'[i])
                                 /\ \A k \in i..n + l: history'[k].role # "human"
    BY <1>1, <1>3 DEF Answers
  <2>2. \A i: i \in Answers <=> /\ i \in DOMAIN history /\ CanShow(history[i])
                                /\ \A k \in i..n: history[k].role # "human"
    BY DEF Answers, n
  <2> QED BY <1>1, <1>5, <2>1, <2>2
<1>7. \A k \in 1..l: n + k \in Answers' <=> CanShow(added[k])
  <2> SUFFICES ASSUME NEW k \in 1..l PROVE n + k \in Answers' <=> CanShow(added[k])
    OBVIOUS
  <2>1. \A j \in n + k..n + l: j \in n + 1..n + l
    BY <1>1
  <2>2. \A j \in n + k..n + l: history'[j].role # "human"
    BY <1>4, <2>1
  <2>3. n + k \in DOMAIN history' /\ history'[n + k] = added[k]
    BY <1>1
  <2> QED BY <1>1, <1>3, <2>2, <2>3 DEF Answers
<1>8. Answers \subseteq DOMAIN history /\ Answers' \subseteq DOMAIN history'
  BY DEF Answers
<1>9. ASSUME NEW i \in Answers'
      PROVE  \/ i \in Answers /\ history'[i] = history[i]
             \/ \E k \in 1..l: i = added[k].id /\ history'[i] = added[k] /\ CanShow(added[k])
  <2>1. CASE i \in DOMAIN history
    BY <1>1, <1>6, <2>1
  <2>2. CASE i \notin DOMAIN history
    <3>1. i \in DOMAIN history'
      BY <1>8
    <3>2. PICK k \in 1..l: i = n + k
      BY <1>1, <2>2, <3>1
    <3>3. history'[i] = added[k] /\ CanShow(added[k]) /\ i = added[k].id
      BY <1>1, <1>2, <1>7, <3>2
    <3> QED BY <3>3
  <2> QED BY <2>1, <2>2
<1>10. \A i \in Answers: i \in Answers' /\ history'[i] = history[i]
  BY <1>1, <1>6, <1>8
<1>11. \A k \in 1..l: CanShow(added[k]) => added[k].id \in Answers' /\ history'[added[k].id] = added[k]
  BY <1>1, <1>2, <1>7
<1>12. \A i \in Answers: \A k \in 1..l: i # added[k].id
  <2>1. \A i \in 1..n: \A k \in 1..l: i # n + k
    BY <1>1
  <2> QED BY <1>1, <1>2, <1>8, <2>1
<1> QED BY <1>9, <1>10, <1>11, <1>12 DEF l

\* The values that are added are new.
LEMMA ValuesStep ==
  ASSUME NEW more \in Seq(Items), sent \in Seq(Items), sent' = sent \o more,
         gate'.single = gate.single, contract' = contract,
         returned \in Nat, returned' \in {returned, returned + 1},
         ValuesShown, ValuesAdded(more)
  PROVE  ValuesShown'
<1> DEFINE old == OfAgent(sent, "structured")
           new == OfAgent(more, "structured")
           shown == OfAgent(sent', "structured")
<1>1. /\ \A k \in DOMAIN sent: k \in DOMAIN sent' /\ sent'[k] = sent[k]
      /\ \A k \in DOMAIN more: Len(sent) + k \in DOMAIN sent' /\ sent'[Len(sent) + k] = more[k]
      /\ \A k \in DOMAIN sent': k \in DOMAIN sent \/ \E j \in DOMAIN more: k = Len(sent) + j
  BY ConcatMembers, SMTT(40)
<1>2. /\ \A k \in old: k \in shown /\ sent'[k] = sent[k]
      /\ \A k \in new: Len(sent) + k \in shown /\ sent'[Len(sent) + k] = more[k]
      /\ \A k \in shown:
           \/ k \in old /\ sent'[k] = sent[k]
           \/ \E j \in new: k = Len(sent) + j /\ sent'[k] = more[j]
  BY <1>1 DEF OfAgent
<1>3. OfAgent(sent, "structured")' = shown
  BY DEF OfAgent
<1> HIDE DEF old, new, shown
<1>4. CASE gate.single
  <2>1. old = {} /\ new = {}
    BY <1>4 DEF ValuesShown, ValuesAdded, old, new
  <2>2. shown = {}
    BY <1>2, <2>1
  <2> QED BY <1>3, <1>4, <2>2 DEF ValuesShown
<1>5. CASE ~gate.single
  <2>1. /\ \A n \in 1..returned: \E k \in old: sent[k].value = n
        /\ \A k, l \in old: (sent[k].value # 0 /\ sent[k].value = sent[l].value) => k = l
        /\ \A k \in old: sent[k].value \in 1..returned \/ (contract = "named" /\ sent[k].value = 0)
    BY <1>5 DEF ValuesShown, old
  <2>2. /\ \A n \in returned + 1..returned': \E k \in new: more[k].value = n
        /\ \A k, l \in new: k = l
        /\ \A k \in new:
             more[k].value \in returned + 1..returned' \/ (contract = "named" /\ more[k].value = 0)
    BY <1>5, Zenon DEF ValuesAdded, new
  <2>3. ASSUME NEW n \in 1..returned' PROVE \E k \in shown: sent'[k].value = n
    <3>1. n \in 1..returned \/ n \in returned + 1..returned'
      OBVIOUS
    <3>2. ASSUME NEW k \in old, sent[k].value = n PROVE k \in shown /\ sent'[k].value = n
      BY <1>2, <3>2
    <3>3. ASSUME NEW k \in new, more[k].value = n
          PROVE  Len(sent) + k \in shown /\ sent'[Len(sent) + k].value = n
      BY <1>2, <3>3
    <3> QED BY <2>1, <2>2, <3>1, <3>2, <3>3, Zenon
  <2>4. ASSUME NEW k \in old, NEW l \in new, sent[k].value # 0
        PROVE  sent[k].value # more[l].value
    <3>1. sent[k].value \in 1..returned
      BY <2>1, <2>4
    <3>2. CASE more[l].value = 0
      BY <2>4, <3>2
    <3>3. CASE more[l].value # 0
      <4>1. more[l].value \in returned + 1..returned'
        BY <2>2, <3>3
      <4> QED BY <3>1, <4>1, SMT
    <3> QED BY <3>2, <3>3
  <2>5. ASSUME NEW k \in shown, NEW l \in shown, sent'[k].value # 0, sent'[k].value = sent'[l].value
        PROVE  k = l
    <3>1. CASE k \in old /\ sent'[k] = sent[k] /\ l \in old /\ sent'[l] = sent[l]
      BY <2>1, <2>5, <3>1
    <3>2. ASSUME k \in old, sent'[k] = sent[k], NEW j \in new, sent'[l] = more[j] PROVE FALSE
      BY <2>4, <2>5, <3>2
    <3>3. ASSUME l \in old, sent'[l] = sent[l], NEW j \in new, sent'[k] = more[j] PROVE FALSE
      BY <2>4, <2>5, <3>3
    <3>4. CASE /\ \E i \in new: k = Len(sent) + i /\ sent'[k] = more[i]
               /\ \E i \in new: l = Len(sent) + i /\ sent'[l] = more[i]
      BY <2>2, <3>4
    <3> QED BY <1>2, <3>1, <3>2, <3>3, <3>4, ZenonT(60)
  <2>6. ASSUME NEW k \in shown
        PROVE  sent'[k].value \in 1..returned' \/ (contract = "named" /\ sent'[k].value = 0)
    <3>1. 1..returned \subseteq 1..returned' /\ returned + 1..returned' \subseteq 1..returned'
      OBVIOUS
    <3>2. CASE k \in old /\ sent'[k] = sent[k]
      BY <2>1, <3>1, <3>2
    <3>3. ASSUME NEW j \in new, sent'[k] = more[j]
          PROVE  sent'[k].value \in 1..returned' \/ (contract = "named" /\ sent'[k].value = 0)
      BY <2>2, <3>1, <3>3
    <3> QED BY <1>2, <3>2, <3>3
  <2> QED BY <1>3, <1>5, <2>3, <2>5, <2>6, Zenon DEF ValuesShown
<1> QED BY <1>4, <1>5

\* The step that adds keeps the invariant.
LEMMA StreamStep ==
  ASSUME Typed, Streamed, UNCHANGED config, NEW added, NEW more, Adds(added, more)
  PROVE  Streamed'
<1>1. /\ places' = places /\ contract' = contract /\ http' = http
      /\ SameGate(gate, gate') /\ gate' \in Gates
  BY DEF config, Adds, SameGate
<1>2. /\ gate'.requested = gate.requested /\ gate'.single = gate.single
      /\ gate'.passthrough = gate.passthrough /\ gate'.guarded = gate.guarded
      /\ gate'.internal = gate.internal /\ gate'.structured = gate.structured
      /\ gate'.named = gate.named
  BY <1>1 DEF SameGate
<1>3. Gated'
  BY <1>1, <1>2 DEF Streamed, Gated
<1>4. /\ added \in Seq(Messages) /\ more \in Seq(Items) /\ sent \in Seq(Items)
      /\ history' = history \o added /\ sent' = sent \o more
      /\ \A k \in 1..Len(added): added[k].id = Len(history) + k /\ added[k].role # "human"
  BY DEF Adds, Streamed
<1>5. /\ sent' \in Seq(Items)
      /\ \A k \in DOMAIN sent: k \in DOMAIN sent' /\ sent'[k] = sent[k]
      /\ \A k \in DOMAIN more: Len(sent) + k \in DOMAIN sent' /\ sent'[Len(sent) + k] = more[k]
      /\ \A k \in DOMAIN sent': k \in DOMAIN sent \/ \E j \in DOMAIN more: k = Len(sent) + j
  BY <1>4, ConcatMembers, SMTT(40)
<1>6. /\ \A i \in Answers': \/ i \in Answers /\ history'[i] = history[i]
                            \/ \E k \in 1..Len(added): /\ i = added[k].id /\ history'[i] = added[k]
                                                       /\ CanShow(added[k])
      /\ \A i \in Answers: i \in Answers' /\ history'[i] = history[i]
      /\ \A k \in 1..Len(added): CanShow(added[k]) =>
           added[k].id \in Answers' /\ history'[added[k].id] = added[k]
      /\ \A i \in Answers: \A k \in 1..Len(added): i # added[k].id
  BY <1>1, <1>4, AnswersGrow
<1>7. \A mode: \A k \in OfAgent(sent, mode): k \in OfAgent(sent', mode) /\ sent'[k] = sent[k]
  BY <1>5 DEF OfAgent
<1>8. \A mode: \A l \in OfAgent(more, mode):
        Len(sent) + l \in OfAgent(sent', mode) /\ sent'[Len(sent) + l] = more[l]
  BY <1>5 DEF OfAgent
<1>9. ASSUME NEW mode, NEW k \in OfAgent(sent', mode)
      PROVE  \/ k \in OfAgent(sent, mode) /\ sent'[k] = sent[k]
             \/ \E l \in OfAgent(more, mode): k = Len(sent) + l /\ sent'[k] = more[l]
  <2>1. k \in DOMAIN sent' /\ sent'[k].mode = mode /\ sent'[k].node = "agent"
    BY DEF OfAgent
  <2>2. CASE k \in DOMAIN sent
    BY <1>5, <2>1, <2>2 DEF OfAgent
  <2>3. ASSUME NEW l \in DOMAIN more, k = Len(sent) + l
        PROVE  l \in OfAgent(more, mode) /\ sent'[k] = more[l]
    BY <1>5, <2>1, <2>3 DEF OfAgent
  <2> QED BY <1>5, <2>1, <2>2, <2>3
<1>10. Shown'
  <2> SUFFICES ASSUME ~gate.passthrough PROVE Shown'
    BY <1>2 DEF Shown
  <2>1. CASE "agent" \in gate.internal
    <3>1. /\ \A k \in DOMAIN sent: sent[k].node = "agent" => sent[k].mode = "values"
          /\ \A k \in DOMAIN more: more[k].node = "agent" => more[k].mode = "values"
      BY <2>1 DEF Streamed, Shown, Adds
    <3>2. \A k \in DOMAIN sent': sent'[k].node = "agent" => sent'[k].mode = "values"
      BY <1>5, <3>1
    <3> QED BY <1>2, <2>1, <3>2 DEF Shown
  <2>2. CASE "agent" \notin gate.internal
    <3>1. /\ "messages" \in gate.requested =>
               \A i \in Answers: \E k \in OfAgent(sent, "messages"): ShowsIt(sent[k], i, history[i])
          /\ "agent" \in gate.guarded =>
               /\ \A k \in OfAgent(sent, "messages"): \E i \in Answers: ShowsIt(sent[k], i, history[i])
               /\ \A k, l \in OfAgent(sent, "messages"):
                    sent[k].messages[1].id = sent[l].messages[1].id => k = l
      BY <2>2 DEF Streamed, Shown
    <3>2. /\ "messages" \in gate.requested =>
               \A k \in 1..Len(added): CanShow(added[k]) =>
                 \E l \in OfAgent(more, "messages"): ShowsIt(more[l], added[k].id, added[k])
          /\ "agent" \in gate.guarded =>
               /\ \A l \in OfAgent(more, "messages"): \E k \in 1..Len(added):
                    CanShow(added[k]) /\ ShowsIt(more[l], added[k].id, added[k])
               /\ \A k, l \in OfAgent(more, "messages"): k = l
      BY <2>2 DEF Adds
    <3>3. ASSUME "messages" \in gate.requested, NEW i \in Answers'
          PROVE  \E k \in OfAgent(sent', "messages"): ShowsIt(sent'[k], i, history'[i])
      <4>1. CASE i \in Answers /\ history'[i] = history[i]
        <5>1. PICK k \in OfAgent(sent, "messages"): ShowsIt(sent[k], i, history[i])
          BY <3>1, <3>3, <4>1
        <5> QED BY <1>7, <4>1, <5>1
      <4>2. ASSUME NEW k \in 1..Len(added), i = added[k].id, history'[i] = added[k], CanShow(added[k])
            PROVE  \E j \in OfAgent(sent', "messages"): ShowsIt(sent'[j], i, history'[i])
        <5>1. PICK l \in OfAgent(more, "messages"): ShowsIt(more[l], added[k].id, added[k])
          BY <3>2, <3>3, <4>2
        <5> QED BY <1>8, <4>2, <5>1
      <4> QED BY <1>6, <4>1, <4>2
    <3>4. ASSUME "agent" \in gate.guarded, NEW k \in OfAgent(sent', "messages")
          PROVE  \E i \in Answers': ShowsIt(sent'[k], i, history'[i])
      <4>1. CASE k \in OfAgent(sent, "messages") /\ sent'[k] = sent[k]
        <5>1. PICK i \in Answers: ShowsIt(sent[k], i, history[i])
          BY <3>1, <3>4, <4>1
        <5> QED BY <1>6, <4>1, <5>1
      <4>2. ASSUME NEW l \in OfAgent(more, "messages"), sent'[k] = more[l]
            PROVE  \E i \in Answers': ShowsIt(sent'[k], i, history'[i])
        <5>1. PICK j \in 1..Len(added): CanShow(added[j]) /\ ShowsIt(more[l], added[j].id, added[j])
          BY <3>2, <3>4
        <5> QED BY <1>6, <4>2, <5>1
      <4> QED BY <1>9, <4>1, <4>2
    <3>5. ASSUME "agent" \in gate.guarded,
                 NEW k \in OfAgent(sent, "messages"), NEW l \in OfAgent(more, "messages")
          PROVE  sent[k].messages[1].id # more[l].messages[1].id
      <4>1. PICK i \in Answers: ShowsIt(sent[k], i, history[i])
        BY <3>1, <3>5
      <4>2. PICK j \in 1..Len(added): ShowsIt(more[l], added[j].id, added[j])
        BY <3>2, <3>5
      <4>3. i # added[j].id
        BY <1>6
      <4> QED BY <4>1, <4>2, <4>3 DEF ShowsIt
    <3>6. ASSUME "agent" \in gate.guarded,
                 NEW k \in OfAgent(sent', "messages"), NEW l \in OfAgent(sent', "messages"),
                 sent'[k].messages[1].id = sent'[l].messages[1].id
          PROVE  k = l
      <4>1. /\ \/ k \in OfAgent(sent, "messages") /\ sent'[k] = sent[k]
               \/ \E j \in OfAgent(more, "messages"): k = Len(sent) + j /\ sent'[k] = more[j]
            /\ \/ l \in OfAgent(sent, "messages") /\ sent'[l] = sent[l]
               \/ \E j \in OfAgent(more, "messages"): l = Len(sent) + j /\ sent'[l] = more[j]
        BY <1>9
      <4> QED BY <3>1, <3>2, <3>5, <3>6, <4>1, ZenonT(60)
    <3>7. ValuesShown'
      <4>1. ValuesShown /\ ValuesAdded(more) /\ returned' \in {returned, returned + 1} /\ returned \in Nat
        BY <2>2 DEF Streamed, Shown, Adds
      <4> QED BY <1>1, <1>2, <1>4, <4>1, ValuesStep
    <3>8. OfAgent(sent, "messages")' = OfAgent(sent', "messages")
      BY DEF OfAgent
    <3> QED BY <1>2, <2>2, <3>3, <3>4, <3>6, <3>7, <3>8 DEF Shown, ShowsIt
  <2> QED BY <2>1, <2>2
<1>11. returned' \in Nat
  BY DEF Adds, Streamed
<1> QED BY <1>1, <1>3, <1>5, <1>10, <1>11 DEF Streamed

\* The tokens of the agent node alone: none, if it is internal or guarded.
LEMMA AgentTokens ==
  ASSUME gate \in Gates, NEW answer \in Messages, NEW f, f = Tokens("agent", <<answer>>)
  PROVE  /\ SameGate(gate, f.gate) /\ f.out \in Seq(Items) /\ Lines(f.out) \in Seq(Items)
         /\ "agent" \in gate.internal \cup gate.guarded => DOMAIN Lines(f.out) = {}
<1>1. <<answer>> \in Seq(Messages) /\ "agent" \in Nodes
  BY DEF Nodes
<1>2. TokensAre("agent", <<answer>>, f)
  BY <1>1, TokensProperties
<1>3. /\ SameGate(gate, f.gate) /\ f.out \in Seq(Items)
      /\ "agent" \in gate.internal \cup gate.guarded => DOMAIN f.out = {}
  BY <1>2 DEF TokensAre
<1>4. Lines(f.out) \in Seq(Items) /\ \A k \in DOMAIN Lines(f.out): \E i \in DOMAIN f.out: TRUE
  BY <1>3, LinesProperties
<1> QED BY <1>3, <1>4

\* What the agent node's answer and what it kept of it make of the stream.
AgentShown(answer, kept, value, more) ==
  IF "agent" \in gate.internal
  THEN \A k \in DOMAIN more: more[k].node = "agent" => more[k].mode = "values"
  ELSE /\ "agent" \in gate.guarded =>
            /\ \A l \in OfAgent(more, "messages"):
                 kept # <<>> /\ more[l].messages = <<Chunk(Last(kept))>> /\ CanShow(Last(kept))
            /\ \A k, l \in OfAgent(more, "messages"): k = l
            /\ ("messages" \in gate.requested /\ kept # <<>> /\ CanShow(Last(kept))) =>
                 \E l \in OfAgent(more, "messages"): more[l].messages = <<Chunk(Last(kept))>>
       /\ ("agent" \notin gate.guarded /\ "messages" \in gate.requested /\ CanShow(answer)) =>
            \E l \in OfAgent(more, "messages"): more[l].messages = <<answer>>
       /\ \A l \in OfAgent(more, "structured"):
            /\ more[l].value = value /\ ~gate.single
            /\ value # 0 \/ "agent" \in gate.named
       /\ \A k, l \in OfAgent(more, "structured"): k = l
       /\ ("agent" \in gate.structured /\ ~gate.single /\ value # 0) =>
            \E l \in OfAgent(more, "structured"): more[l].value = value

LEMMA AgentReturns ==
  ASSUME gate \in Gates, ~gate.passthrough, NEW answer \in Messages, NEW kept \in Seq(Messages),
         NEW value \in Nat, NEW r, r = Returned(Tokens("agent", <<answer>>), "agent", kept, value)
  PROVE  AgentShown(answer, kept, value, Lines(r.out))
<1> DEFINE f == Tokens("agent", <<answer>>)
           token == Item("messages", "agent", <<answer>>, 0)
           update == Item("updates", "agent", kept, value)
           more == Lines(r.out)
<1>1. <<answer>> \in Seq(Messages) /\ "agent" \in Nodes
  BY DEF Nodes
<1>2. TokensAre("agent", <<answer>>, f)
  BY <1>1, TokensProperties
<1>3. SameGate(gate, f.gate) /\ f.out \in Seq(Items)
  BY <1>2 DEF TokensAre
<1>4. r = Returned(f, "agent", kept, value)
  OBVIOUS
<1> HIDE DEF f
<1>5. ReturnedAre(f, "agent", kept, value, r)
  BY <1>1, <1>3, <1>4, ReturnedProperties
<1>6. /\ token.mode = "messages" /\ token.node = "agent" /\ token.messages = <<answer>>
      /\ update.messages = kept /\ update.node = "agent" /\ update.value = value
  BY DEF Item
<1>7. r.out \in Seq(Items)
  BY <1>5 DEF ReturnedAre
<1> HIDE DEF token, update, more
<1>8. /\ more \in Seq(Items)
      /\ \A k \in DOMAIN more: \E i \in DOMAIN r.out: more[k] = r.out[i] /\ (http => HasLine(r.out[i]))
      /\ \A i \in DOMAIN r.out: (http => HasLine(r.out[i])) => \E k \in DOMAIN more: more[k] = r.out[i]
      /\ \A mode: Once(r.out, mode) => Once(more, mode)
  BY <1>7, LinesProperties DEF more
<1>9. CASE "agent" \in gate.internal
  <2>1. DOMAIN f.out = {}
    BY <1>2, <1>9 DEF TokensAre
  <2>2. \A k \in DOMAIN r.out: r.out[k].mode = "values"
    BY <1>5, <1>9, <2>1 DEF ReturnedAre
  <2>3. \A k \in DOMAIN more: more[k].mode = "values"
    BY <1>8, <2>2
  <2> QED BY <1>9, <2>3 DEF AgentShown, more
<1>10. CASE "agent" \notin gate.internal
  <2>1. ASSUME "agent" \in gate.guarded
        PROVE  /\ DOMAIN f.out = {}
               /\ "messages" \in gate.requested => "agent" \in f.gate.hold
    BY <1>2, <1>10, <2>1 DEF TokensAre
  <2>2. ASSUME "agent" \in gate.guarded, NEW l \in OfAgent(more, "messages")
        PROVE  kept # <<>> /\ more[l].messages = <<Chunk(Last(kept))>> /\ CanShow(Last(kept))
    <3>1. PICK i \in DOMAIN r.out: more[l] = r.out[i] /\ (http => HasLine(r.out[i]))
      BY <1>8 DEF OfAgent
    <3>2. IsToken(r.out[i])
      BY <3>1 DEF OfAgent, IsToken
    <3>3. IsFinal(r.out[i], update)
      BY <1>5, <2>1, <2>2, <3>2 DEF ReturnedAre, update
    <3>4. /\ kept # <<>> /\ r.out[i].messages = <<Chunk(Last(kept))>>
          /\ Last(kept).role \in {"ai", "call"}
      BY <1>6, <3>3 DEF IsFinal
    <3>5. http => Last(kept).text
      <4>1. Chunk(Last(kept)).text = Last(kept).text
        BY <3>4, LastTyped, ChunkIs
      <4> QED BY <3>1, <3>2, <3>4, <4>1 DEF HasLine, IsToken
    <3> QED BY <3>1, <3>4, <3>5 DEF CanShow
  <2>3. ASSUME "agent" \in gate.guarded, NEW k \in OfAgent(more, "messages"),
               NEW l \in OfAgent(more, "messages")
        PROVE  k = l
    <3>1. Once(more, "messages")
      BY <1>5, <1>8, <2>1, <2>3 DEF ReturnedAre, Own
    <3> QED BY <3>1 DEF Once, OfAgent
  <2>4. ASSUME "agent" \in gate.guarded, "messages" \in gate.requested, kept # <<>>,
               CanShow(Last(kept))
        PROVE  \E l \in OfAgent(more, "messages"): more[l].messages = <<Chunk(Last(kept))>>
    <3>1. /\ Last(kept).role \in {"ai", "call"} /\ (http => Last(kept).text)
          /\ Chunk(Last(kept)).text = Last(kept).text /\ Chunk(Last(kept)).role = "ai"
      BY <2>4, LastTyped, ChunkIs DEF CanShow
    <3>2. PICK i \in DOMAIN r.out: IsFinal(r.out[i], update)
      BY <1>5, <1>10, <2>1, <2>4, <3>1 DEF ReturnedAre, update
    <3>3. r.out[i].node = "agent"
      BY <1>5, <2>1, <2>4 DEF ReturnedAre
    <3>4. r.out[i].mode = "messages" /\ r.out[i].messages = <<Chunk(Last(kept))>>
      BY <1>6, <3>2 DEF IsFinal, IsToken
    <3>5. http => HasLine(r.out[i])
      BY <3>1, <3>4 DEF HasLine
    <3>6. PICK l \in DOMAIN more: more[l] = r.out[i]
      BY <1>8, <3>5
    <3> QED BY <3>3, <3>4, <3>6 DEF OfAgent
  <2>5. ASSUME "agent" \notin gate.guarded, "messages" \in gate.requested, CanShow(answer)
        PROVE  \E l \in OfAgent(more, "messages"): more[l].messages = <<answer>>
    <3>1. PICK k \in DOMAIN f.out: f.out[k] = token
      BY <1>2, <1>10, <2>5 DEF TokensAre, token
    <3>2. k \in DOMAIN r.out /\ r.out[k] = token
      BY <1>5, <3>1 DEF ReturnedAre
    <3>3. http => HasLine(token)
      BY <1>6, <2>5 DEF HasLine, CanShow
    <3>4. PICK l \in DOMAIN more: more[l] = token
      BY <1>8, <3>2, <3>3
    <3> QED BY <1>6, <3>4 DEF OfAgent
  <2>6. \A i \in DOMAIN f.out: f.out[i].mode = "messages"
    BY <1>2, <1>6 DEF TokensAre, token
  <2>7. ASSUME NEW l \in OfAgent(more, "structured")
        PROVE  /\ more[l].value = value /\ ~gate.single
               /\ value # 0 \/ "agent" \in gate.named
    <3>1. PICK i \in DOMAIN r.out: more[l] = r.out[i] /\ r.out[i].mode = "structured"
      BY <1>8 DEF OfAgent
    <3>2. i \notin DOMAIN f.out
      BY <1>5, <2>6, <3>1 DEF ReturnedAre
    <3>3. IsValue(r.out[i], gate, update)
      BY <1>5, <3>1, <3>2 DEF ReturnedAre, update
    <3> QED BY <1>6, <3>1, <3>3 DEF IsValue, ShowsValue
  <2>8. \A k, l \in OfAgent(more, "structured"): k = l
    <3>1. Once(more, "structured")
      BY <1>5, <1>8, <2>6 DEF ReturnedAre, Own
    <3> QED BY <3>1 DEF Once, OfAgent
  <2>9. ASSUME "agent" \in gate.structured, ~gate.single, value # 0
        PROVE  \E l \in OfAgent(more, "structured"): more[l].value = value
    <3>1. ShowsValue(gate, update)
      BY <1>6, <2>9 DEF ShowsValue
    <3>2. PICK i \in DOMAIN r.out: IsValue(r.out[i], gate, update)
      BY <1>5, <1>10, <3>1 DEF ReturnedAre, update
    <3>3. r.out[i].mode = "structured" /\ r.out[i].value = value
      BY <1>6, <3>2 DEF IsValue
    <3>4. r.out[i].node = "agent"
      BY <1>5, <2>6, <3>3 DEF ReturnedAre
    <3>5. http => HasLine(r.out[i])
      BY <3>3 DEF HasLine
    <3>6. PICK l \in DOMAIN more: more[l] = r.out[i]
      BY <1>8, <3>5
    <3> QED BY <3>3, <3>4, <3>6 DEF OfAgent
  <2>10. AgentShown(answer, kept, value, more)
    BY <1>10, <2>2, <2>3, <2>4, <2>5, <2>7, <2>8, <2>9 DEF AgentShown
  <2> QED BY <2>10 DEF more
<1> QED BY <1>9, <1>10

\* What Stream says, by the lines of what came out.
LEMMA StreamIs ==
  ASSUME NEW fed, Stream(fed)
  PROVE  gate' = fed.gate /\ sent' = sent \o Lines(fed.out)
BY Zenon DEF Stream, Lines

\* No stream has shown anything before the first turn.
LEMMA InitStreamed == Init => Streamed
<1> SUFFICES ASSUME Init PROVE Streamed
  OBVIOUS
<1>1. PICK internal \in BOOLEAN, way \in Ways \cup {NoStream}:
        /\ http = way.http
        /\ gate = Gate(way.modes, way.single, way.subgraphs,
                       [agent |-> Declared("after" \in places, contract, internal),
                        tools |-> Declared(FALSE, "none", FALSE)])
  BY Zenon DEF Init
<1>2. contract \in Contracts /\ history = <<>> /\ sent = <<>> /\ returned = 0
  BY DEF Init
<1>3. /\ way.modes \in SUBSET Modes /\ way.single \in BOOLEAN /\ way.subgraphs \in BOOLEAN
      /\ way.http \in BOOLEAN
  <2>1. CASE way \in Ways
    BY <2>1 DEF Ways
  <2>2. CASE way = NoStream
    BY <2>2 DEF NoStream
  <2> QED BY <1>1, <2>1, <2>2
<1> DEFINE nodes == [agent |-> Declared("after" \in places, contract, internal),
                     tools |-> Declared(FALSE, "none", FALSE)]
<1>4. /\ DOMAIN nodes = Nodes
      /\ nodes["agent"].after <=> "after" \in places
      /\ nodes["agent"].contract = contract /\ nodes["tools"].contract = "none"
  BY DEF Nodes, Declared
<1> HIDE DEF nodes
<1>5. /\ GuardedNodes(nodes) \in SUBSET Nodes
      /\ ("agent" \in GuardedNodes(nodes)) <=> ("after" \in places \/ contract # "none")
  BY <1>4 DEF GuardedNodes, Nodes
<1> DEFINE structured == StructuredNodes(nodes, {"named", "found"})
           named == StructuredNodes(nodes, {"named"})
<1>6. /\ structured \in SUBSET Nodes /\ named \in SUBSET Nodes
      /\ ("agent" \in structured) <=> (contract # "none")
      /\ ("agent" \in named) <=> (contract = "named")
  BY <1>2, <1>4 DEF StructuredNodes, Nodes, Contracts
<1>7. InternalNodes(nodes) \in SUBSET Nodes
  BY <1>4 DEF InternalNodes
<1>8. gate = Gate(way.modes, way.single, way.subgraphs, nodes)
  BY <1>1, Zenon DEF nodes
<1>9. gate \in Gates
  BY <1>3, <1>5, <1>6, <1>7, <1>8 DEF Gate, Gates
<1>10. Gated
  <2> SUFFICES ASSUME ~gate.passthrough PROVE Gated
    BY DEF Gated
  <2>1. gate.guarded = GuardedNodes(nodes) /\ gate.structured = structured /\ gate.named = named
    BY <1>8 DEF Gate
  <2> QED BY <1>5, <1>6, <2>1 DEF Gated
<1>11. sent \in Seq(Items) /\ DOMAIN sent = {} /\ DOMAIN history = {}
  BY <1>2
<1>12. Shown
  <2>1. ValuesShown
    BY <1>2, <1>11 DEF ValuesShown, OfAgent
  <2> QED BY <1>2, <1>11, <2>1 DEF Shown, Answers, OfAgent
<1> QED BY <1>1, <1>2, <1>3, <1>9, <1>10, <1>11, <1>12 DEF Streamed

\* The steps that leave the thread and the stream alone.
LEMMA StreamRests ==
  ASSUME Streamed, UNCHANGED <<config, history, stream>>
  PROVE  Streamed'
<1>1. /\ places' = places /\ contract' = contract /\ http' = http /\ history' = history
      /\ gate' = gate /\ sent' = sent /\ returned' = returned
  BY DEF config, stream
<1>2. Gated'
  BY <1>1 DEF Streamed, Gated
<1>3. Answers' = Answers
  BY <1>1 DEF Answers, CanShow
<1>4. \A mode: OfAgent(sent, mode)' = OfAgent(sent, mode)
  BY <1>1 DEF OfAgent
<1>5. ValuesShown' <=> ValuesShown
  BY <1>1, <1>4 DEF ValuesShown
<1>6. Shown'
  BY <1>1, <1>3, <1>4, <1>5 DEF Streamed, Shown, ShowsIt
<1> QED BY <1>1, <1>2, <1>6 DEF Streamed

\* A turn begins with an empty stream, and its input has no answers.
LEMMA InputStreamed ==
  ASSUME Typed, Streamed, Input
  PROVE  Streamed'
<1> DEFINE n == Len(history)
<1>1. n \in Nat
  BY PlacesAreNumbers
<1>2. PICK bad \in [1..2 -> BOOLEAN], important \in BOOLEAN, first \in {"none", "human", "system"}:
        LET id == Len(history) + 1
            lead == [Message(id, first, bad[1], FALSE) EXCEPT !.led = TRUE]
            input == IF first = "none" THEN <<Message(id, "human", bad[2], important)>>
                     ELSE <<lead, Message(id + 1, "human", bad[2], important)>>
            guarded == Guarded(input, "input")
        IN /\ stage = "idle"
           /\ first = "none" => ~bad[1]
           /\ Fits(input)
           /\ ~guarded.blocked
           /\ history' = history \o Kept(guarded)
           /\ stage' = "agent"
           /\ gate' = [gate EXCEPT !.hold = {}]
           /\ sent' = <<>>
           /\ returned' = 0
           /\ UNCHANGED <<config, view, looked>>
  BY Zenon DEF Input
<1> DEFINE lead == [Message(n + 1, first, bad[1], FALSE) EXCEPT !.led = TRUE]
           alone == Message(n + 1, "human", bad[2], important)
           second == Message(n + 1 + 1, "human", bad[2], important)
           input == IF first = "none" THEN <<alone>> ELSE <<lead, second>>
           guarded == Guarded(input, "input")
           added == Kept(guarded)
<1>3. /\ ~guarded.blocked /\ history' = history \o added /\ stage' = "agent"
      /\ gate' = [gate EXCEPT !.hold = {}] /\ sent' = <<>> /\ returned' = 0 /\ UNCHANGED config
  BY <1>2, Zenon
<1>4. /\ alone \in Messages /\ alone.role = "human"
      /\ second \in Messages /\ second.role = "human"
      /\ first # "none" => lead \in Messages
  <2>1. /\ n + 1 \in Nat /\ n + 1 + 1 \in Nat
        /\ "human" \in Roles /\ (first # "none" => first \in Roles)
        /\ bad[1] \in BOOLEAN /\ bad[2] \in BOOLEAN
    BY <1>1 DEF Roles
  <2>2. alone \in Messages /\ alone.role = "human"
    BY <2>1 DEF Message, Messages
  <2>3. second \in Messages /\ second.role = "human"
    BY <2>1 DEF Message, Messages
  <2>4. ASSUME first # "none" PROVE lead \in Messages
    <3>1. first \in Roles /\ FALSE \in BOOLEAN
      BY <2>1, <2>4
    <3> QED BY <2>1, <3>1 DEF Message, Messages
  <2> QED BY <2>2, <2>3, <2>4
<1> HIDE DEF lead, alone, second
<1>5. input \in Seq(Messages) /\ Len(input) \in 1..2 /\ input[Len(input)].role = "human"
  <2>1. CASE first = "none"
    <3>1. input = <<alone>>
      BY <2>1
    <3> QED BY <1>4, <3>1
  <2>2. CASE first # "none"
    <3>1. input = <<lead, second>>
      BY <2>2
    <3> QED BY <1>4, <2>2, <3>1
  <2> QED BY <2>1, <2>2
<1> HIDE DEF input
<1>6. /\ added \in Seq(Messages) /\ Len(added) = Len(input)
      /\ \A k \in 1..Len(input): added[k].role = input[k].role
  BY <1>3, <1>5, KeptProperties
<1> HIDE DEF added, guarded
<1>7. added[Len(added)].role = "human" /\ Len(added) \in 1..2
  BY <1>5, <1>6
<1>8. /\ DOMAIN history' = 1..n + Len(added) /\ Len(history') = n + Len(added)
      /\ history'[n + Len(added)] = added[Len(added)]
  <2>1. history \in Seq(Messages)
    BY DEF Typed
  <2>2. /\ history \o added \in Seq(Messages)
        /\ Len(history \o added) = n + Len(added)
        /\ \A i \in 1..n + Len(added):
             (history \o added)[i] = IF i <= n THEN history[i] ELSE added[i - n]
    <3>1. added \in Seq(Messages)
      BY <1>6
    <3> QED BY ONLY <2>1, <3>1, ConcatProperties
  <2>3. /\ n + Len(added) \in 1..n + Len(added) /\ ~(n + Len(added) <= n)
        /\ (n + Len(added)) - n = Len(added)
    BY <1>1, <1>7, SMTT(40)
  <2>4. DOMAIN (history \o added) = 1..Len(history \o added)
    BY <2>2, LenProperties
  <2> QED BY <1>3, <2>2, <2>3, <2>4
<1> HIDE DEF n
<1>9. Answers' = {}
  <2> SUFFICES ASSUME NEW i \in DOMAIN history'
               PROVE  \E k \in i..Len(history'): history'[k].role = "human"
    BY DEF Answers
  <2>1. n + Len(added) \in i..Len(history')
    BY <1>1, <1>7, <1>8
  <2> QED BY <1>7, <1>8, <2>1
<1>10. sent' \in Seq(Items) /\ DOMAIN sent' = {}
  BY <1>3
<1>11. SameGate(gate, gate') /\ gate' \in Gates
  <2>1. gate' \in Gates
    BY <1>3 DEF Streamed, Gates
  <2> QED BY <1>3, <2>1 DEF SameGate, Streamed, Gates
<1>12. places' = places /\ contract' = contract /\ http' = http
  BY <1>3 DEF config
<1>13. Gated'
  BY <1>11, <1>12 DEF Streamed, Gated, SameGate
<1>14. Shown'
  <2>1. ValuesShown'
    BY <1>3, <1>10 DEF ValuesShown, OfAgent
  <2> QED BY <1>9, <1>10, <2>1 DEF Shown, OfAgent
<1> QED BY <1>3, <1>10, <1>11, <1>12, <1>13, <1>14 DEF Streamed

\* A step that adds nothing to the thread and lets the agent node's tokens
\* through, or not.
LEMMA TokensStep ==
  ASSUME Typed, Streamed, UNCHANGED <<config, history, returned>>,
         NEW answer \in Messages, Stream(Tokens("agent", <<answer>>))
  PROVE  Streamed'
<1> DEFINE f == Tokens("agent", <<answer>>)
           more == Lines(f.out)
           added == <<>>
<1>1. gate' = f.gate /\ sent' = sent \o more
  BY StreamIs
<1>2. /\ SameGate(gate, f.gate) /\ more \in Seq(Items)
      /\ "agent" \in gate.internal \cup gate.guarded => DOMAIN more = {}
  <2>1. gate \in Gates
    BY DEF Streamed
  <2> QED BY <2>1, AgentTokens
<1>3. OfAgent(more, "structured") = {}
  <2> DEFINE out == f.out
  <2>1. gate \in Gates /\ "agent" \in Nodes /\ <<answer>> \in Seq(Messages)
    BY DEF Streamed, Nodes
  <2>2. TokensAre("agent", <<answer>>, f)
    BY <2>1, TokensProperties
  <2> HIDE DEF f
  <2>3. out \in Seq(Items) /\ \A k \in DOMAIN out: out[k].mode = "messages"
    BY <2>2 DEF TokensAre, Item
  <2> HIDE DEF out
  <2>4. \A k \in DOMAIN Lines(out): Lines(out)[k].mode = "messages"
    BY <2>3, LinesProperties
  <2> QED BY <2>4 DEF OfAgent, out
<1>4. added \in Seq(Messages) /\ Len(added) = 0 /\ 1..Len(added) = {}
  OBVIOUS
<1>5. history' = history \o added
  <2>1. history \in Seq(Messages)
    BY DEF Typed
  <2> QED BY <2>1, ConcatEmptySeq
<1> HIDE DEF f, more, added
<1>6. "agent" \in gate.internal \cup gate.guarded =>
        OfAgent(more, "messages") = {} /\ \A k \in DOMAIN more: more[k].node # "agent"
  BY <1>2 DEF OfAgent
<1>7. ValuesAdded(more)
  <2>1. returned' = returned /\ returned \in Nat
    BY DEF Streamed
  <2>2. returned + 1..returned' = {}
    BY <2>1
  <2> QED BY <1>3, <2>2, Zenon DEF ValuesAdded
<1>8. Adds(added, more)
  BY <1>1, <1>2, <1>4, <1>5, <1>6, <1>7 DEF Adds
<1>9. UNCHANGED config
  OBVIOUS
<1> QED BY <1>8, <1>9, StreamStep

\* A step that keeps what the agent node returned, and shows it.
LEMMA ReturnedStep ==
  ASSUME Typed, Streamed, UNCHANGED config, NEW answer \in Messages, NEW kept \in Seq(Messages),
         history' = history \o kept, NEW value \in {0, returned + 1},
         Stream(Returned(Tokens("agent", <<answer>>), "agent", kept, value)),
         returned' = IF value = 0 THEN returned ELSE value,
         value # 0 => contract # "none",
         Len(kept) \in 0..1,
         \A k \in 1..Len(kept): /\ kept[k].id = Len(history) + 1 /\ kept[k].role \in {"ai", "call"}
                                /\ kept[k].role = answer.role /\ kept[k].id = answer.id
                                /\ kept[k].text = answer.text
                                /\ "after" \notin places => kept[k].bad = answer.bad
  PROVE  Streamed'
<1> DEFINE r == Returned(Tokens("agent", <<answer>>), "agent", kept, value)
           more == Lines(r.out)
<1>1. gate' = r.gate /\ sent' = sent \o more
  BY StreamIs
<1>2. returned \in Nat /\ value \in Nat
  BY DEF Streamed
<1>3. SameGate(gate, r.gate) /\ r.out \in Seq(Items)
  <2> DEFINE f == Tokens("agent", <<answer>>)
  <2>1. gate \in Gates /\ "agent" \in Nodes
    BY DEF Streamed, Nodes
  <2>2. SameGate(gate, f.gate) /\ f.out \in Seq(Items)
    BY <2>1, AgentTokens
  <2>3. r = Returned(f, "agent", kept, value)
    OBVIOUS
  <2> HIDE DEF f, r
  <2>4. ReturnedAre(f, "agent", kept, value, r)
    BY <1>2, <2>1, <2>2, <2>3, ReturnedProperties
  <2> QED BY <2>4 DEF ReturnedAre
<1>4. ~gate.passthrough => AgentShown(answer, kept, value, more)
  <2>1. gate \in Gates
    BY DEF Streamed
  <2> QED BY <1>2, <2>1, AgentReturns
<1> HIDE DEF r
<1>5. more \in Seq(Items)
  BY <1>3, LinesProperties
<1> HIDE DEF more
<1>6. \A k \in 1..Len(kept): k = 1 /\ kept[k] = Last(kept) /\ kept[k] \in Messages
  <2>1. \A k \in 1..Len(kept): k = 1 /\ Len(kept) = 1
    OBVIOUS
  <2> QED BY <2>1, ElementOfSeq DEF Last
<1>7. kept # <<>> => Len(kept) = 1 /\ Last(kept) = kept[1] /\ 1 \in 1..Len(kept)
  <2>1. Len(kept) = 0 => kept = <<>>
    BY EmptySeq
  <2>2. Len(kept) = 1 => 1 \in 1..Len(kept)
    OBVIOUS
  <2> QED BY <1>6, <2>1, <2>2
<1>8. \A k \in 1..Len(kept): kept # <<>>
  <2>1. Len(<<>>) = 0
    OBVIOUS
  <2> QED BY <1>6, <2>1
<1>9. \A k \in 1..Len(kept): /\ kept[k].id = Len(history) + k /\ kept[k].role # "human"
                             /\ CanShow(kept[k]) => CanShow(answer)
  <2>1. \A k \in 1..Len(kept): k = 1
    BY <1>6
  <2> QED BY <2>1 DEF CanShow
<1>10. \A m: <<m>>[1] = m
  OBVIOUS
<1>11. ASSUME ~gate.passthrough, "agent" \notin gate.internal, "messages" \in gate.requested,
              NEW k \in 1..Len(kept), CanShow(kept[k])
       PROVE  \E l \in OfAgent(more, "messages"): ShowsIt(more[l], kept[k].id, kept[k])
  <2>1. kept # <<>> /\ kept[k] = Last(kept) /\ CanShow(answer)
    BY <1>6, <1>8, <1>9, <1>11
  <2>2. CASE "agent" \in gate.guarded
    <3>1. PICK l \in OfAgent(more, "messages"): more[l].messages = <<Chunk(Last(kept))>>
      BY <1>4, <1>11, <2>1, <2>2 DEF AgentShown
    <3>2. more[l].messages[1] = Chunk(kept[k])
      BY <1>10, <2>1, <3>1
    <3>3. kept[k] \in Messages
      BY <1>6
    <3> QED BY <2>2, <3>2, <3>3, ChunkIs DEF ShowsIt
  <2>3. CASE "agent" \notin gate.guarded
    <3>1. PICK l \in OfAgent(more, "messages"): more[l].messages = <<answer>>
      BY <1>4, <1>11, <2>1, <2>3 DEF AgentShown
    <3>2. more[l].messages[1] = answer
      BY <1>10, <3>1
    <3>3. "after" \notin places
      BY <1>11, <2>3 DEF Streamed, Gated
    <3> QED BY <2>3, <3>2, <3>3 DEF ShowsIt
  <2> QED BY <2>2, <2>3
<1>12. ASSUME ~gate.passthrough, "agent" \notin gate.internal, "agent" \in gate.guarded,
              NEW l \in OfAgent(more, "messages")
       PROVE  \E k \in 1..Len(kept): CanShow(kept[k]) /\ ShowsIt(more[l], kept[k].id, kept[k])
  <2>1. kept # <<>> /\ more[l].messages = <<Chunk(Last(kept))>> /\ CanShow(Last(kept))
    BY <1>4, <1>12 DEF AgentShown
  <2>2. 1 \in 1..Len(kept) /\ more[l].messages[1] = Chunk(kept[1]) /\ CanShow(kept[1])
    BY <1>7, <1>10, <2>1
  <2>3. kept[1] \in Messages
    BY <1>6, <2>2
  <2> QED BY <1>12, <2>2, <2>3, ChunkIs DEF ShowsIt
<1>13. ASSUME ~gate.passthrough, "agent" \notin gate.internal, "agent" \in gate.guarded
       PROVE  \A k, l \in OfAgent(more, "messages"): k = l
  BY <1>4, <1>13 DEF AgentShown
<1>14. ASSUME ~gate.passthrough, "agent" \notin gate.internal PROVE ValuesAdded(more)
  <2> DEFINE shown == OfAgent(more, "structured")
  <2>1. /\ \A l \in shown: more[l].value = value /\ ~gate.single /\ (value # 0 \/ "agent" \in gate.named)
        /\ \A k, l \in shown: k = l
        /\ ("agent" \in gate.structured /\ ~gate.single /\ value # 0) => \E l \in shown: more[l].value = value
    BY <1>4, <1>14 DEF AgentShown
  <2>2. /\ ("agent" \in gate.structured) <=> (contract # "none")
        /\ ("agent" \in gate.named) <=> (contract = "named")
    BY <1>14 DEF Streamed, Gated
  <2> HIDE DEF shown
  <2>3. CASE gate.single
    <3>1. shown = {}
      BY <2>1, <2>3
    <3> QED BY <2>3, <3>1, Zenon DEF ValuesAdded, shown
  <2>4. CASE ~gate.single
    <3>1. ASSUME NEW n \in returned + 1..returned' PROVE \E k \in shown: more[k].value = n
      <4>1. value # 0 /\ n = value
        BY <1>2
      <4> QED BY <2>1, <2>2, <2>4, <4>1
    <3>2. ASSUME NEW k \in shown
          PROVE  more[k].value \in returned + 1..returned' \/ (contract = "named" /\ more[k].value = 0)
      <4>1. more[k].value = value /\ (value # 0 \/ contract = "named")
        BY <2>1, <2>2
      <4> QED BY <1>2, <4>1
    <3> QED BY <2>1, <2>4, <3>1, <3>2, Zenon DEF ValuesAdded, shown
  <2> QED BY <2>3, <2>4
<1>15. ASSUME ~gate.passthrough, "agent" \in gate.internal
       PROVE  \A k \in DOMAIN more: more[k].node = "agent" => more[k].mode = "values"
  BY <1>4, <1>15 DEF AgentShown
<1>16. SameGate(gate, gate') /\ returned' \in {returned, returned + 1}
  BY <1>1, <1>2, <1>3
<1>17. Adds(kept, more)
  BY <1>1, <1>5, <1>9, <1>11, <1>12, <1>13, <1>14, <1>15, <1>16, ZenonT(60) DEF Adds
<1> QED BY <1>17, StreamStep

\* What the model answers.
LEMMA AnswerTyped ==
  ASSUME Typed, NEW role \in {"ai", "call"}, NEW bad \in BOOLEAN, NEW important \in BOOLEAN
  PROVE  /\ Message(Len(history) + 1, role, bad, important) \in Messages
         /\ Message(Len(history) + 1, role, bad, important).id = Len(history) + 1
         /\ Message(Len(history) + 1, role, bad, important).role = role
         /\ \A text \in BOOLEAN:
              LET m == [Message(Len(history) + 1, role, bad, important) EXCEPT !.text = text]
              IN m \in Messages /\ m.id = Len(history) + 1 /\ m.role = role
<1>1. Len(history) + 1 \in Nat /\ role \in Roles
  BY PlacesAreNumbers DEF Roles
<1> QED BY <1>1 DEF Message, Messages

LEMMA ModelStreamed ==
  ASSUME Typed, Streamed, Model
  PROVE  Streamed'
<1>1. PICK role \in {"ai", "call"}, text, bad, important, valued \in BOOLEAN:
        LET answer == <<[Message(Len(history) + 1, role, bad, important) EXCEPT !.text = text]>>
            guarded == Guarded(answer, "after")
        IN /\ stage = "model"
           /\ text \/ (role = "call" /\ ~bad)
           /\ valued => contract # "none"
           /\ Fits(answer)
           /\ stage' = IF guarded.blocked THEN "idle" ELSE IF role = "call" THEN "tools" ELSE "output"
           /\ history' = IF guarded.blocked THEN history ELSE history \o Kept(guarded)
           /\ view' = <<>>
           /\ Stream(IF guarded.blocked THEN Tokens("agent", answer)
                     ELSE Returned(Tokens("agent", answer), "agent", Kept(guarded), Valued(valued)))
           /\ returned' = IF valued /\ ~guarded.blocked THEN returned + 1 ELSE returned
           /\ UNCHANGED <<config, looked>>
  BY Zenon DEF Model
<1> DEFINE message == [Message(Len(history) + 1, role, bad, important) EXCEPT !.text = text]
           guarded == Guarded(<<message>>, "after")
           kept == Kept(guarded)
           value == Valued(valued)
<1>2. /\ valued => contract # "none"
      /\ history' = IF guarded.blocked THEN history ELSE history \o kept
      /\ Stream(IF guarded.blocked THEN Tokens("agent", <<message>>)
                ELSE Returned(Tokens("agent", <<message>>), "agent", kept, value))
      /\ returned' = IF valued /\ ~guarded.blocked THEN returned + 1 ELSE returned
      /\ UNCHANGED config
  BY <1>1, Zenon
<1>3. message \in Messages /\ message.id = Len(history) + 1 /\ message.role = role
  BY AnswerTyped
<1> HIDE DEF message
<1>4. <<message>> \in Seq(Messages) /\ Len(<<message>>) = 1 /\ <<message>>[1] = message
  BY <1>3
<1>5. CASE guarded.blocked
  <2>1. /\ history' = history /\ returned' = returned /\ UNCHANGED config
        /\ Stream(Tokens("agent", <<message>>))
    BY <1>2, <1>5, Zenon
  <2> HIDE DEF guarded
  <2> QED BY <1>3, <2>1, TokensStep
<1>6. CASE ~guarded.blocked
  <2>1. /\ history' = history \o kept /\ UNCHANGED config
        /\ Stream(Returned(Tokens("agent", <<message>>), "agent", kept, value))
        /\ returned' = IF valued THEN returned + 1 ELSE returned
    BY <1>2, <1>6, Zenon
  <2>2. /\ kept \in Seq(Messages) /\ Len(kept) = Len(<<message>>)
        /\ \A i \in 1..Len(<<message>>):
             /\ kept[i].id = <<message>>[i].id /\ kept[i].role = <<message>>[i].role
             /\ kept[i].text = <<message>>[i].text
    <3> DEFINE answer == <<message>>
    <3>1. answer \in Seq(Messages) /\ guarded = Guarded(answer, "after") /\ ~guarded.blocked
      BY <1>4, <1>6
    <3> HIDE DEF answer, guarded
    <3>2. /\ Kept(guarded) \in Seq(Messages) /\ Len(Kept(guarded)) = Len(answer)
          /\ \A i \in 1..Len(answer):
               /\ Kept(guarded)[i].id = answer[i].id /\ Kept(guarded)[i].role = answer[i].role
               /\ Kept(guarded)[i].text = answer[i].text
      BY <3>1, KeptProperties
    <3> QED BY <3>2, Zenon DEF answer
  <2>3. ASSUME "after" \notin places PROVE kept[1].bad = message.bad
    <3>1. guarded = [blocked |-> FALSE, looked |-> {}, value |-> <<message>>]
      BY <2>3, Zenon DEF Guarded
    <3>2. kept = [i \in DOMAIN <<message>> |-> [<<message>>[i] EXCEPT !.met = i \in {}]]
      BY <3>1 DEF Kept
    <3> DEFINE met == 1 \in {}
    <3>3. 1 \in DOMAIN <<message>>
      OBVIOUS
    <3>4. kept[1] = [<<message>>[1] EXCEPT !.met = met]
      BY <3>2, <3>3, Zenon
    <3>5. met \in BOOLEAN
      OBVIOUS
    <3> HIDE DEF met, kept
    <3>6. kept[1] = [message EXCEPT !.met = met]
      BY <1>4, <3>4
    <3>7. [message EXCEPT !.met = met].bad = message.bad
      BY <1>3, <3>5, MarkTyped
    <3> QED BY <3>6, <3>7
  <2> HIDE DEF kept, guarded
  <2>4. /\ Len(kept) = 1 /\ kept[1].id = message.id /\ kept[1].role = message.role
        /\ kept[1].text = message.text
    BY <1>4, <2>2
  <2>5. Len(kept) \in 0..1 /\ \A k \in 1..Len(kept): k = 1
    BY <2>4
  <2>6. \A k \in 1..Len(kept):
          /\ kept[k].id = Len(history) + 1 /\ kept[k].role \in {"ai", "call"}
          /\ kept[k].role = message.role /\ kept[k].id = message.id
          /\ kept[k].text = message.text
          /\ "after" \notin places => kept[k].bad = message.bad
    BY <1>3, <2>3, <2>4, <2>5
  <2>7. /\ value \in {0, returned + 1} /\ returned' = IF value = 0 THEN returned ELSE value
        /\ value # 0 => contract # "none"
    <3>1. returned \in Nat
      BY DEF Streamed
    <3> QED BY <1>2, <2>1, <3>1 DEF Valued
  <2> HIDE DEF value
  <2> QED BY <1>3, <2>1, <2>2, <2>5, <2>6, <2>7, ReturnedStep
<1> QED BY <1>5, <1>6

LEMMA ModelFailsStreamed ==
  ASSUME Typed, Streamed, ModelFails
  PROVE  Streamed'
<1>1. PICK bad \in BOOLEAN, next \in {"idle", "model"}:
        /\ Stream(Tokens("agent", <<Message(Len(history) + 1, "ai", bad, FALSE)>>))
        /\ UNCHANGED <<config, history, looked, returned>>
  BY Zenon DEF ModelFails
<1>2. Message(Len(history) + 1, "ai", bad, FALSE) \in Messages
  BY AnswerTyped
<1> QED BY <1>1, <1>2, TokensStep

LEMMA ExtractStreamed ==
  ASSUME Typed, Streamed, Extract
  PROVE  Streamed'
<1>1. PICK bad \in BOOLEAN:
        /\ contract # "none"
        /\ Stream(Returned(Tokens("agent", <<Message(Len(history) + 1, "ai", bad, FALSE)>>),
                           "agent", <<>>, Valued(TRUE)))
        /\ returned' = returned + 1
        /\ UNCHANGED <<config, history, looked>>
  BY Zenon DEF Extract
<1> DEFINE message == Message(Len(history) + 1, "ai", bad, FALSE)
           kept == <<>>
           value == Valued(TRUE)
<1>2. message \in Messages
  BY AnswerTyped
<1>3. Stream(Returned(Tokens("agent", <<message>>), "agent", kept, value))
  BY <1>1
<1>4. kept \in Seq(Messages) /\ Len(kept) \in 0..1 /\ 1..Len(kept) = {}
  OBVIOUS
<1>5. history' = history \o kept
  <2>1. history \in Seq(Messages)
    BY DEF Typed
  <2> QED BY <1>1, <2>1, ConcatEmptySeq
<1>6. UNCHANGED config
  BY <1>1
<1>7. /\ value \in {0, returned + 1} /\ returned' = IF value = 0 THEN returned ELSE value
      /\ value # 0 => contract # "none"
  <2>1. returned \in Nat
    BY DEF Streamed
  <2> QED BY <1>1, <2>1 DEF Valued
<1> HIDE DEF message, kept, value
<1> QED BY <1>2, <1>3, <1>4, <1>5, <1>6, <1>7, ReturnedStep

\* The tools say nothing in the agent node's name.
LEMMA ToolsStreamed ==
  ASSUME Typed, Streamed, Tools
  PROVE  Streamed'
<1> DEFINE n == Len(history)
<1>1. n \in Nat
  BY PlacesAreNumbers
<1>2. PICK bad \in [1..2 -> BOOLEAN], l \in 1..2, important \in BOOLEAN:
        LET results == [i \in 1..l |->
                          Message(Len(history) + i, "tool", bad[i], important /\ i = 1)]
        IN /\ history' = history \o results
           /\ stage' = "agent"
           /\ Stream(Returned(Tokens("tools", results), "tools", results, 0))
           /\ UNCHANGED <<config, view, looked, returned>>
  BY Zenon DEF Tools
<1> DEFINE result(i) == Message(n + i, "tool", bad[i], important /\ i = 1)
           added == [i \in 1..l |-> result(i)]
<1>3. ASSUME NEW i \in 1..l
      PROVE  result(i) \in Messages /\ result(i).id = n + i /\ result(i).role = "tool"
  <2> DEFINE special == important /\ i = 1
  <2>1. n + i \in Nat /\ "tool" \in Roles /\ bad[i] \in BOOLEAN /\ special \in BOOLEAN
    BY <1>1 DEF Roles
  <2> HIDE DEF special
  <2>2. LET m == Message(n + i, "tool", bad[i], special)
        IN m \in Messages /\ m.id = n + i /\ m.role = "tool"
    BY <2>1 DEF Message, Messages
  <2> QED BY <2>2 DEF special
<1>4. /\ history' = history \o added /\ returned' = returned /\ UNCHANGED config
      /\ Stream(Returned(Tokens("tools", added), "tools", added, 0))
  BY <1>2, Zenon
<1> HIDE DEF result
<1>5. added \in Seq(Messages) /\ Len(added) = l
      /\ \A i \in 1..l: added[i].id = n + i /\ added[i].role = "tool"
  <2>1. added \in [1..l -> Messages]
    BY <1>3
  <2>2. l \in Nat
    OBVIOUS
  <2>3. added \in Seq(Messages) /\ Len(added) = l
    BY <2>1, <2>2, SeqDef, LenProperties
  <2> QED BY <1>3, <2>3
<1> HIDE DEF added
<1> DEFINE f == Tokens("tools", added)
           r == Returned(f, "tools", added, 0)
           more == Lines(r.out)
<1>6. "tools" \in Nodes /\ gate \in Gates
  BY DEF Nodes, Streamed
<1>7. TokensAre("tools", added, f)
  BY <1>5, <1>6, TokensProperties
<1>8. Stream(r)
  BY <1>4
<1> HIDE DEF f
<1>9. SameGate(gate, f.gate) /\ f.out \in Seq(Items)
  BY <1>7 DEF TokensAre
<1>10. ReturnedAre(f, "tools", added, 0, r)
  BY <1>5, <1>6, <1>9, ReturnedProperties
<1> HIDE DEF r
<1>11. gate' = r.gate /\ sent' = sent \o more /\ SameGate(gate, r.gate) /\ r.out \in Seq(Items)
  BY <1>8, <1>10, StreamIs DEF ReturnedAre
<1>12. \A k \in DOMAIN r.out: r.out[k].node = "tools"
  <2>1. \A k \in DOMAIN f.out: f.out[k].node = "tools"
    BY <1>7 DEF TokensAre, Item
  <2> QED BY <1>10, <2>1 DEF ReturnedAre
<1>13. more \in Seq(Items) /\ \A k \in DOMAIN more: more[k].node = "tools"
  BY <1>11, <1>12, LinesProperties
<1> HIDE DEF more
<1>14. OfAgent(more, "messages") = {} /\ OfAgent(more, "structured") = {}
  BY <1>13 DEF OfAgent
<1>15. \A k \in 1..Len(added): added[k].id = n + k /\ added[k].role # "human" /\ ~CanShow(added[k])
  BY <1>5 DEF CanShow
<1>16. ValuesAdded(more)
  <2>1. returned' = returned /\ returned \in Nat
    BY <1>4 DEF Streamed
  <2>2. returned + 1..returned' = {}
    BY <2>1
  <2> QED BY <1>14, <2>2, Zenon DEF ValuesAdded
<1>17. Adds(added, more)
  BY <1>4, <1>5, <1>11, <1>13, <1>14, <1>15, <1>16 DEF Adds
<1> QED BY <1>4, <1>17, StreamStep

\* Every step keeps the invariant.
LEMMA NextStreamed == Typed /\ Streamed /\ [Next]_vars => Streamed'
<1> SUFFICES ASSUME Typed, Streamed, [Next]_vars PROVE Streamed'
  OBVIOUS
<1>1. CASE Input
  BY <1>1, InputStreamed
<1>2. CASE AgentNode
  <2>1. UNCHANGED <<config, history, stream>>
    BY <1>2 DEF AgentNode
  <2> QED BY <2>1, StreamRests
<1>3. CASE Model
  BY <1>3, ModelStreamed
<1>4. CASE ModelFails
  BY <1>4, ModelFailsStreamed
<1>5. CASE Extract
  BY <1>5, ExtractStreamed
<1>6. CASE Tools
  BY <1>6, ToolsStreamed
<1>7. CASE ToolBlocked
  BY <1>7, StreamRests DEF ToolBlocked
<1>8. CASE Output
  BY <1>8, StreamRests DEF Output
<1>9. CASE UNCHANGED vars
  <2>1. UNCHANGED <<config, history, stream>>
    BY <1>9 DEF vars
  <2> QED BY <2>1, StreamRests
<1> QED BY <1>1, <1>2, <1>3, <1>4, <1>5, <1>6, <1>7, <1>8, <1>9, Zenon DEF Next

-----------------------------------------------------------------------------
(* The theorems.                                                           *)

\* The inductive invariant holds in every state of every conversation.
THEOREM InductiveInvariant == Spec => []Inv
BY InitInv, NextInv, PTL DEF Spec

\* Every message of the thread is known by its place, and only messages of the
\* thread are remembered as looked at.
THEOREM TypeCorrect == Spec => []Typed
<1>1. Inv => Typed
  BY DEF Inv
<1> QED BY <1>1, InductiveInvariant, PTL

\* What was looked at on its way into the thread and offends is there only
\* because the guardrail warns (effective_severity, _check_leaf, bind).
THEOREM OffencesHandled == Spec => []OffencesAreHandled
<1>1. Inv => OffencesAreHandled
  BY DEF Inv, Handled
<1> QED BY <1>1, InductiveInvariant, PTL

\* What the model is asked with has the thread in its order, leaves out the
\* oldest plain messages only, keep_recent of them at least stay, and a summary
\* stands for exactly what is left out (ContextManager.reduce).
THEOREM ViewsComplete == Spec => []ViewsAreComplete
<1>1. Inv => ViewsAreComplete
  BY ViewedIsComplete DEF Inv
<1> QED BY <1>1, InductiveInvariant, PTL

\* A view does not part a call from its results, and what is left of the
\* conversation begins with a human turn (the cut of ContextManager.reduce).
THEOREM PairsKept == Spec => []PairsStayTogether
<1>1. Inv => PairsStayTogether
  BY ViewedKeepsPairs DEF Inv
<1> QED BY <1>1, InductiveInvariant, PTL

\* With the guardrail in front of the agent node, the model is asked with nothing
\* from a user or a tool that was not looked at, in this turn or an earlier one
\* (_tail_start), but for the exceptions AskedWasLookedAt names.
THEOREM AskedLookedAt == Spec => []AskedWasLookedAt
<1>1. Inv => AskedWasLookedAt
  <2> SUFFICES ASSUME Inv, stage = "model", "before" \in places, keep # 0,
                      NEW i \in DOMAIN history \ Missing
               PROVE  \/ i \in looked
                      \/ history[i].role \notin {"human", "tool"}
                      \/ history[i].led
                      \/ \E j \in looked: SameCall(j, i) /\ history[j].bad
    BY DEF AskedWasLookedAt
  <2>1. IsCovered(i)
    BY DEF Inv, Covered
  <2> QED BY <2>1 DEF IsCovered
<1> QED BY <1>1, InductiveInvariant, PTL

\* What a stream shows of the agent node is what came of it: with an after pipeline
\* or a contract every message once, with the text that was kept and without its
\* calls; every structured value once; of an internal node nothing but the state
\* (_StreamGate.feed, _final_ai_chunk, _stream_line).
THEOREM StreamsShown == Spec => []StreamsShowWhatWasKept
<1>1. Spec => []Streamed
  BY TypeCorrect, InitStreamed, NextStreamed, PTL DEF Spec
<1> QED BY <1>1, ShownIsProperty, PTL
=============================================================================
