----------------------------- MODULE StreamGate -----------------------------
(***************************************************************************)
(* The filter between LangGraph's stream and the caller of stream() and    *)
(* astream() (_StreamGate in klafi/core/base_graph.py) as operators.       *)
(*                                                                         *)
(* An item of a stream has a mode, the node it comes from, the messages it *)
(* carries and the structured value, 0 for none.  The gate asks LangGraph  *)
(* for more modes than its caller, to learn when a node has completed.     *)
(***************************************************************************)
EXTENDS Naturals, Sequences, FiniteSets, SequencesExt

Modes == {"messages", "updates", "values"}

Item(mode, node, messages, value) ==
  [mode |-> mode, node |-> node, messages |-> messages, value |-> value]

\* The output contract of a node names the key of its value or has it found.
Contracts == {"none", "named", "found"}

\* What a node declares: an after pipeline, an output contract, its visibility.
Declared(after, contract, internal) == [after |-> after, contract |-> contract, internal |-> internal]

\* _install_node_hooks: the tokens of a node with an after pipeline or a contract
\* are not shown as they come.
GuardedNodes(nodes) == {n \in DOMAIN nodes: nodes[n].after \/ nodes[n].contract # "none"}
InternalNodes(nodes) == {n \in DOMAIN nodes: nodes[n].internal}
StructuredNodes(nodes, contracts) == {n \in DOMAIN nodes: nodes[n].contract \in contracts}

\* The gate of one stream: the modes asked for, one by name or a list of them; the
\* streams of subgraphs pass it unfiltered.
Gate(modes, single, subgraphs, nodes) ==
  [requested |-> modes,
   single |-> single,
   passthrough |-> subgraphs,
   guarded |-> IF subgraphs THEN {} ELSE GuardedNodes(nodes),
   internal |-> IF subgraphs THEN {} ELSE InternalNodes(nodes),
   structured |-> IF subgraphs THEN {} ELSE StructuredNodes(nodes, {"named", "found"}),
   named |-> IF subgraphs THEN {} ELSE StructuredNodes(nodes, {"named"}),
   hold |-> {}]            \* the nodes whose tokens are held back

\* internal_modes: what LangGraph is asked for.
Subscribed(gate) == gate.requested \cup (IF gate.passthrough THEN {} ELSE {"values", "updates"})

-----------------------------------------------------------------------------
\* Faulty variant: the tokens of a guarded node are shown.
WithholdsInternal(gate, item) == item.mode \in {"messages", "updates"} /\ item.node \in gate.internal

\* Is an item kept from the caller: tokens of guarded nodes, and whatever comes
\* from internal ones but values.
Withholds(gate, item) ==
  \/ item.mode \in {"messages", "updates"} /\ item.node \in gate.internal
  \/ item.mode = "messages" /\ item.node \in gate.guarded

\* An AIMessageChunk made of a message's content and id: neither the calls it makes
\* nor its mark as important come along.
Chunk(message) == [message EXCEPT !.role = "ai", !.important = FALSE]

\* The message an update ends with, as one chunk: none unless it is the model's
\* (_final_ai_chunk).
FinalChunk(item) ==
  IF item.messages # <<>> /\ Last(item.messages).role \in {"ai", "call"}
  THEN <<Item("messages", item.node, <<Chunk(Last(item.messages))>>, 0)>> ELSE <<>>

\* The message that was held back.
HeldBack(gate, item) ==
  IF item.node \in gate.hold /\ "messages" \in gate.requested THEN FinalChunk(item) ELSE <<>>

\* An update shows a structured value, which has no place in a stream of one mode:
\* under a key that the contract names even if the update has no value there.
ShowsValue(gate, item) ==
  /\ item.node \in gate.structured
  /\ ~gate.single
  /\ item.node \in gate.named \/ item.value # 0

Structured(gate, item) ==
  IF ShowsValue(gate, item) THEN <<Item("structured", item.node, <<>>, item.value)>> ELSE <<>>

\* What the completion of a node adds.
Completion(gate, item) == HeldBack(gate, item) \o Structured(gate, item)

\* feed.
Feed(gate, item) ==
  IF Withholds(gate, item)
  THEN [gate |-> IF item.node \in gate.internal THEN gate
                 ELSE [gate EXCEPT !.hold = @ \cup {item.node}],
        out |-> <<>>]
  ELSE [gate |-> IF item.mode = "updates" THEN [gate EXCEPT !.hold = @ \ {item.node}] ELSE gate,
        out |-> (IF item.mode = "updates" THEN Completion(gate, item) ELSE <<>>)
                  \o (IF item.mode \in gate.requested THEN <<item>> ELSE <<>>)]

\* An item of LangGraph's stream, which has the modes it was asked for, through
\* the gate, behind what has come out of it.
Through(fed, item) ==
  LET step == Feed(fed.gate, item)
  IN IF item.mode \in Subscribed(fed.gate)
     THEN [gate |-> step.gate, out |-> fed.out \o step.out]
     ELSE fed

-----------------------------------------------------------------------------
\* The ways to have a result streamed: for one mode or for a list, with or without
\* the streams of subgraphs; over HTTP always for a list (_stream_modes).
Ways ==
  {way \in [modes: SUBSET Modes \ {{}}, single: BOOLEAN, subgraphs: BOOLEAN, http: BOOLEAN]:
     /\ way.single => Cardinality(way.modes) = 1
     /\ way.http => ~way.single /\ ~way.subgraphs}

\* _stream_line: over HTTP, what has no text or is not the model's makes no line
\* under "messages".
HasLine(item) ==
  item.mode = "messages" => item.messages[1].role \in {"ai", "call"} /\ item.messages[1].text
=============================================================================
