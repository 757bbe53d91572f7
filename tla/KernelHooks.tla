----------------------------- MODULE KernelHooks -----------------------------
(***************************************************************************)
(* The CUDA hooks of the talker: called by ggml before a graph is computed *)
(* and before each of its nodes, they compute the products of one layer    *)
(* together, skip those already made, and quantize a shared input once.    *)
(* They promise that nobody notices.                                       *)
(*                                                                         *)
(* A tensor is known by the buffer its graph was built in and its place    *)
(* there, its value by its place; ggml's allocator gives a value's memory  *)
(* to another tensor once nothing is left to read it. The settings are the *)
(* environment's opt-outs. The vocoder's graphs run with a context that is *)
(* never the talker's, so each hook returns at once and nothing changes.   *)
(***************************************************************************)
EXTENDS Integers, Sequences, SequencesExt, FiniteSetsExt, Job

CONSTANTS HookLayers,  \* layers of a model
          HookSteps    \* predictions of a code predictor graph after its prefill

ASSUME KernelHooksAssumption == HookLayers \in Nat \ {0} /\ HookSteps \in Nat

-----------------------------------------------------------------------------
(* HookedGraphs. one: a single token, so that the products are of the kind the   *)
(* hooks take; w: which weight a product is with.                          *)

Tensor(op, src, one, w) ==
  [op |-> op, src |-> SelectSeq(src, LAMBDA s : s > 0), reads |-> {}, one |-> one, w |-> w]
Plainly(op, src) == Tensor(op, src, FALSE, "")

\* One layer, on the tensors up to b, of which in is its input (0: the
\* graph's own). What a token attends is in the cache, for several tokens
\* at hand.
HookLayer(b, in, one) ==
  << Plainly("norm", <<in>>),
     Tensor("product", <<b + 1>>, one, "q"), Tensor("product", <<b + 1>>, one, "k"),
     Tensor("product", <<b + 1>>, one, "v"),
     Plainly("rope", <<b + 2>>), Plainly("rope", <<b + 3>>),
     Plainly("store", <<b + 6>>), Plainly("store", <<b + 4>>),
     [Plainly("attend", IF one THEN <<b + 5>> ELSE <<b + 5, b + 6, b + 4>>)
        EXCEPT !.reads = {b + 7, b + 8}],
     Tensor("product", <<b + 9>>, one, "out"), Plainly("add", <<b + 10, in>>),
     Plainly("norm", <<b + 11>>),
     Tensor("product", <<b + 12>>, one, "gate"), Tensor("product", <<b + 12>>, one, "up"),
     Plainly("silu", <<b + 13>>), Plainly("mul", <<b + 15, b + 14>>),
     Tensor("product", <<b + 16>>, one, "down"), Plainly("add", <<b + 17, b + 11>>) >>

\* The layers and the head of one pass over the model.
HookPass(built, one) ==
  LET in == Len(built)
      layered == FoldLeft(LAMBDA ts, l : ts \o HookLayer(Len(ts), Len(ts), one), built,
                          [l \in 1..HookLayers |-> l])
      b == Len(layered)
  IN layered \o <<Plainly("norm", <<b>>), Tensor("product", <<b + 1>>, one, "head"),
                  Plainly("sample", <<b + 2>>)>>

Projection(one) ==
  <<Tensor("product", <<>>, one, "fc1"), Plainly("silu", <<1>>), Tensor("product", <<2>>, one, "fc2")>>

HookGraphs == {"project", "word", "prefill", "codes", "step"}

GraphOf(g) ==
  CASE g = "project" -> Projection(FALSE)
    [] g = "word"    -> Projection(TRUE)
    [] g = "prefill" -> HookPass(<<>>, FALSE)
    [] g = "step"    -> HookPass(<<>>, TRUE)
    [] g = "codes"   -> FoldLeft(LAMBDA ts, k : HookPass(ts, TRUE), HookPass(<<>>, FALSE),
                                 [k \in 1..HookSteps |-> k])

Weighted(ts, w) == SelectSeq([t \in 1..Len(ts) |-> t], LAMBDA t : ts[t].w = w)

\* Mutant: only what is stored, and the result, is expanded.
StoresFirst(ts) ==
  LET k == Weighted(ts, "k")
  IN FlattenSeq([l \in 1..Len(k) |-> <<k[l] + 4, k[l] + 5>>]) \o <<Len(ts)>>

\* What the builder expands, in this order: Q, K and V side by side, then
\* what is stored, and at the end the result.
Expanded(ts) ==
  LET q == Weighted(ts, "q")
  IN FlattenSeq([l \in 1..Len(q) |-> <<q[l], q[l] + 1, q[l] + 2, q[l] + 5, q[l] + 6>>]) \o <<Len(ts)>>

\* ggml_build_forward_expand: what a tensor needs comes before it.
NodeOrder(ts) ==
  LET after(done, more) == done \o SelectSeq(more, LAMBDA t : ~Contains(done, t))
      need(ns, t) == Append(ns, Append(FoldLeft(LAMBDA done, s : after(done, ns[s]), <<>>, ts[t].src), t))
      needs == FoldLeft(need, <<>>, [t \in 1..Len(ts) |-> t])
  IN FoldLeft(LAMBDA done, root : after(done, needs[root]), <<>>, Expanded(ts))

\* ggml's allocator: in place of an operand nobody else reads, else in the
\* first memory that is free. Results stay.
Allocated(ts, order) ==
  LET readers(t) == {i \in 1..Len(order) : Contains(ts[order[i]].src, t)}
      live(t, i) == ts[t].op = "sample" \/ t = Len(ts) \/ \E j \in readers(t) : j >= i
      inPlace(t) == /\ ts[t].op \in {"rope", "add", "silu", "mul"}
                    /\ Len(ts[t].src) > 0 /\ Cardinality(readers(ts[t].src[1])) = 1
      place(at, i) ==
        LET t    == order[i]
            held == {at[order[j]] : j \in {k \in 1..i - 1 : live(order[k], i)}}
        IN CASE ts[t].op = "store" -> -t
             [] ts[t].op # "store" /\ inPlace(t) -> at[ts[t].src[1]]
             [] ts[t].op # "store" /\ ~inPlace(t) -> Min((0..Len(ts)) \ held)
  IN FoldLeft(LAMBDA at, i : [at EXCEPT ![order[i]] = place(at, i)],
              [t \in 1..Len(ts) |-> -1], [i \in 1..Len(order) |-> i])

\* When a tensor has its turn.
Turns(order) == [t \in Range(order) |-> CHOOSE i \in DOMAIN order : order[i] = t]

-----------------------------------------------------------------------------
(* The plan, made anew for each graph of the talker.                       *)

\* Products that share their input, when all of the roles are there: the
\* leader is the one that comes first, and makes them all.
Fusions(ts, turn, roles) ==
  LET mine    == {t \in DOMAIN ts : ts[t].one /\ ts[t].w \in roles}
      sharing == {{t \in mine : ts[t].src = ts[m].src} : m \in mine}
  IN {[input |-> ts[Min(outs)].src[1], outs |-> outs,
       leader |-> CHOOSE t \in outs : \A u \in outs : turn[t] <= turn[u]] :
      outs \in {group \in sharing : {ts[t].w : t \in group} = roles}}

\* The silu and the product behind gate and up, looked for after both.
SwiGLU(ts, turn, fusion) ==
  LET last      == Max({turn[t] : t \in fusion.outs})
      later(op) == {t \in DOMAIN ts : ts[t].op = op /\ turn[t] > last}
  IN {<<s, m>> \in later("silu") \X later("mul") :
        ts[s].src[1] \in fusion.outs /\ s \in Range(ts[m].src)}

Roles(s) == CASE s = "qkv" -> {"q", "k", "v"} [] s = "gate_up" -> {"gate", "up"}

\* build_fusion_plan: the leaders, with what each launches for, and the
\* tensors whose hooks return at once.
Plan(ts, turn, fused) ==
  LET groups  == UNION {Fusions(ts, turn, Roles(s)) : s \in fused}
      deep(f) == UNION {{c[1], c[2]} : c \in SwiGLU(ts, turn, f)}
  IN [leaders   |-> {[input |-> f.input, leader |-> f.leader, outs |-> f.outs,
                      swiglu |-> {c[2] : c \in SwiGLU(ts, turn, f)}] : f \in groups},
      followers |-> UNION {(f.outs \ {f.leader}) \cup deep(f) : f \in groups}]

Fused == {{}, {"qkv"}, {"gate_up"}, {"qkv", "gate_up"}}

\* Each graph with the order of its nodes, its memory, and its plans.
HookedGraphs ==
  [g \in HookGraphs |->
     LET ts == GraphOf(g)  order == NodeOrder(ts)  turn == Turns(order)
     IN [tensors |-> ts, order |-> order, memory |-> Allocated(ts, order),
         plans |-> [fused \in Fused |-> Plan(ts, turn, fused)]]]

\* cgraph_is_talker: some product of a single token.
OfTalker(graph) == \E t \in DOMAIN graph.tensors : graph.tensors[t].one

-----------------------------------------------------------------------------
(* The hooks.                                                              *)

\* The cached graphs have buffers of their own, unless they are not kept.
Arena(g, kept) == IF g \in kept THEN g ELSE "shared"

NoTensor == [arena |-> "none", at |-> 0]
At(j, t) == [arena |-> Arena(j.graph, j.kept), at |-> t]

NoGraph == [tensors |-> <<>>, order |-> <<>>, memory |-> <<>>]
NoPlan == [leaders |-> {}, followers |-> {}]

HooksInit ==
  \E kept \in SUBSET {"codes", "step"}, fused \in Fused,
     reuse \in BOOLEAN, split \in BOOLEAN :
    job = [kind |-> "hooks", at |-> "idle", kept |-> kept, fused |-> fused, reuse |-> reuse,
           split |-> split, graph |-> "none", built |-> NoGraph, next |-> 1, mem |-> <<>>,
           latched |-> FALSE, planned |-> "none", plan |-> NoPlan, input |-> NoTensor, staging |-> 0, staged |-> FALSE, unstaged |-> FALSE]

\* qwen3_graph_begin_hook. A graph that is not the talker's leaves all as it is.
BeginHook(j, g, graph) ==
  IF OfTalker(graph)
  THEN [j EXCEPT !.latched = TRUE, !.planned = g, !.plan = graph.plans[j.fused], !.input = NoTensor]
  ELSE j

\* A request projects its text, is prefilled, and alternates codes and steps.
Follows(g) ==
  CASE g \in {"project", "word"}         -> {"project", "word", "prefill"}
    [] g = "none"                        -> {"project", "word"}
    [] g \in {"prefill", "step", "codes"} ->
         {"project", "word"} \cup {IF g = "codes" THEN "step" ELSE "codes"}

HooksBegin ==
  /\ Kind("hooks") /\ job.at = "idle"
  /\ \E g \in Follows(job.graph) :
       \E graph \in {HookedGraphs[g]} :
         job' = [BeginHook(job, g, graph) EXCEPT
                   !.at = "nodes", !.graph = g, !.next = 1, !.staging = 0, !.unstaged = FALSE,
                   !.built = [part \in DOMAIN NoGraph |-> graph[part]],
                   !.mem = [m \in Range(graph.memory) |-> 0]]

Node(j) == j.built.order[j.next]
Holds(j, t) == j.mem[j.built.memory[t]] = t
Writes(j, ts, right) ==
  [j EXCEPT !.mem = [m \in DOMAIN @ |->
     IF \E t \in ts : j.built.memory[t] = m
     THEN IF right THEN CHOOSE t \in ts : j.built.memory[t] = m ELSE 0
     ELSE @[m]]]

\* ggml's own kernel.
Computed(j, t) ==
  LET ts == j.built.tensors[t]
  IN Writes(j, {t}, \A s \in Range(ts.src) \cup ts.reads : Holds(j, s))

\* The plan's entries are found by address, whichever graph they were made for.
Planned(j) ==
  IF j.planned # "none" /\ Arena(j.planned, j.kept) = Arena(j.graph, j.kept) THEN j.plan ELSE NoPlan

\* Quantize an input, unless the staging buffer holds that tensor.
Staged(j, x) ==
  IF j.reuse /\ j.input = At(j, x) THEN [j EXCEPT !.staged = TRUE]
  ELSE [j EXCEPT !.staged = TRUE, !.input = At(j, x),
                 !.staging = IF Holds(j, x) THEN x ELSE 0]

\* A fused launch: with a stale plan the addresses are those of strangers.
Launched(j, f) ==
  LET s    == Staged(j, f.input)
      outs == IF ~j.split /\ f.swiglu # {} THEN f.swiglu ELSE f.outs
  IN Writes(s, {t \in outs : t <= Len(j.built.tensors)}, s.staging = f.input /\ j.planned = j.graph)

\* qwen3_mul_mat_hook. The staging buffer may fail to be allocated.
MulMatHook(j, t) ==
  LET src1 == j.built.tensors[t].src
      mine == {f \in Planned(j).leaders : f.leader = t}
  IN IF ~j.latched THEN {Computed(j, t)}
     ELSE IF t \in Planned(j).followers THEN {j}
     ELSE IF mine # {}
     THEN {Launched(j, f) : f \in mine}
          \cup IF j.staged THEN {} ELSE {[Computed(j, t) EXCEPT !.unstaged = TRUE]}
     ELSE IF j.built.tensors[t].one /\ src1 # <<>>
     THEN LET s == Staged(j, src1[1])
          IN {Writes(s, {t}, s.staging = src1[1])} \cup IF j.staged THEN {} ELSE {Computed(j, t)}
     ELSE {Computed(j, t)}

\* qwen3_op_hook.
OpHook(j, t) ==
  IF j.latched /\ t \in Planned(j).followers THEN {j} ELSE {Computed(j, t)}

HooksNode ==
  /\ Kind("hooks") /\ job.at = "nodes"
  /\ LET t     == Node(job)
         after == IF job.built.tensors[t].op = "product" THEN MulMatHook(job, t) ELSE OpHook(job, t)
     IN \E j \in after :
          job' = [j EXCEPT !.next = @ + 1,
                    !.at = IF j.next = Len(job.built.order) THEN "idle" ELSE @]

HooksNext == HooksBegin \/ HooksNode

-----------------------------------------------------------------------------
(* Property.                                                               *)

\* The plan in force was made for another graph that lay in the same buffer:
\* a cached graph that is not kept leaves its plan to the next request's
\* projection and prefill, against "Lifetime: one graph compute".
StalePlan == job.planned # job.graph /\ Planned(job).followers # {}

\* When a node has had its turn, its memory holds the value ggml alone would
\* have put there: what a leader made for others was not overwritten before
\* they were due, none is skipped that no one made, and the quantized input
\* is that of the product. Excused are a stale plan, and a leader that could
\* not allocate the staging buffer while its followers are skipped.
HooksInvisible ==
  Kind("hooks") /\ job.graph # "none" /\ job.next > 1 /\ ~StalePlan /\ ~job.unstaged
    => Holds(job, job.built.order[job.next - 1])
=============================================================================
