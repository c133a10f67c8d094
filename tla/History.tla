------------------------------ MODULE History ------------------------------
(***************************************************************************)
(* The conversation an agent loop builds and sends back to the model: a    *)
(* sequence of items (context.ts, HistoryItem).  What matters here is the  *)
(* shape a provider accepts: an assistant item that announces n tool calls *)
(* is followed at once by the n tool results, in order, and no tool result *)
(* stands anywhere else.  Every other role (goal, model text, observation, *)
(* reanchor, summary) is the one item Text; a message of the owner keeps   *)
(* its identity.                                                           *)
(***************************************************************************)
EXTENDS Integers, Sequences, SequencesExt, Filtering

Text == [role |-> "text", k |-> 0]
Inject(m) == [role |-> "user_inject", k |-> m]
ToolCalls(n) == [role |-> "model_tool_calls", k |-> n]
ToolResult(i) == [role |-> "tool_result", k |-> i]

\* The results of calls i..n of one group, as the loop writes them for calls it did not run.
Unexecuted(i, n) == [j \in 1..(n - i + 1) |-> ToolResult(i + j - 1)]

IsResult(h, i) == i \in DOMAIN h /\ h[i].role = "tool_result"
IsCalls(h, i) == i \in DOMAIN h /\ h[i].role = "model_tool_calls"

\* What a provider accepts: each announced call answered once, right there, in order.
Paired(h) ==
  /\ \A i \in DOMAIN h : IsCalls(h, i) =>
       \A j \in 1..h[i].k : IsResult(h, i + j) /\ h[i + j].k = j
  /\ \A i \in DOMAIN h : IsResult(h, i) =>
       IsCalls(h, i - h[i].k) /\ h[i].k <= h[i - h[i].k].k

\* The same with the last group still being answered: its first `done' results are there.
PairedUpTo(h, n, done) ==
  LET head == Len(h) - done
  IN  /\ head >= 1
      /\ h[head] = ToolCalls(n)
      /\ \A j \in 1..done : h[head + j] = ToolResult(j)
      /\ Paired(SubSeq(h, 1, head - 1))

(***************************************************************************)
(* closeInterruptedHistory: a turn cut in the middle of a batch gets one   *)
(* synthetic result for each call that has none, at the end of that turn's *)
(* group of results.                                                       *)
(***************************************************************************)
GroupOf(h, i) ==
  {j \in 1..i : IsCalls(h, j) /\ \A x \in (j + 1)..i : IsResult(h, x)}

MissingAfter(h, i) ==
  IF GroupOf(h, i) = {} \/ IsResult(h, i + 1)
  THEN <<>>
  ELSE LET j == CHOOSE j \in GroupOf(h, i) : TRUE
           answered == {h[x].k : x \in (j + 1)..i}
       IN  Filtered(Unexecuted(1, h[j].k), {ToolResult(c) : c \in (1..h[j].k) \ answered})

\* Mutant: an interrupted turn is kept as it stands.
LeaveInterruptedHistory(h) == h

CloseInterruptedHistory(h) ==
  FlattenSeq([i \in DOMAIN h |-> <<h[i]>> \o MissingAfter(h, i)])

(***************************************************************************)
(* selectForCompaction: the last `keep' items stay; the cut moves back so  *)
(* that the kept part never begins with the result of a call that was      *)
(* summarised away.                                                        *)
(***************************************************************************)
SplitAt(h, keep) ==
  CHOOSE s \in 0..Len(h) :
    /\ s <= Len(h) - keep \/ s = 0
    /\ s = 0 \/ ~IsResult(h, s + 1)
    /\ \A t \in (s + 1)..Len(h) : t > Len(h) - keep \/ IsResult(h, t + 1)

\* There is something to gain only when at least two items would be summarised.
Compactable(h, keep) == SplitAt(h, keep) >= 2

Compacted(h, keep) == <<Text>> \o SubSeq(h, SplitAt(h, keep) + 1, Len(h))
=============================================================================
