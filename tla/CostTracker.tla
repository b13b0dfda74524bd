---------------------------- MODULE CostTracker ----------------------------
(***************************************************************************)
(* What LLM calls cost (framework/costing.py): one record a call, and sums *)
(* over the records.                                                       *)
(*                                                                         *)
(* Costs are whole numbers of the tenth decimal of a dollar, and a cost is *)
(* rounded to the eighth; the half goes up.                                *)
(***************************************************************************)
EXTENDS Integers, FiniteSets, Sequences, SequencesExt, FiniteSetsExt

CONSTANTS
  Prices,       (* Prices[provider]: the table, as a sequence of           *)
                (* [model, input, output], the prices of a token           *)
  Models,       (* models that are used, some of them in no table          *)
  Alike,        (* <<model, key>>: the model begins with the key, or the   *)
                (* key with the first part of the model                    *)
  Tools, NoTool,  (* tools that are named for attribution, and none        *)
  TokenCounts,
  MaxRecords    (* bound: records                                          *)

VARIABLES
  records    (* CostTracker._records                                       *)

vars == <<records>>

Init == records = <<>>

\* To the eighth decimal.
Round(n) == ((n + 50) \div 100) * 100

\* The entries of a table that a model is priced by: its own, or else the first
\* one that is alike.
Entries(provider, model) ==
  LET table == Prices[provider]
      own == {i \in DOMAIN table : table[i].model = model}
      like == {i \in DOMAIN table : <<model, table[i].model>> \in Alike}
  IN  IF own # {} THEN own ELSE IF like # {} THEN {Min(like)} ELSE {}

\* Mutant: the cost of a call is kept as it is computed.
CostUnrounded(provider, model, input, output) ==
  LET found == Entries(provider, model)
      price == Prices[provider][CHOOSE i \in found : TRUE]
  IN  IF found = {} THEN 0 ELSE input * price.input + output * price.output

\* _compute_cost: nothing for a model that is in no way known.
Cost(provider, model, input, output) ==
  LET found == Entries(provider, model)
      price == Prices[provider][CHOOSE i \in found : TRUE]
  IN  IF found = {} THEN 0 ELSE Round(input * price.input + output * price.output)

\* The counts of a usage object or of a response, under whichever name.
RecordUsage(provider, model, input, output, tool) ==
  /\ Len(records) < MaxRecords
  /\ records' = Append(records, [model |-> <<provider, model>>, tool |-> tool,
                                 cost |-> Cost(provider, model, input, output)])

Reset == records' = <<>>

\* The sum over some of the records, rounded at every step.
Total(some) ==
  FoldLeftDomain(LAMBDA sum, i : IF i \in some THEN Round(sum + records[i].cost) ELSE sum,
                 0, records)

OfModel(m) == {i \in DOMAIN records : records[i].model = m}
OfTool(t) == {i \in DOMAIN records : records[i].tool = t}

\* summary().
TotalCost == Round(FoldLeft(LAMBDA sum, r : sum + r.cost, 0, records))
CostByModel == [m \in {records[i].model : i \in DOMAIN records} |-> Total(OfModel(m))]
CostByTool == [t \in {records[i].tool : i \in DOMAIN records} \ {NoTool} |-> Total(OfTool(t))]

Next ==
  \/ \E p \in DOMAIN Prices, m \in Models, i, o \in TokenCounts, t \in Tools \cup {NoTool} :
       RecordUsage(p, m, i, o, t)
  \/ Reset

Spec == Init /\ [][Next]_vars

-----------------------------------------------------------------------------
(* Properties                                                              *)

SumOf(f) == FoldFunction(LAMBDA a, b : a + b, 0, f)

\* What the models are charged adds up to the total, to the last digit, and so
\* does what the tools are charged with what no tool is named for, although
\* each sum is rounded on its way.  (total_cost, cost_by_model, cost_by_tool)
CostsAddUp ==
  /\ SumOf(CostByModel) = TotalCost
  /\ SumOf(CostByTool) + Total(OfTool(NoTool)) = TotalCost
=============================================================================
