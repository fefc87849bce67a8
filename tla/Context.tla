------------------------------- MODULE Context -------------------------------
(***************************************************************************)
(* BuildContext (application/context/build_context.py): the token budget   *)
(* of a request and the truncation of its messages.  A message is a record *)
(* with its role, its size (the estimated tokens of its text and of the    *)
(* calls in it), whether it carries tool calls, and where its text is from.*)
(***************************************************************************)
EXTENDS Integers, FiniteSetsExt, SequencesExt

CONSTANT Unbounded   \* _budget returned None
ASSUME UnboundedAssumption == Unbounded \notin Nat

MessageOverhead == 4

(* HeuristicTokenCounter.count_message.                                    *)
CountMessage(message) == MessageOverhead + message.size
CountMessages(messages) ==
    FoldLeft(LAMBDA total, message : total + CountMessage(message), 0, messages)

(* _group_units: indexes of the messages that are kept or dropped together.*)
\* Variant: every message is a unit of its own.
GroupSingly(messages) ==
    FoldLeftDomain(LAMBDA units, k :
        IF messages[k].role = "system" THEN units ELSE Append(units, <<k>>), <<>>, messages)

GroupUnits(messages) ==
    FoldLeftDomain(LAMBDA units, k :
        CASE messages[k].role = "system" -> units
          [] /\ messages[k].role = "tool"
             /\ units # <<>>
             /\ messages[Head(Last(units))].calls
             -> [units EXCEPT ![Len(units)] = Append(@, k)]
          [] OTHER -> Append(units, <<k>>), <<>>, messages)

(* _budget: windows maps the models whose context window is known to it,   *)
(* fallbacks are the failover candidates (none if failover is disabled),   *)
(* caps holds context.max_input_tokens, if there is one.                   *)
\* Variant: only the requested model's window counts.
BudgetOfModel(model, fallbacks, windows, maxOutput, caps) ==
    LET limits == caps \cup {windows[m] - maxOutput : m \in {model} \cap DOMAIN windows}
    IN  IF limits = {} THEN Unbounded ELSE Max({Min(limits), 0})

Budget(model, fallbacks, windows, maxOutput, caps) ==
    LET known == ({model} \cup ToSet(fallbacks)) \cap DOMAIN windows
        limits == caps \cup (IF known = {} THEN {}
                             ELSE {Min({windows[m] : m \in known}) - maxOutput})
    IN  IF limits = {} THEN Unbounded ELSE Max({Min(limits), 0})

(* The loop over units[:-1]: the oldest unit goes while the total is over  *)
(* the budget.                                                             *)
DropOldest(messages, total, budget) ==
    FoldLeft(LAMBDA left, unit :
        IF left.total <= budget THEN left
        ELSE [total   |-> left.total - MapThenSumSet(LAMBDA k : CountMessage(messages[k]), ToSet(unit)),
              dropped |-> left.dropped \cup ToSet(unit)],
        [total |-> total, dropped |-> {}], Front(GroupUnits(messages)))

Without(messages, dropped) ==
    FoldLeftDomain(LAMBDA kept, k :
        IF k \in dropped THEN kept ELSE Append(kept, messages[k]), <<>>, messages)

(* execute: the messages to send, or the empty sequence if they do not fit *)
(* (ContextLimitExceededError; a request has at least one message).        *)
BuildContext(messages, toolsCost, budget, truncate) ==
    LET total == toolsCost + CountMessages(messages)
        left  == DropOldest(messages, total, budget)
    IN  IF budget = Unbounded \/ total <= budget THEN messages
        ELSE IF truncate /\ left.total <= budget THEN Without(messages, left.dropped)
        ELSE <<>>

-----------------------------------------------------------------------------
(* Reference: what the documentation promises of truncation, without units *)
(* or running totals.                                                      *)

(* The message a tool result belongs to: the last user or assistant        *)
(* message before it, if that one carries tool calls.                      *)
BelongsToCall(messages, k) ==
    /\ messages[k].role = "tool"
    /\ \E j \in 1..(k - 1) :
        /\ messages[j].calls
        /\ \A l \in (j + 1)..(k - 1) : messages[l].role \in {"system", "tool"}

Turns(messages) ==
    {k \in 1..Len(messages) : messages[k].role # "system" /\ ~BelongsToCall(messages, k)}

(* Everything from turn k on, and the system messages before it.           *)
From(messages, k) ==
    Without(messages, {j \in 1..(k - 1) : messages[j].role # "system"})
=============================================================================
