------------------------------ MODULE ChatTurn ------------------------------
(***************************************************************************)
(* One turn of the chat agent (agent/chatAgent.ts): the model is asked,    *)
(* step by step, and may answer with text and with calls of tools, which   *)
(* run at the same time and share a budget (agent/tools.ts).  Text passes  *)
(* a filter that turns a tool call written as text back into a call        *)
(* (agent/textToolCallMiddleware.ts, agent/textToolCall.ts), and a call    *)
(* whose arguments do not fit is repaired (agent/toolCallRepair.ts).       *)
(*                                                                         *)
(* Text is a sequence of pieces:                                           *)
(*   "half", "rest"   a tag opener is a half followed at once by its rest, *)
(*                    and neither is one alone;                            *)
(*   "object"         an object literal that names a tool and parses;      *)
(*   "broken"         one that does not;                                   *)
(*   "prose"          anything else.                                       *)
(* The provider cuts it into deltas wherever it likes.  The loop over the  *)
(* steps and the timeouts are the AI SDK's, as chatAgent.ts sets them up.  *)
(***************************************************************************)
EXTENDS Integers, Sequences, SequencesExt, FiniteSets

CONSTANTS
  Texts,           \* what a model writes into a block
  Inputs,          \* the argument objects of calls: sets of keys, or NotJson
  Known, Required, \* the keys of the tools' schema, and those it requires
  ToolCallBudget,
  MaxSteps,
  MaxBlocks,       \* bound: blocks of text in a turn
  MaxCalls         \* bound: calls in a turn

Pieces == {"prose", "half", "rest", "object", "broken"}

ASSUME TurnAssumption ==
  /\ Texts \subseteq Seq(Pieces)
  /\ {ToolCallBudget, MaxSteps, MaxBlocks, MaxCalls} \subseteq Nat
  /\ Required \subseteq Known /\ "chains" \in Known

VARIABLES
  phase,      \* "over", "step" (the model answers), "tools" (its calls still run)
  step,       \* steps begun
  block,      \* the text of the block being written, or <<>>
  written,    \* how many of its pieces have come
  filter,     \* the transform: what it withholds, and whether that is a suspect
  out,        \* what it has let pass of the block
  blocks,     \* blocks begun
  calls,      \* the state of each call, in the order in which they were made
  remaining   \* the budget of the turn

turn == <<phase, step>>
stream == <<block, written, filter, out, blocks>>
turnVars == <<phase, step, block, written, filter, out, blocks, calls, remaining>>

\* A call is "called", "running", or settled.
Returned == {"done", "refused", "invalid"}
Idle == [buffer |-> <<>>, suspect |-> FALSE]

TurnInit ==
  /\ phase = "over" /\ step = 0
  /\ block = <<>> /\ written = 0 /\ filter = Idle /\ out = <<>> /\ blocks = 0
  /\ calls = <<>> /\ remaining = ToolCallBudget

-----------------------------------------------------------------------------
(* Tool calls in text.                                                     *)

\* findTriggerIndex: where the first tag opener begins, or 0.
Openers(text) == {i \in 1..(Len(text) - 1) : text[i] = "half" /\ text[i + 1] = "rest"}
Trigger(text) ==
  IF Openers(text) = {} THEN 0
  ELSE CHOOSE i \in Openers(text) : \A j \in Openers(text) : i <= j

\* Mutant: a tag opener is looked for in each delta alone.
NoTail(text) == 0

\* partialTriggerTailLength: how much of the end could still grow into an opener.
PartialTail(text) == IF text # <<>> /\ Last(text) = "half" THEN 1 ELSE 0

\* salvageToolCallFromText: the first object counts, and has to parse.
Salvageable(text) ==
  LET objects == SelectSeq(text, LAMBDA p : p \in {"object", "broken"})
  IN  Trigger(text) # 0 /\ objects # <<>> /\ Head(objects) = "object"

\* What a whole block comes to: the prose before the first opener, and a call for
\* the rest, or the rest as it is.
Whole(text) ==
  LET at == Trigger(text)
      tail == SubSeq(text, at, Len(text))
  IN  IF at = 0 THEN text
      ELSE SubSeq(text, 1, at - 1) \o (IF Salvageable(tail) THEN <<"call">> ELSE tail)

-----------------------------------------------------------------------------
(* The arguments of a call.                                                *)

NotJson == {"not json"}
Aliases == {"chain", "source", "sources", "vendor", "vendors"}

\* The schemas are strict: no key they do not know.
Fits(keys) == Required \subseteq keys /\ keys \subseteq Known

\* repairInput: an alias becomes chains, any other unknown key is dropped.
RepairInput(keys) == (keys \cap Known) \cup {k \in {"chains"} : keys \cap Aliases # {}}

\* repairToolCall: a call that does not fit even then is an error for the model.
Accepted(keys) == Fits(keys) \/ (keys # NotJson /\ Fits(RepairInput(keys)))

\* A call as it reaches the loop.
Call(keys) == Append(calls, <<IF Accepted(keys) THEN "called" ELSE "invalid", step>>)
CallsOf(s) == {i \in DOMAIN calls : calls[i][2] = s}

-----------------------------------------------------------------------------
(* The model's stream through the filter.                                  *)

StartBlock ==
  /\ phase = "step" /\ block = <<>> /\ blocks < MaxBlocks
  /\ block' \in Texts
  /\ blocks' = blocks + 1 /\ written' = 0 /\ out' = <<>>
  /\ UNCHANGED <<turn, filter, calls, remaining>>

\* transform on a text-delta: a suspect is withheld whole, else the prose before
\* an opener passes, or all but an end that could become one.
Passed(buffer) ==
  LET at == Trigger(buffer)
  IN  IF at # 0 THEN at - 1 ELSE Len(buffer) - PartialTail(buffer)

Delta ==
  /\ phase = "step"
  /\ \E n \in 1..(Len(block) - written) :
       LET buffer == filter.buffer \o SubSeq(block, written + 1, written + n)
           pass == IF filter.suspect THEN 0 ELSE Passed(buffer)
       IN  /\ written' = written + n
           /\ out' = out \o SubSeq(buffer, 1, pass)
           /\ filter' = [buffer |-> SubSeq(buffer, pass + 1, Len(buffer)),
                         suspect |-> filter.suspect \/ Trigger(buffer) # 0]
  /\ UNCHANGED <<turn, block, blocks, calls, remaining>>

\* flush: what was withheld becomes a call, or passes.
Salvages == filter.suspect /\ Salvageable(filter.buffer)
Flushed == out \o (IF Salvages THEN <<"call">> ELSE filter.buffer)

\* text-end, or the stream's finish for a block it left open.
EndBlock ==
  /\ phase = "step" /\ block # <<>> /\ written = Len(block)
  /\ out' = Flushed /\ filter' = Idle
  /\ block' = <<>> /\ written' = 0
  /\ IF Salvages THEN /\ Len(calls) < MaxCalls
                      /\ \E keys \in Inputs \ {NotJson} : calls' = Call(keys)
     ELSE UNCHANGED calls
  /\ UNCHANGED <<turn, blocks, remaining>>

\* A call made the proper way passes at once, whatever text is withheld.
ToolCall ==
  /\ phase = "step" /\ Len(calls) < MaxCalls
  /\ \E keys \in Inputs : calls' = Call(keys)
  /\ UNCHANGED <<turn, stream, remaining>>

-----------------------------------------------------------------------------
(* The tools.                                                              *)

To(i, state) == calls' = [calls EXCEPT ![i][1] = state]

\* Mutant: the budget is charged when the tool has answered.
LateBudget(i) ==
  IF remaining <= 0 THEN To(i, "refused") /\ UNCHANGED remaining
  ELSE /\ To(i, "running")
       /\ remaining' = ToolCallBudget - Cardinality({j \in DOMAIN calls : calls[j][1] = "done"})

\* runTool takes its part of the budget before it waits for anything.
TakeBudget(i) ==
  IF remaining <= 0 THEN To(i, "refused") /\ UNCHANGED remaining
  ELSE To(i, "running") /\ remaining' = remaining - 1

\* A call starts in the step that made it or, when the turn was cut, not at all.
RunTool(i) ==
  /\ phase # "over" /\ calls[i][1] = "called"
  /\ TakeBudget(i)
  /\ UNCHANGED <<turn, stream>>

\* Failures and exceptions are results too.  Nothing stops a tool that runs, not
\* even the end of its turn.
ToolAnswers(i) ==
  /\ calls[i][1] = "running"
  /\ To(i, "done")
  /\ UNCHANGED <<turn, stream, remaining>>

-----------------------------------------------------------------------------
(* The loop.                                                               *)

\* runChatAgent: tools, and with them the budget, are made for the turn.
StartTurn ==
  /\ phase = "over" /\ step = 0
  /\ phase' = "step" /\ step' = 1
  /\ remaining' = ToolCallBudget
  /\ UNCHANGED <<stream, calls>>

\* The provider's finish; the step waits for its tools.
Finish ==
  /\ phase = "step" /\ block = <<>>
  /\ phase' = "tools"
  /\ UNCHANGED <<step, stream, calls, remaining>>

\* A step that called tools is followed by another, up to stepCountIs(MAX_STEPS).
GoesOn == CallsOf(step) # {} /\ step < MaxSteps

NextStep ==
  /\ phase = "tools"
  /\ \A i \in CallsOf(step) : calls[i][1] \in Returned
  /\ IF GoesOn THEN phase' = "step" /\ step' = step + 1
               ELSE phase' = "over" /\ UNCHANGED step
  /\ UNCHANGED <<stream, calls, remaining>>

\* totalMs, stepMs or chunkMs runs out, or the request fails: what the filter
\* withholds is not flushed.
Cut ==
  /\ phase # "over"
  /\ phase' = "over"
  /\ UNCHANGED <<step, stream, calls, remaining>>

TurnNext ==
  \/ StartTurn \/ StartBlock \/ Delta \/ EndBlock \/ ToolCall
  \/ \E i \in DOMAIN calls : RunTool(i) \/ ToolAnswers(i)
  \/ Finish \/ NextStep \/ Cut

TurnSpec == TurnInit /\ [][TurnNext]_turnVars

-----------------------------------------------------------------------------

\* "Total tool calls allowed in one chat turn's multi-step loop, across all
\* steps": however the calls of a step overlap, no more than those are run.
BudgetHeld ==
  Cardinality({i \in DOMAIN calls : calls[i][1] \in {"running", "done"}}) <= ToolCallBudget

\* Wherever the provider cuts a block into deltas, what passes is what the whole
\* block comes to, and nothing passes that would have had to be withheld.
CutsDoNotMatter ==
  [][/\ block # <<>> => IsPrefix(out', Whole(block))
     /\ EndBlock => out' = Whole(block)]_turnVars

=============================================================================
