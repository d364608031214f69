--------------------------- MODULE ChatTurn_proofs ---------------------------
(***************************************************************************)
(* What one turn of the agent keeps, for any texts a model writes, any     *)
(* calls it makes, any budget and any number of steps: no more tools run   *)
(* than the budget allows, and the filter makes the same of a block        *)
(* wherever the provider cuts it.                                          *)
(***************************************************************************)
EXTENDS ChatTurn, SequenceTheorems, FiniteSetTheorems, TLAPS

States == {"called", "running"} \cup Returned

TurnTypeOK ==
  /\ phase \in {"over", "step", "tools"} /\ step \in Nat
  /\ block \in Seq(Pieces) /\ written \in 0 .. Len(block)
  /\ filter \in [buffer : Seq(Pieces), suspect : BOOLEAN]
  /\ out \in Seq(Pieces \cup {"call"}) /\ blocks \in Nat
  /\ calls \in Seq(States \X Nat)
  /\ remaining \in Nat

-----------------------------------------------------------------------------
(* The calls                                                               *)

\* The calls that had their part of the budget.
Ran(cs) == {i \in DOMAIN cs : cs[i][1] \in {"running", "done"}}

(* Every part of the budget is with the turn or with a call; before the     *)
(* turn begins there are no calls.  This makes BudgetHeld inductive: the    *)
(* bound itself would survive a call that took nothing.                     *)
BudgetInv ==
  /\ Cardinality(Ran(calls)) + remaining = ToolCallBudget
  /\ step = 0 => phase = "over" /\ calls = <<>>

\* Positions of a sequence are finitely many.
LEMMA RanIsFinite ==
  ASSUME NEW cs \in Seq(States \X Nat)
  PROVE  /\ DOMAIN cs = 1 .. Len(cs) /\ Len(cs) \in Nat
         /\ IsFiniteSet(Ran(cs)) /\ Cardinality(Ran(cs)) \in Nat
<1>1. DOMAIN cs = 1 .. Len(cs) /\ Len(cs) \in Nat
  BY LenProperties
<1>2. IsFiniteSet(1 .. Len(cs))
  BY <1>1, FS_Interval
<1>3. Ran(cs) \subseteq 1 .. Len(cs)
  BY <1>1 DEF Ran
<1>4. IsFiniteSet(Ran(cs))
  BY <1>2, <1>3, FS_Subset
<1> QED BY <1>1, <1>4, FS_CardinalityType

\* A new call has no part of the budget yet.
LEMMA CallKeepsBudget ==
  ASSUME calls \in Seq(States \X Nat), step \in Nat, NEW keys
  PROVE  Call(keys) \in Seq(States \X Nat) /\ Ran(Call(keys)) = Ran(calls)
<1> DEFINE new == <<IF Accepted(keys) THEN "called" ELSE "invalid", step>>
<1>1. new \in States \X Nat /\ new[1] \notin {"running", "done"}
  BY DEF States, Returned
<1>2. Call(keys) = Append(calls, new)
  BY DEF Call
<1> HIDE DEF new
<1>3. /\ Call(keys) \in Seq(States \X Nat) /\ Len(Call(keys)) = Len(calls) + 1
      /\ \A i \in 1 .. Len(calls) : Call(keys)[i] = calls[i]
      /\ Call(keys)[Len(calls) + 1] = new
  BY <1>1, <1>2, AppendProperties
<1>4. DOMAIN calls = 1 .. Len(calls) /\ Len(calls) \in Nat
      /\ DOMAIN Call(keys) = 1 .. Len(calls) + 1
  BY <1>3, RanIsFinite
<1>5. ASSUME NEW i PROVE i \in Ran(Call(keys)) <=> i \in Ran(calls)
  <2>1. CASE i \in 1 .. Len(calls)
    BY <1>3, <1>4, <2>1 DEF Ran
  <2>2. CASE i = Len(calls) + 1
    <3>1. i \notin 1 .. Len(calls)
      BY <1>4, <2>2
    <3> QED BY <1>1, <1>3, <1>4, <2>2, <3>1 DEF Ran
  <2>3. CASE i \notin 1 .. Len(calls) + 1
    <3>1. i \notin 1 .. Len(calls)
      BY <1>4, <2>3
    <3> QED BY <1>4, <2>3, <3>1 DEF Ran
  <2> QED BY <1>4, <2>1, <2>2, <2>3
<1> QED BY <1>3, <1>5

\* What a call goes over to is recorded of it alone.
LEMMA ToMovesOne ==
  ASSUME calls \in Seq(States \X Nat), NEW i \in DOMAIN calls,
         NEW state \in States, To(i, state)
  PROVE  /\ calls' \in Seq(States \X Nat) /\ DOMAIN calls' = DOMAIN calls
         /\ calls'[i][1] = state
         /\ \A j \in DOMAIN calls : j # i => calls'[j] = calls[j]
<1> DEFINE new == [calls[i] EXCEPT ![1] = state]
<1>1. calls' = [calls EXCEPT ![i] = new]
  BY DEF To
<1>2. i \in 1 .. Len(calls) /\ DOMAIN calls = 1 .. Len(calls)
  BY RanIsFinite
<1>3. calls[i] \in States \X Nat
  BY <1>2, ElementOfSeq
<1>4. new = <<state, calls[i][2]>>
  BY <1>3
<1>5. new \in States \X Nat /\ new[1] = state
  BY <1>3, <1>4
<1> HIDE DEF new
<1>6. /\ calls' \in Seq(States \X Nat) /\ Len(calls') = Len(calls)
      /\ \A j \in 1 .. Len(calls) : calls'[j] = IF j = i THEN new ELSE calls[j]
  BY <1>1, <1>2, <1>5, ExceptSeq
<1>7. DOMAIN calls' = 1 .. Len(calls')
  BY <1>6, LenProperties
<1> QED BY <1>2, <1>5, <1>6, <1>7

LEMMA RunToolKeepsBudget ==
  ASSUME TurnTypeOK, BudgetInv, TurnAssumption, NEW i \in DOMAIN calls, RunTool(i)
  PROVE  /\ calls' \in Seq(States \X Nat) /\ remaining' \in Nat
         /\ BudgetInv'
<1>1. calls \in Seq(States \X Nat) /\ remaining \in Nat /\ calls[i][1] = "called"
      /\ ToolCallBudget \in Nat /\ UNCHANGED <<phase, step>>
  BY TurnAssumption DEF TurnTypeOK, RunTool, turn
<1>2. IsFiniteSet(Ran(calls)) /\ Cardinality(Ran(calls)) \in Nat /\ i \notin Ran(calls)
  BY <1>1, RanIsFinite DEF Ran
<1>3. step' # 0
  BY DEF BudgetInv, RunTool, turn
<1>4. CASE remaining <= 0
  <2>1. To(i, "refused") /\ remaining' = remaining
    BY <1>4 DEF RunTool, TakeBudget
  <2>2. "refused" \in States
    BY DEF States, Returned
  <2>3. /\ calls' \in Seq(States \X Nat) /\ DOMAIN calls' = DOMAIN calls
        /\ calls'[i][1] = "refused"
        /\ \A j \in DOMAIN calls : j # i => calls'[j] = calls[j]
    BY <1>1, <2>1, <2>2, ToMovesOne
  <2>4. Ran(calls') = Ran(calls)
    BY <1>2, <2>3 DEF Ran
  <2> QED BY <1>1, <1>3, <2>1, <2>3, <2>4 DEF BudgetInv
<1>5. CASE ~ (remaining <= 0)
  <2>1. To(i, "running") /\ remaining' = remaining - 1
    BY <1>5 DEF RunTool, TakeBudget
  <2>2. "running" \in States
    BY DEF States
  <2>3. /\ calls' \in Seq(States \X Nat) /\ DOMAIN calls' = DOMAIN calls
        /\ calls'[i][1] = "running"
        /\ \A j \in DOMAIN calls : j # i => calls'[j] = calls[j]
    BY <1>1, <2>1, <2>2, ToMovesOne
  <2>4. Ran(calls') = Ran(calls) \cup {i}
    BY <1>2, <2>3 DEF Ran
  <2>5. Cardinality(Ran(calls')) = Cardinality(Ran(calls)) + 1
    BY <1>2, <2>4, FS_AddElement
  <2>6. Cardinality(Ran(calls)) + remaining = ToolCallBudget
    BY DEF BudgetInv
  <2>7. remaining' \in Nat /\ Cardinality(Ran(calls')) + remaining' = ToolCallBudget
    BY <1>1, <1>2, <1>5, <2>1, <2>5, <2>6
  <2> QED BY <1>3, <2>3, <2>7 DEF BudgetInv
<1> QED BY <1>4, <1>5

LEMMA ToolAnswersKeepsBudget ==
  ASSUME TurnTypeOK, BudgetInv, NEW i \in DOMAIN calls, ToolAnswers(i)
  PROVE  /\ calls' \in Seq(States \X Nat)
         /\ BudgetInv'
<1>1. calls \in Seq(States \X Nat) /\ calls[i][1] = "running" /\ To(i, "done")
      /\ UNCHANGED <<phase, step, remaining>> /\ "done" \in States
  BY DEF TurnTypeOK, ToolAnswers, turn, States, Returned
<1>2. /\ calls' \in Seq(States \X Nat) /\ DOMAIN calls' = DOMAIN calls
      /\ calls'[i][1] = "done"
      /\ \A j \in DOMAIN calls : j # i => calls'[j] = calls[j]
  BY <1>1, ToMovesOne
<1>3. Ran(calls') = Ran(calls)
  BY <1>1, <1>2 DEF Ran
<1>4. calls # <<>>
  <2>1. Len(calls) # 0
    BY <1>1, RanIsFinite
  <2> QED BY <1>1, <2>1, EmptySeq
<1>5. step' # 0
  BY <1>1, <1>4 DEF BudgetInv
<1> QED BY <1>1, <1>2, <1>3, <1>5 DEF BudgetInv

-----------------------------------------------------------------------------
(* Parts of a text and the tag openers in them                             *)

\* A part of a text, which may be empty.
LEMMA PartOfText ==
  ASSUME NEW text \in Seq(Pieces), NEW m \in 1 .. Len(text) + 1, NEW n \in m - 1 .. Len(text)
  PROVE  /\ SubSeq(text, m, n) \in Seq(Pieces)
         /\ Len(SubSeq(text, m, n)) = n - m + 1
         /\ \A i \in 1 .. n - m + 1 : SubSeq(text, m, n)[i] = text[m + i - 1]
<1>1. Len(text) \in Nat /\ m \in Int /\ n \in Int
      /\ \A i \in m .. n : i \in 1 .. Len(text)
  BY LenProperties
<1>2. \A i \in m .. n : text[i] \in Pieces
  BY <1>1, ElementOfSeq
<1>3. /\ SubSeq(text, m, n) \in Seq(Pieces)
      /\ Len(SubSeq(text, m, n)) = IF m <= n THEN n - m + 1 ELSE 0
      /\ \A i \in 1 .. n - m + 1 : SubSeq(text, m, n)[i] = text[m + i - 1]
  BY <1>1, <1>2, SubSeqProperties
<1>4. (IF m <= n THEN n - m + 1 ELSE 0) = n - m + 1
  BY <1>1
<1> QED BY <1>3, <1>4

LEMMA PartOfPart ==
  ASSUME NEW text \in Seq(Pieces), NEW i \in 1 .. Len(text) + 1, NEW j \in i - 1 .. Len(text),
         NEW m \in 1 .. j - i + 2, NEW n \in m - 1 .. j - i + 1
  PROVE  SubSeq(SubSeq(text, i, j), m, n) = SubSeq(text, i + m - 1, i + n - 1)
<1>1. Len(text) \in Nat
  BY LenProperties
<1>2. CASE m <= n
  <2>1. i \in 1 .. Len(text) /\ j \in 1 .. Len(text)
        /\ m \in 1 .. j - i + 1 /\ n \in 1 .. j - i + 1
    BY <1>1, <1>2
  <2> QED BY <2>1, SubSeqOfSubSeq
<1>3. CASE n < m
  <2>1. m \in Int /\ n \in Int /\ i + m - 1 \in Int /\ i + n - 1 \in Int
        /\ i + n - 1 < i + m - 1
    BY <1>1, <1>3
  <2>2. SubSeq(SubSeq(text, i, j), m, n) = <<>>
    BY <1>3, <2>1, SubSeqEmpty
  <2>3. SubSeq(text, i + m - 1, i + n - 1) = <<>>
    BY <2>1, SubSeqEmpty
  <2> QED BY <2>2, <2>3
<1> QED BY <1>1, <1>2, <1>3

\* findTriggerIndex finds the first opener, if there is one.
LEMMA TriggerIsFirst ==
  ASSUME NEW text \in Seq(Pieces)
  PROVE  /\ Openers(text) = {} => Trigger(text) = 0
         /\ Openers(text) # {} => /\ Trigger(text) \in Openers(text)
                                  /\ \A j \in Openers(text) : Trigger(text) <= j
         /\ Openers(text) \subseteq 1 .. Len(text) - 1
<1>1. Len(text) \in Nat
  BY LenProperties
<1>2. Openers(text) \subseteq 1 .. Len(text) - 1
  BY DEF Openers
<1>3. ASSUME Openers(text) # {}
      PROVE  \E i \in Openers(text) : \A j \in Openers(text) : i <= j
  <2> DEFINE R == {p \in Nat \X Nat : p[1] < p[2]}
  <2>1. IsWellFoundedOn(R, Nat)
    BY NatLessThanWellFounded DEF OpToRel
  <2>2. Openers(text) \subseteq Nat
    BY <1>1, <1>2
  <2>3. PICK i \in Openers(text) : \A j \in Openers(text) : ~ (<<j, i>> \in R)
    BY <1>3, <2>1, <2>2, WFMin
  <2>4. \A j \in Openers(text) : i <= j
    <3> SUFFICES ASSUME NEW j \in Openers(text) PROVE i <= j
      OBVIOUS
    <3>1. i \in Nat /\ j \in Nat
      BY <2>2
    <3>2. ~ (j < i)
      BY <2>3, <3>1
    <3> QED BY <3>1, <3>2
  <2> QED BY <2>4
<1> QED BY <1>2, <1>3 DEF Trigger

\* The openers of a part are those of the text that lie in it whole.
LEMMA OpenersOfPart ==
  ASSUME NEW text \in Seq(Pieces), NEW m \in 1 .. Len(text) + 1, NEW n \in m - 1 .. Len(text),
         NEW i \in Nat \ {0}
  PROVE  i \in Openers(SubSeq(text, m, n)) <=> i + m - 1 \in Openers(text) /\ i + m <= n
<1> DEFINE part == SubSeq(text, m, n)
<1>1. Len(text) \in Nat
  BY LenProperties
<1>2. /\ Len(part) = n - m + 1
      /\ \A k \in 1 .. n - m + 1 : part[k] = text[m + k - 1]
  BY PartOfText
<1> HIDE DEF part
<1>3. CASE i + m <= n
  <2>1. i \in 1 .. n - m + 1 /\ i + 1 \in 1 .. n - m + 1
        /\ i \in 1 .. Len(part) - 1 /\ i + m - 1 \in 1 .. Len(text) - 1
        /\ m + i - 1 = i + m - 1 /\ m + (i + 1) - 1 = (i + m - 1) + 1
    BY <1>1, <1>2, <1>3
  <2>2. part[i] = text[i + m - 1] /\ part[i + 1] = text[(i + m - 1) + 1]
    BY <1>2, <2>1
  <2> QED BY <1>3, <2>1, <2>2 DEF Openers, part
<1>4. CASE ~ (i + m <= n)
  <2>1. i \notin 1 .. Len(part) - 1
    BY <1>1, <1>2, <1>4
  <2> QED BY <1>4, <2>1 DEF Openers, part
<1> QED BY <1>3, <1>4

-----------------------------------------------------------------------------
(* The filter                                                              *)

(* What has passed of a block and what is withheld are the block as far as  *)
(* it is written; no opener begins in what has passed; a suspect begins     *)
(* with the first one, and without a suspect none is written whole.  This   *)
(* is what makes CutsDoNotMatter hold of every step.                        *)
CutInv ==
  /\ block = <<>> => written = 0 /\ filter = Idle
  /\ block # <<>> =>
       /\ Len(out) <= written
       /\ out = SubSeq(block, 1, Len(out))
       /\ filter.buffer = SubSeq(block, Len(out) + 1, written)
       /\ filter.suspect => Len(out) + 1 \in Openers(block) /\ Len(out) + 2 <= written
       /\ \A j \in Openers(block) : Len(out) < j /\ (filter.suspect \/ written <= j)

\* The pieces of a block up to its first opener pass whatever it comes to.
LEMMA PassedIsPrefix ==
  ASSUME NEW text \in Seq(Pieces), NEW n \in 0 .. Len(text),
         \A j \in Openers(text) : n < j
  PROVE  IsPrefix(SubSeq(text, 1, n), Whole(text))
<1> DEFINE at == Trigger(text)
           tail == SubSeq(text, at, Len(text))
           rest == IF Salvageable(tail) THEN <<"call">> ELSE tail
           Symbols == Pieces \cup {"call"}
<1>1. Len(text) \in Nat /\ text \in Seq(Symbols)
  BY LenProperties, SeqMonotonic
<1>2. /\ Len(SubSeq(text, 1, n)) = n
      /\ \A i \in 1 .. n : SubSeq(text, 1, n)[i] = text[i]
  BY <1>1, PartOfText
<1>3. /\ Whole(text) \in Seq(Symbols) /\ n <= Len(Whole(text))
      /\ \A i \in 1 .. n : Whole(text)[i] = text[i]
  <2>1. CASE Openers(text) = {}
    <3>1. Whole(text) = text
      BY <2>1, TriggerIsFirst DEF Whole
    <3> QED BY <1>1, <3>1
  <2>2. CASE Openers(text) # {}
    <3>1. at \in Openers(text) /\ at \in 1 .. Len(text) - 1 /\ n < at
      BY <2>2, TriggerIsFirst
    <3>2. Whole(text) = SubSeq(text, 1, at - 1) \o rest
      <4>1. Trigger(text) # 0
        BY <1>1, <3>1
      <4> QED BY <4>1, Zenon DEF Whole
    <3> HIDE DEF at
    <3>3. /\ SubSeq(text, 1, at - 1) \in Seq(Pieces)
          /\ Len(SubSeq(text, 1, at - 1)) = at - 1
          /\ \A i \in 1 .. at - 1 : SubSeq(text, 1, at - 1)[i] = text[i]
      BY <1>1, <3>1, PartOfText
    <3>4. tail \in Seq(Pieces)
      BY <1>1, <3>1, PartOfText
    <3>5. SubSeq(text, 1, at - 1) \in Seq(Symbols) /\ rest \in Seq(Symbols)
      <4>1. Pieces \subseteq Symbols /\ <<"call">> \in Seq(Symbols)
        OBVIOUS
      <4> QED BY <3>3, <3>4, <4>1, SeqMonotonic
    <3> HIDE DEF rest, tail
    <3>6. Len(rest) \in Nat
      BY <3>5, LenProperties
    <3>7. /\ Whole(text) \in Seq(Symbols)
          /\ Len(Whole(text)) = (at - 1) + Len(rest)
          /\ \A i \in 1 .. (at - 1) + Len(rest) :
               Whole(text)[i] = IF i <= at - 1 THEN SubSeq(text, 1, at - 1)[i] ELSE rest[i - (at - 1)]
      BY <3>2, <3>3, <3>5, ConcatProperties
    <3> QED BY <1>1, <3>1, <3>3, <3>6, <3>7
  <2> QED BY <2>1, <2>2
<1>4. SubSeq(Whole(text), 1, n) = SubSeq(text, 1, n)
  <2>1. Len(Whole(text)) \in Nat /\ n \in Int /\ 1 \in Int
    BY <1>1, <1>3, LenProperties
  <2>2. \A i \in 1 .. n : Whole(text)[i] \in Symbols
    BY <1>3, <2>1, ElementOfSeq
  <2>3. /\ SubSeq(Whole(text), 1, n) \in Seq(Symbols)
        /\ Len(SubSeq(Whole(text), 1, n)) = IF 1 <= n THEN n - 1 + 1 ELSE 0
        /\ \A i \in 1 .. n - 1 + 1 : SubSeq(Whole(text), 1, n)[i] = Whole(text)[1 + i - 1]
    BY <2>1, <2>2, SubSeqProperties
  <2>4. Len(SubSeq(Whole(text), 1, n)) = n
        /\ \A i \in 1 .. n : SubSeq(Whole(text), 1, n)[i] = SubSeq(text, 1, n)[i]
    BY <1>1, <1>2, <1>3, <2>3
  <2>5. SubSeq(text, 1, n) \in Seq(Pieces) /\ Pieces \subseteq Symbols
    BY <1>1, PartOfText
  <2>6. SubSeq(text, 1, n) \in Seq(Symbols)
    BY <2>5, SeqMonotonic
  <2> QED BY <1>2, <2>3, <2>4, <2>6, SeqEqual
<1>5. SubSeq(SubSeq(text, 1, n), 1, n) = SubSeq(text, 1, n)
  <2>1. SubSeq(text, 1, n) \in Seq(Pieces)
    BY <1>1, PartOfText
  <2> QED BY <1>2, <2>1, SubSeqFull
<1> QED BY <1>2, <1>3, <1>4, <1>5 DEF IsPrefix

\* What a delta of n pieces is looked at with: all of the block that has not passed.
Buffered(n) == filter.buffer \o SubSeq(block, written + 1, written + n)

LEMMA BufferedText ==
  ASSUME TurnTypeOK, CutInv, NEW n \in 1 .. Len(block) - written
  PROVE  /\ block # <<>> /\ Len(out) <= written
         /\ Buffered(n) = SubSeq(block, Len(out) + 1, written + n)
         /\ Len(Buffered(n)) = (written + n) - Len(out)
<1> DEFINE buffer == Buffered(n)
           p == Len(out)
<1>1. block \in Seq(Pieces) /\ written \in 0 .. Len(block) /\ Len(block) \in Nat
      /\ out \in Seq(Pieces \cup {"call"}) /\ p \in Nat
  BY LenProperties DEF TurnTypeOK
<1>2. block # <<>>
  <2>1. Len(block) # 0
    BY <1>1
  <2> QED BY <1>1, <2>1, EmptySeq
<1>3. p <= written /\ out = SubSeq(block, 1, p)
      /\ filter.buffer = SubSeq(block, p + 1, written)
  BY <1>2 DEF CutInv
<1> HIDE DEF p
<1>4. buffer = SubSeq(block, p + 1, written + n)
  <2>1. p + 1 \in 1 .. Len(block) + 1 /\ written \in (p + 1) - 1 .. Len(block)
        /\ written + n \in written .. Len(block)
    BY <1>1, <1>3
  <2> QED BY <1>1, <1>3, <2>1, ConcatAdjacentSubSeq DEF Buffered
<1>5. Len(buffer) = (written + n) - p
  <2>1. p + 1 \in 1 .. Len(block) + 1 /\ written + n \in (p + 1) - 1 .. Len(block)
        /\ (written + n) - (p + 1) + 1 = (written + n) - p
    BY <1>1, <1>3
  <2>2. Len(SubSeq(block, p + 1, written + n)) = (written + n) - (p + 1) + 1
    BY <1>1, <2>1, PartOfText
  <2> QED BY <1>4, <2>1, <2>2
<1> QED BY <1>2, <1>3, <1>4, <1>5 DEF buffer, p

\* A delta moves the line between what has passed and what is withheld.
LEMMA DeltaMovesTheLine ==
  ASSUME TurnTypeOK, CutInv, NEW n \in 1 .. Len(block) - written,
         NEW pass \in 0 .. (written + n) - Len(out),
         out' = out \o SubSeq(Buffered(n), 1, pass)
  PROVE  /\ out' = SubSeq(block, 1, Len(out) + pass) /\ Len(out') = Len(out) + pass
         /\ SubSeq(Buffered(n), pass + 1, Len(Buffered(n)))
              = SubSeq(block, Len(out) + pass + 1, written + n)
<1> DEFINE buffer == Buffered(n)
           p == Len(out)
<1>1. block \in Seq(Pieces) /\ written \in 0 .. Len(block) /\ Len(block) \in Nat
      /\ out \in Seq(Pieces \cup {"call"}) /\ p \in Nat
  BY LenProperties DEF TurnTypeOK
<1>2. block # <<>>
  <2>1. Len(block) # 0
    BY <1>1
  <2> QED BY <1>1, <2>1, EmptySeq
<1>3. p <= written /\ out = SubSeq(block, 1, p)
      /\ filter.buffer = SubSeq(block, p + 1, written)
  BY <1>2 DEF CutInv
<1> HIDE DEF p
<1>4. buffer = SubSeq(block, p + 1, written + n) /\ Len(buffer) = (written + n) - p
  BY BufferedText DEF p
<1> HIDE DEF buffer
<1>5. SubSeq(buffer, 1, pass) = SubSeq(block, p + 1, p + pass)
  <2>1. p + 1 \in 1 .. Len(block) + 1 /\ written + n \in (p + 1) - 1 .. Len(block)
        /\ 1 \in 1 .. (written + n) - (p + 1) + 2 /\ pass \in 1 - 1 .. (written + n) - (p + 1) + 1
        /\ (p + 1) + 1 - 1 = p + 1 /\ (p + 1) + pass - 1 = p + pass
    BY <1>1, <1>3 DEF p
  <2> QED BY <1>1, <1>4, <2>1, PartOfPart
<1>6. out' = SubSeq(block, 1, p + pass)
  <2>1. 1 \in 1 .. Len(block) + 1 /\ p \in 1 - 1 .. Len(block) /\ p + pass \in p .. Len(block)
    BY <1>1, <1>3 DEF p
  <2>2. SubSeq(block, 1, p) \o SubSeq(block, p + 1, p + pass) = SubSeq(block, 1, p + pass)
    BY <1>1, <2>1, ConcatAdjacentSubSeq
  <2> QED BY <1>3, <1>5, <2>2 DEF buffer
<1>7. Len(out') = p + pass
  <2>1. 1 \in 1 .. Len(block) + 1 /\ p + pass \in 1 - 1 .. Len(block)
        /\ (p + pass) - 1 + 1 = p + pass
    BY <1>1, <1>3 DEF p
  <2> QED BY <1>1, <1>6, <2>1, PartOfText
<1>8. SubSeq(buffer, pass + 1, Len(buffer)) = SubSeq(block, p + pass + 1, written + n)
  <2>1. p + 1 \in 1 .. Len(block) + 1 /\ written + n \in (p + 1) - 1 .. Len(block)
        /\ pass + 1 \in 1 .. (written + n) - (p + 1) + 2
        /\ (written + n) - p \in (pass + 1) - 1 .. (written + n) - (p + 1) + 1
        /\ (p + 1) + (pass + 1) - 1 = p + pass + 1
        /\ (p + 1) + ((written + n) - p) - 1 = written + n
    BY <1>1, <1>3 DEF p
  <2>2. SubSeq(SubSeq(block, p + 1, written + n), pass + 1, (written + n) - p)
          = SubSeq(block, (p + 1) + (pass + 1) - 1, (p + 1) + ((written + n) - p) - 1)
    BY <1>1, <2>1, PartOfPart
  <2> QED BY <1>4, <2>1, <2>2
<1> QED BY <1>4, <1>6, <1>7, <1>8 DEF buffer, p


\* A delta passes what lies before an opener, or all but an end that could
\* become one.
LEMMA PassedBefore ==
  ASSUME NEW buffer \in Seq(Pieces)
  PROVE  /\ Passed(buffer) \in 0 .. Len(buffer)
         /\ Trigger(buffer) # 0 => /\ Passed(buffer) + 1 \in Openers(buffer)
                                   /\ \A j \in Openers(buffer) : Passed(buffer) < j
         /\ Trigger(buffer) = 0 => /\ Openers(buffer) = {}
                                   /\ Passed(buffer) = Len(buffer)
                                        => Len(buffer) = 0 \/ buffer[Len(buffer)] # "half"
<1>1. Len(buffer) \in Nat
  BY LenProperties
<1>2. /\ Openers(buffer) = {} => Trigger(buffer) = 0
      /\ Openers(buffer) # {} => /\ Trigger(buffer) \in Openers(buffer)
                                 /\ \A j \in Openers(buffer) : Trigger(buffer) <= j
      /\ Openers(buffer) \subseteq 1 .. Len(buffer) - 1
  BY TriggerIsFirst
<1>3. CASE Openers(buffer) # {}
  <2>1. Trigger(buffer) \in 1 .. Len(buffer) - 1
    BY <1>2, <1>3
  <2>2. Trigger(buffer) # 0 /\ Passed(buffer) = Trigger(buffer) - 1
    BY <1>1, <2>1 DEF Passed
  <2> QED BY <1>1, <1>2, <1>3, <2>1, <2>2
<1>4. CASE Openers(buffer) = {}
  <2>1. Passed(buffer) = Len(buffer) - PartialTail(buffer)
    BY <1>2, <1>4 DEF Passed
  <2>2. CASE Len(buffer) = 0
    <3>1. buffer = <<>>
      BY <2>2, EmptySeq
    <3>2. PartialTail(buffer) = 0
      BY <3>1 DEF PartialTail
    <3> QED BY <1>2, <1>4, <2>1, <2>2, <3>2
  <2>3. CASE Len(buffer) # 0
    <3>1. buffer # <<>>
      BY <2>3, EmptySeq
    <3>2. PartialTail(buffer) = IF buffer[Len(buffer)] = "half" THEN 1 ELSE 0
      BY <3>1 DEF PartialTail, Last
    <3> QED BY <1>1, <1>2, <1>4, <2>1, <2>3, <3>2
  <2> QED BY <2>2, <2>3
<1> QED BY <1>3, <1>4

LEMMA DeltaKeepsCut ==
  ASSUME TurnTypeOK, CutInv, Delta
  PROVE  TurnTypeOK' /\ CutInv'
<1>1. PICK n \in 1 .. (Len(block) - written) :
        LET buffer == Buffered(n)
            pass == IF filter.suspect THEN 0 ELSE Passed(buffer)
        IN  /\ written' = written + n
            /\ out' = out \o SubSeq(buffer, 1, pass)
            /\ filter' = [buffer |-> SubSeq(buffer, pass + 1, Len(buffer)),
                          suspect |-> filter.suspect \/ Trigger(buffer) # 0]
  BY DEF Delta, Buffered
<1>0. n \in 1 .. Len(block) - written
  BY <1>1
<1>1a. /\ block # <<>> /\ Len(out) <= written
       /\ Buffered(n) = SubSeq(block, Len(out) + 1, written + n)
       /\ Len(Buffered(n)) = (written + n) - Len(out)
  BY <1>0, BufferedText
<1>1b. ASSUME NEW q \in 0 .. (written + n) - Len(out), out' = out \o SubSeq(Buffered(n), 1, q)
       PROVE  /\ out' = SubSeq(block, 1, Len(out) + q) /\ Len(out') = Len(out) + q
              /\ SubSeq(Buffered(n), q + 1, Len(Buffered(n)))
                   = SubSeq(block, Len(out) + q + 1, written + n)
  BY <1>0, <1>1b, DeltaMovesTheLine
<1> DEFINE buffer == Buffered(n)
           pass == IF filter.suspect THEN 0 ELSE Passed(buffer)
           p == Len(out)
           to == written + n
<1>2. /\ written' = to /\ out' = out \o SubSeq(buffer, 1, pass)
      /\ filter'.buffer = SubSeq(buffer, pass + 1, Len(buffer))
      /\ filter'.suspect = (filter.suspect \/ Trigger(buffer) # 0)
      /\ filter' = [buffer |-> filter'.buffer, suspect |-> filter'.suspect]
      /\ filter.suspect \/ Trigger(buffer) # 0 <=> filter'.suspect
      /\ UNCHANGED <<phase, step, block, blocks, calls, remaining>>
  BY <1>1 DEF Delta, turn
<1>3. /\ block \in Seq(Pieces) /\ written \in 0 .. Len(block) /\ Len(block) \in Nat
      /\ p \in Nat /\ to \in written + 1 .. Len(block) /\ filter.suspect \in BOOLEAN
  BY <1>0, LenProperties DEF TurnTypeOK
<1>4. block # <<>> /\ p <= written /\ buffer = SubSeq(block, p + 1, to) /\ Len(buffer) = to - p
  BY <1>1a
<1>5. /\ filter.suspect => p + 1 \in Openers(block) /\ p + 2 <= written
      /\ \A j \in Openers(block) : p < j /\ (filter.suspect \/ written <= j)
  BY <1>4 DEF CutInv
<1>6. buffer \in Seq(Pieces)
  <2>1. p + 1 \in 1 .. Len(block) + 1 /\ to \in (p + 1) - 1 .. Len(block)
    BY <1>3, <1>4
  <2> QED BY <1>3, <1>4, <2>1, PartOfText
<1>7. \A i \in Nat \ {0} : i \in Openers(buffer) <=> i + p \in Openers(block) /\ i + p + 1 <= to
  <2> SUFFICES ASSUME NEW i \in Nat \ {0}
               PROVE  i \in Openers(buffer) <=> i + p \in Openers(block) /\ i + p + 1 <= to
    OBVIOUS
  <2>1. p + 1 \in 1 .. Len(block) + 1 /\ to \in (p + 1) - 1 .. Len(block)
        /\ i + (p + 1) - 1 = i + p /\ i + (p + 1) = i + p + 1
    BY <1>3, <1>4
  <2>2. i \in Openers(SubSeq(block, p + 1, to)) <=>
          i + (p + 1) - 1 \in Openers(block) /\ i + (p + 1) <= to
    BY <1>3, <2>1, OpenersOfPart
  <2> QED BY <1>4, <2>1, <2>2
<1>8. /\ Passed(buffer) \in 0 .. Len(buffer)
      /\ Trigger(buffer) # 0 => /\ Passed(buffer) + 1 \in Openers(buffer)
                                /\ \A j \in Openers(buffer) : Passed(buffer) < j
      /\ Trigger(buffer) = 0 => /\ Openers(buffer) = {}
                                /\ Passed(buffer) = Len(buffer)
                                     => Len(buffer) = 0 \/ buffer[Len(buffer)] # "half"
  BY <1>6, PassedBefore
<1>9. /\ pass \in 0 .. to - p
      /\ filter.suspect => pass = 0
      /\ ~ filter.suspect => pass = Passed(buffer)
  BY <1>3, <1>4, <1>8
<1>10. /\ out' = SubSeq(block, 1, p + pass) /\ Len(out') = p + pass
       /\ SubSeq(buffer, pass + 1, Len(buffer)) = SubSeq(block, p + pass + 1, to)
  <2>1. pass \in 0 .. (written + n) - Len(out) /\ out' = out \o SubSeq(Buffered(n), 1, pass)
    BY <1>2, <1>9
  <2> HIDE DEF pass
  <2> QED BY <1>1b, <2>1
<1>11. Openers(block) \subseteq 1 .. Len(block) - 1
  BY <1>3, TriggerIsFirst
<1> HIDE DEF buffer, p, to, pass
<1>12. TurnTypeOK'
  <2>1. out' \in Seq(Pieces)
    <3>1. 1 \in 1 .. Len(block) + 1 /\ p + pass \in 1 - 1 .. Len(block)
      BY <1>3, <1>4, <1>9
    <3> QED BY <1>3, <1>10, <3>1, PartOfText
  <2>2. out' \in Seq(Pieces \cup {"call"})
    BY <2>1, SeqMonotonic
  <2>3. filter'.buffer \in Seq(Pieces)
    <3>1. p + pass + 1 \in 1 .. Len(block) + 1 /\ to \in (p + pass + 1) - 1 .. Len(block)
      BY <1>3, <1>4, <1>9
    <3> QED BY <1>2, <1>3, <1>10, <3>1, PartOfText
  <2>4. filter' \in [buffer : Seq(Pieces), suspect : BOOLEAN]
    BY <1>2, <1>3, <2>3
  <2>5. written' \in 0 .. Len(block)
    BY <1>2, <1>3
  <2> QED BY <1>2, <2>2, <2>4, <2>5 DEF TurnTypeOK
<1>13. filter'.suspect => p + pass + 1 \in Openers(block) /\ p + pass + 2 <= to
  <2>1. CASE filter.suspect
    BY <1>3, <1>5, <1>9, <2>1
  <2>2. CASE ~ filter.suspect /\ Trigger(buffer) # 0
    <3>1. pass + 1 \in Openers(buffer) /\ pass + 1 \in Nat \ {0}
      BY <1>3, <1>8, <1>9, <2>2
    <3>2. pass + 1 + p \in Openers(block) /\ pass + 1 + p + 1 <= to
      BY <1>7, <3>1
    <3>3. pass + 1 + p = p + pass + 1 /\ pass + 1 + p + 1 = p + pass + 2
      BY <1>3, <1>9
    <3> QED BY <3>2, <3>3
  <2> QED BY <1>2, <2>1, <2>2
<1>14. ASSUME NEW j \in Openers(block)
       PROVE  p + pass < j /\ (filter'.suspect \/ to <= j)
  <2>1. j \in Nat /\ p < j /\ j - p \in Nat \ {0} /\ (j - p) + p = j
    BY <1>3, <1>5, <1>11
  <2>2. j - p \in Openers(buffer) <=> j + 1 <= to
    BY <1>7, <2>1
  <2>3. CASE filter.suspect
    BY <1>2, <1>3, <1>9, <2>1, <2>3
  <2>4. CASE ~ filter.suspect /\ Trigger(buffer) # 0
    <3>1. CASE j + 1 <= to
      <4>1. Passed(buffer) < j - p
        BY <1>8, <2>2, <2>4, <3>1
      <4> QED BY <1>2, <1>3, <1>9, <2>1, <2>4, <4>1
    <3>2. CASE ~ (j + 1 <= to)
      <4>1. Passed(buffer) + 1 \in Openers(buffer) /\ Passed(buffer) \in Nat
        BY <1>3, <1>4, <1>8, <2>4
      <4>2. (Passed(buffer) + 1) + p + 1 <= to
        BY <1>7, <4>1
      <4>3. p + pass < j
        BY <1>3, <1>9, <2>1, <2>4, <3>2, <4>1, <4>2
      <4> QED BY <1>2, <2>4, <4>3
    <3> QED BY <3>1, <3>2
  <2>5. CASE ~ filter.suspect /\ Trigger(buffer) = 0
    <3>1. to <= j
      BY <1>3, <1>8, <2>1, <2>2, <2>5
    <3>2. p + pass < j
      <4>1. CASE pass = Len(buffer)
        <5>1. Len(buffer) \in Nat \ {0}
          BY <1>3, <1>4
        <5>2. buffer[Len(buffer)] # "half"
          BY <1>8, <1>9, <2>5, <4>1, <5>1
        <5>3. buffer[Len(buffer)] = block[to]
          <6>1. p + 1 \in 1 .. Len(block) + 1 /\ to \in (p + 1) - 1 .. Len(block)
                /\ to - p \in 1 .. to - (p + 1) + 1 /\ (p + 1) + (to - p) - 1 = to
            BY <1>3, <1>4
          <6>2. SubSeq(block, p + 1, to)[to - p] = block[(p + 1) + (to - p) - 1]
            BY <1>3, <6>1, PartOfText
          <6> QED BY <1>4, <6>1, <6>2
        <5>4. block[j] = "half"
          BY DEF Openers
        <5>5. j # to
          BY <5>2, <5>3, <5>4
        <5> QED BY <1>3, <1>4, <2>1, <3>1, <4>1, <5>5
      <4>2. CASE pass # Len(buffer)
        BY <1>3, <1>4, <1>9, <2>1, <3>1, <4>2
      <4> QED BY <4>1, <4>2
    <3> QED BY <3>1, <3>2
  <2> QED BY <1>3, <2>3, <2>4, <2>5
<1>15. Len(out') <= written'
  BY <1>2, <1>3, <1>9, <1>10
<1>16. CutInv'
  BY <1>2, <1>4, <1>10, <1>13, <1>14, <1>15 DEF CutInv
<1> QED BY <1>12, <1>16


\* What is withheld at the end of a block is what Whole makes of its rest.
LEMMA EndBlockIsWhole ==
  ASSUME TurnTypeOK, CutInv, EndBlock
  PROVE  out' = Whole(block)
<1> DEFINE p == Len(out)
           tail == SubSeq(block, p + 1, Len(block))
<1>1. /\ block \in Seq(Pieces) /\ Len(block) \in Nat /\ written = Len(block) /\ block # <<>>
      /\ p \in Nat
  BY LenProperties DEF TurnTypeOK, EndBlock
<1>2. /\ p <= Len(block) /\ out = SubSeq(block, 1, p) /\ filter.buffer = tail
      /\ filter.suspect => p + 1 \in Openers(block)
      /\ \A j \in Openers(block) : p < j /\ (filter.suspect \/ Len(block) <= j)
  BY <1>1 DEF CutInv
<1>3. out' = out \o (IF filter.suspect /\ Salvageable(tail) THEN <<"call">> ELSE tail)
  BY <1>2 DEF EndBlock, Flushed, Salvages
<1>4. /\ Openers(block) = {} => Trigger(block) = 0
      /\ Openers(block) # {} => /\ Trigger(block) \in Openers(block)
                                /\ \A j \in Openers(block) : Trigger(block) <= j
      /\ Openers(block) \subseteq 1 .. Len(block) - 1
  BY <1>1, TriggerIsFirst
<1> HIDE DEF p
<1>5. CASE filter.suspect
  <2>1. Trigger(block) = p + 1 /\ Trigger(block) # 0 /\ Trigger(block) - 1 = p
    <3>1. p + 1 \in Openers(block) /\ Trigger(block) \in Openers(block)
      BY <1>2, <1>4, <1>5
    <3>2. Trigger(block) <= p + 1 /\ p < Trigger(block) /\ Trigger(block) \in 1 .. Len(block) - 1
      BY <1>2, <1>4, <3>1
    <3> QED BY <1>1, <3>2
  <2>2. Whole(block) = SubSeq(block, 1, Trigger(block) - 1)
                         \o (IF Salvageable(SubSeq(block, Trigger(block), Len(block)))
                               THEN <<"call">> ELSE SubSeq(block, Trigger(block), Len(block)))
    BY <2>1, Zenon DEF Whole
  <2>3. Whole(block) = SubSeq(block, 1, p) \o (IF Salvageable(tail) THEN <<"call">> ELSE tail)
    BY <2>1, <2>2
  <2> QED BY <1>2, <1>3, <1>5, <2>3
<1>6. CASE ~ filter.suspect
  <2>1. Openers(block) = {}
    BY <1>1, <1>2, <1>4, <1>6
  <2>2. Whole(block) = block
    BY <1>4, <2>1 DEF Whole
  <2>3. out' = SubSeq(block, 1, p) \o tail
    BY <1>2, <1>3, <1>6
  <2>4. 1 \in 1 .. Len(block) + 1 /\ p \in 1 - 1 .. Len(block) /\ Len(block) \in p .. Len(block)
    BY <1>1, <1>2
  <2>5. SubSeq(block, 1, p) \o tail = SubSeq(block, 1, Len(block))
    BY <1>1, <2>4, ConcatAdjacentSubSeq
  <2>6. SubSeq(block, 1, Len(block)) = block
    BY <1>1, SubSeqFull
  <2> QED BY <2>2, <2>3, <2>5, <2>6
<1> QED BY <1>5, <1>6

\* What has passed of a block so far is what its whole begins with.
PassesThePrefix == block # <<>> => IsPrefix(out, Whole(block))

LEMMA OutIsPrefix ==
  ASSUME TurnTypeOK, CutInv
  PROVE  PassesThePrefix
<1> SUFFICES ASSUME block # <<>> PROVE IsPrefix(out, Whole(block))
  BY DEF PassesThePrefix
<1>1. /\ block \in Seq(Pieces) /\ Len(block) \in Nat /\ written \in 0 .. Len(block)
      /\ Len(out) \in Nat
  BY LenProperties DEF TurnTypeOK
<1>2. Len(out) <= written /\ out = SubSeq(block, 1, Len(out))
      /\ \A j \in Openers(block) : Len(out) < j
  BY DEF CutInv
<1>3. Len(out) \in 0 .. Len(block)
  BY <1>1, <1>2
<1>4. IsPrefix(SubSeq(block, 1, Len(out)), Whole(block))
  BY <1>1, <1>2, <1>3, PassedIsPrefix
<1> QED BY <1>2, <1>4

-----------------------------------------------------------------------------
(* The turn                                                                *)

TurnInv == TurnTypeOK /\ BudgetInv /\ CutInv

LEMMA InitTurn == TurnInit => TurnInv
<1> SUFFICES ASSUME TurnInit PROVE TurnInv
  OBVIOUS
<1>1. TurnTypeOK
  <2>1. <<>> \in Seq(Pieces) /\ <<>> \in Seq(Pieces \cup {"call"}) /\ <<>> \in Seq(States \X Nat)
        /\ Len(<<>>) = 0
    BY EmptySeq
  <2>2. ToolCallBudget \in Nat
    BY TurnAssumption
  <2> QED BY <2>1, <2>2 DEF TurnInit, TurnTypeOK, Idle
<1>2. BudgetInv
  <2>1. Ran(calls) = {}
    BY DEF TurnInit, Ran
  <2>2. Cardinality(Ran(calls)) = 0
    BY <2>1, FS_EmptySet
  <2>3. ToolCallBudget \in Nat /\ remaining = ToolCallBudget
    BY TurnAssumption DEF TurnInit
  <2> QED BY <2>2, <2>3 DEF BudgetInv, TurnInit
<1>3. CutInv
  BY DEF TurnInit, CutInv
<1> QED BY <1>1, <1>2, <1>3 DEF TurnInv

LEMMA EndBlockKeepsTurn ==
  ASSUME TurnInv, EndBlock
  PROVE  TurnInv'
<1>1. /\ block' = <<>> /\ written' = 0 /\ filter' = Idle /\ out' = Flushed
      /\ UNCHANGED <<phase, step, blocks, remaining>> /\ phase = "step"
  BY DEF EndBlock, turn
<1>2. calls \in Seq(States \X Nat) /\ step \in Nat /\ step # 0
      /\ Cardinality(Ran(calls)) + remaining = ToolCallBudget
  BY <1>1 DEF TurnInv, TurnTypeOK, BudgetInv
<1>3. calls' \in Seq(States \X Nat) /\ Ran(calls') = Ran(calls)
  <2>1. CASE Salvages
    <3>1. PICK keys : calls' = Call(keys)
      BY <2>1 DEF EndBlock
    <3> QED BY <1>2, <3>1, CallKeepsBudget
  <2>2. CASE ~ Salvages
    BY <1>2, <2>2 DEF EndBlock
  <2> QED BY <2>1, <2>2
<1>4. out' \in Seq(Pieces \cup {"call"})
  <2>1. out \in Seq(Pieces \cup {"call"}) /\ filter.buffer \in Seq(Pieces)
    BY DEF TurnInv, TurnTypeOK
  <2>2. filter.buffer \in Seq(Pieces \cup {"call"}) /\ <<"call">> \in Seq(Pieces \cup {"call"})
    BY <2>1, SeqMonotonic
  <2> QED BY <1>1, <2>1, <2>2, ConcatProperties DEF Flushed
<1>5. TurnTypeOK'
  <2>1. <<>> \in Seq(Pieces) /\ Len(<<>>) = 0
    BY EmptySeq
  <2>2. filter' \in [buffer : Seq(Pieces), suspect : BOOLEAN]
    BY <1>1, <2>1 DEF Idle
  <2> QED BY <1>1, <1>3, <1>4, <2>1, <2>2 DEF TurnInv, TurnTypeOK
<1> QED BY <1>1, <1>2, <1>3, <1>5 DEF TurnInv, BudgetInv, CutInv

LEMMA StartBlockKeepsTurn ==
  ASSUME TurnInv, StartBlock
  PROVE  TurnInv'
<1>1. /\ block = <<>> /\ block' \in Seq(Pieces) /\ blocks' = blocks + 1
      /\ written' = 0 /\ out' = <<>>
      /\ UNCHANGED <<phase, step, filter, calls, remaining>>
  BY TurnAssumption DEF StartBlock, turn
<1>2. filter' = Idle /\ Len(out') = 0 /\ Len(block') \in Nat
  BY <1>1, EmptySeq, LenProperties DEF TurnInv, CutInv
<1>3. TurnTypeOK'
  BY <1>1, <1>2, EmptySeq DEF TurnInv, TurnTypeOK
<1>4. BudgetInv'
  BY <1>1 DEF TurnInv, BudgetInv
<1>5. CutInv'
  <2>1. SubSeq(block', 1, 0) = <<>>
    BY SubSeqEmpty
  <2>2. Openers(block') \subseteq 1 .. Len(block') - 1
    BY <1>1, TriggerIsFirst
  <2> QED BY <1>1, <1>2, <2>1, <2>2 DEF CutInv, Idle
<1> QED BY <1>3, <1>4, <1>5 DEF TurnInv

LEMMA NextKeepsTurn == TurnInv /\ [TurnNext]_turnVars => TurnInv'
<1> SUFFICES ASSUME TurnInv, [TurnNext]_turnVars PROVE TurnInv'
  OBVIOUS
<1>1. CASE StartTurn
  <2>1. /\ calls = <<>> /\ step' = 1 /\ phase' = "step" /\ remaining' = ToolCallBudget
        /\ UNCHANGED <<block, written, filter, out, blocks, calls>>
    BY <1>1 DEF StartTurn, stream, TurnInv, BudgetInv
  <2>2. Cardinality(Ran(calls')) = 0
    <3>1. Ran(calls') = {}
      BY <2>1 DEF Ran
    <3> QED BY <3>1, FS_EmptySet
  <2>3. ToolCallBudget \in Nat
    BY TurnAssumption
  <2>4. TurnTypeOK' /\ BudgetInv' /\ CutInv'
    BY <2>1, <2>2, <2>3 DEF TurnInv, TurnTypeOK, BudgetInv, CutInv
  <2> QED BY <2>4 DEF TurnInv
<1>2. CASE StartBlock
  BY <1>2, StartBlockKeepsTurn
<1>3. CASE Delta
  <2>1. TurnTypeOK' /\ CutInv'
    BY <1>3, DeltaKeepsCut DEF TurnInv
  <2> QED BY <1>3, <2>1 DEF TurnInv, BudgetInv, Delta, turn
<1>4. CASE EndBlock
  BY <1>4, EndBlockKeepsTurn
<1>5. CASE ToolCall
  <2>1. PICK keys : calls' = Call(keys)
    BY <1>5 DEF ToolCall
  <2>2. UNCHANGED <<phase, step, block, written, filter, out, blocks, remaining>> /\ phase = "step"
    BY <1>5 DEF ToolCall, turn, stream
  <2>3. calls' \in Seq(States \X Nat) /\ Ran(calls') = Ran(calls)
    BY <2>1, CallKeepsBudget DEF TurnInv, TurnTypeOK
  <2> QED BY <2>2, <2>3 DEF TurnInv, TurnTypeOK, BudgetInv, CutInv
<1>6. ASSUME NEW i \in DOMAIN calls, RunTool(i) PROVE TurnInv'
  <2>1. calls' \in Seq(States \X Nat) /\ remaining' \in Nat /\ BudgetInv'
    BY <1>6, RunToolKeepsBudget, TurnAssumption DEF TurnInv
  <2> QED BY <1>6, <2>1 DEF TurnInv, TurnTypeOK, CutInv, RunTool, turn, stream
<1>7. ASSUME NEW i \in DOMAIN calls, ToolAnswers(i) PROVE TurnInv'
  <2>1. calls' \in Seq(States \X Nat) /\ BudgetInv'
    BY <1>7, ToolAnswersKeepsBudget DEF TurnInv
  <2> QED BY <1>7, <2>1 DEF TurnInv, TurnTypeOK, CutInv, ToolAnswers, turn, stream
<1>8. CASE Finish
  BY <1>8 DEF Finish, stream, TurnInv, TurnTypeOK, BudgetInv, CutInv
<1>9. CASE NextStep
  BY <1>9 DEF NextStep, stream, TurnInv, TurnTypeOK, BudgetInv, CutInv
<1>10. CASE Cut
  BY <1>10 DEF Cut, stream, TurnInv, TurnTypeOK, BudgetInv, CutInv
<1>11. CASE UNCHANGED turnVars
  BY <1>11 DEF turnVars, TurnInv, TurnTypeOK, BudgetInv, CutInv
<1> QED BY <1>1, <1>2, <1>3, <1>4, <1>5, <1>6, <1>7, <1>8, <1>9, <1>10, <1>11 DEF TurnNext

LEMMA TurnInvariant == TurnSpec => []TurnInv
BY InitTurn, NextKeepsTurn, PTL DEF TurnSpec

(* TOOL_CALL_BUDGET of agent/tools.ts is what a turn spends at most, however *)
(* many calls its steps make and however they overlap, and whether or not    *)
(* the turn is cut while they run.                                           *)
THEOREM TurnsKeepTheirBudget == TurnSpec => []BudgetHeld
<1>1. TurnInv => BudgetHeld
  <2> SUFFICES ASSUME TurnInv PROVE BudgetHeld
    OBVIOUS
  <2>1. Cardinality(Ran(calls)) + remaining = ToolCallBudget /\ remaining \in Nat
        /\ Cardinality(Ran(calls)) \in Nat
    BY RanIsFinite DEF TurnInv, TurnTypeOK, BudgetInv
  <2>2. Cardinality(Ran(calls)) <= ToolCallBudget
    BY <2>1
  <2> QED BY <2>2 DEF BudgetHeld, Ran
<1> QED BY <1>1, TurnInvariant, PTL

(* The filter of textToolCallMiddleware.ts lets pass of a block what         *)
(* salvaging the whole block would, wherever the provider cuts it into       *)
(* deltas, for texts of any length: a tool call written as text is found     *)
(* although its opener is split, and no piece of one is ever shown.          *)
THEOREM FilterIgnoresCuts == TurnSpec => CutsDoNotMatter
<1>1. TurnInv => PassesThePrefix
  BY OutIsPrefix DEF TurnInv
<1>2. PassesThePrefix /\ PassesThePrefix' /\ TurnInv /\ [TurnNext]_turnVars
        => [/\ block # <<>> => IsPrefix(out', Whole(block))
            /\ EndBlock => out' = Whole(block)]_turnVars
  <2> SUFFICES ASSUME PassesThePrefix, PassesThePrefix', TurnInv, TurnNext
               PROVE  /\ block # <<>> => IsPrefix(out', Whole(block))
                      /\ EndBlock => out' = Whole(block)
    OBVIOUS
  <2>1. EndBlock => out' = Whole(block)
    BY EndBlockIsWhole DEF TurnInv
  <2>2. ASSUME block # <<>> PROVE IsPrefix(out', Whole(block))
    <3>1. CASE EndBlock
      <4>1. out' = Whole(block)
        BY <2>1, <3>1
      <4> QED BY <4>1 DEF IsPrefix
    <3>2. CASE Delta
      <4>1. block' = block
        BY <3>2 DEF Delta
      <4>2. IsPrefix(out', Whole(block'))
        BY <2>2, <4>1 DEF PassesThePrefix
      <4> QED BY <4>1, <4>2
    <3>3. CASE ~ EndBlock /\ ~ Delta
      <4>1. out' = out
        BY <2>2, <3>3 DEF TurnNext, StartTurn, StartBlock, ToolCall, RunTool, ToolAnswers, Finish,
                          NextStep, Cut, stream
      <4>2. IsPrefix(out, Whole(block))
        BY <2>2 DEF PassesThePrefix
      <4> QED BY <4>1, <4>2
    <3> QED BY <3>1, <3>2, <3>3
  <2> QED BY <2>1, <2>2
<1> QED BY <1>1, <1>2, TurnInvariant, PTL DEF CutsDoNotMatter, TurnSpec

=============================================================================
