-------------------------- MODULE CliSessionProofs --------------------------
(***************************************************************************)
(* Proofs about the command-line session, for any number of commands.      *)
(***************************************************************************)
EXTENDS CliSession, TLAPS

\* Every command that was accepted is chained to the one before it.
Chained ==
    /\ \A n \in Commands : cmd[n].at = "absent" <=> n > currentOp
    /\ \A n \in Commands : n <= currentOp => after[n] = n - 1
    /\ awaited <= currentOp

CliInv == CliTypeOK /\ Chained /\ OneAtATime /\ LinesPair

LEMMA CliInitInv == CliInit => CliInv
<1> SUFFICES ASSUME CliInit PROVE CliInv
  OBVIOUS
<1>1. CliTypeOK
  BY CliAssumption DEF CliInit, CliTypeOK, Kinds, Steps
<1>2. Chained /\ OneAtATime
  BY CliAssumption DEF CliInit, Chained, OneAtATime, Commands
<1>3. LinesPair
  BY CliAssumption DEF CliInit, LinesPair, Commands
<1> QED BY <1>1, <1>2, <1>3 DEF CliInv

\* A command that goes on: every one before it is done, and it is not.
LEMMA GoesOn ==
  ASSUME CliInv, NEW n \in Commands,
         cmd[n].at \in {"query", "lookup", "work"}
           \/ (cmd[n].at = "queued" /\ Resolved(after[n]))
  PROVE  /\ \A m \in Commands : m < n => cmd[m].at = "done"
         /\ n <= currentOp /\ cmd[n].at \notin {"absent", "done"}
         /\ Len(lines) = n - 1
<1>1. n <= currentOp /\ cmd[n].at \notin {"absent", "done"}
  BY CliAssumption DEF CliInv, CliTypeOK, Chained, Commands
<1>2. ASSUME NEW m \in Commands, m < n PROVE cmd[m].at = "done"
  <2>1. CASE cmd[n].at \in {"query", "lookup", "work"}
    BY <1>2, <2>1 DEF CliInv, OneAtATime
  <2>2. CASE cmd[n].at = "queued" /\ Resolved(after[n])
    <3>1. after[n] = n - 1
      BY <1>1 DEF CliInv, Chained
    <3>2. n - 1 \in Commands /\ cmd[n - 1].at = "done"
      BY <1>2, <2>2, <3>1, CliAssumption DEF Resolved, Commands
    <3>3. CASE m = n - 1
      BY <3>2, <3>3
    <3>4. CASE m # n - 1
      <4>1. m < n - 1
        BY <1>2, <3>4 DEF Commands
      <4> QED BY <3>2, <4>1 DEF CliInv, OneAtATime
    <3> QED BY <3>3, <3>4
  <2> QED BY <2>1, <2>2
<1>3. ~(n <= Len(lines)) /\ Len(lines) \in Nat
  BY <1>1 DEF CliInv, LinesPair, CliTypeOK
<1>4. n - 1 <= Len(lines)
  <2>1. CASE n = 1
    BY <1>3, <2>1
  <2>2. CASE n # 1
    <3>1. n - 1 \in Commands /\ n - 1 < n
      BY <2>2, CliAssumption DEF Commands
    <3> QED BY <1>2, <3>1 DEF CliInv, LinesPair
  <2> QED BY <2>1, <2>2
<1>5. n \in Nat
  BY CliAssumption DEF Commands
<1> QED BY <1>1, <1>2, <1>3, <1>4, <1>5

\* Its next step, with or without a line.
LEMMA MoveInv ==
  ASSUME CliInv, NEW n \in Commands, NEW step \in Steps \ {"absent", "queued", "done"},
         cmd[n].at \in {"query", "lookup", "work"}
           \/ (cmd[n].at = "queued" /\ Resolved(after[n])),
         MoveTo(n, step) \/ AnswerLine(n),
         UNCHANGED <<after, currentOp, session, awaited>>
  PROVE  CliInv'
<1>1. /\ \A m \in Commands : m < n => cmd[m].at = "done"
      /\ n <= currentOp /\ cmd[n].at \notin {"absent", "done"}
      /\ Len(lines) = n - 1
  BY GoesOn
<1>2. CASE MoveTo(n, step)
  <2>1. /\ cmd' \in [Commands -> [kind : Kinds, at : Steps]]
        /\ cmd'[n].at = step /\ \A m \in Commands \ {n} : cmd'[m] = cmd[m]
    BY <1>2 DEF MoveTo, Move, CliInv, CliTypeOK
  <2>2. lines' = lines
    BY <1>2 DEF MoveTo
  <2>3. CliTypeOK'
    BY <2>1, <2>2 DEF CliInv, CliTypeOK
  <2>4. Chained'
    BY <1>1, <2>1, CliAssumption DEF CliInv, CliTypeOK, Chained, Commands
  <2>5. OneAtATime'
    BY <1>1, <2>1, CliAssumption DEF CliInv, OneAtATime, Commands
  <2>6. LinesPair'
    BY <1>1, <2>1, <2>2 DEF CliInv, LinesPair
  <2> QED BY <2>3, <2>4, <2>5, <2>6 DEF CliInv
<1>3. CASE AnswerLine(n)
  <2>1. /\ cmd' \in [Commands -> [kind : Kinds, at : Steps]]
        /\ cmd'[n].at = "done" /\ \A m \in Commands \ {n} : cmd'[m] = cmd[m]
    BY <1>3 DEF AnswerLine, Move, CliInv, CliTypeOK, Steps
  <2>2. lines' = Append(lines, n) /\ lines \in Seq(Commands)
    BY <1>3 DEF AnswerLine, CliInv, CliTypeOK
  <2>3. lines' \in Seq(Commands) /\ Len(lines') = n
        /\ lines'[n] = n /\ \A k \in 1..Len(lines) : lines'[k] = lines[k]
    BY <1>1, <2>2, CliAssumption DEF Commands
  <2>4. CliTypeOK'
    BY <2>1, <2>3 DEF CliInv, CliTypeOK
  <2>5. Chained'
    BY <1>1, <2>1, CliAssumption DEF CliInv, CliTypeOK, Chained, Commands
  <2>6. OneAtATime'
    BY <1>1, <2>1, CliAssumption DEF CliInv, OneAtATime, Commands
  <2>7. ASSUME NEW k \in 1..Len(lines') PROVE lines'[k] = k
    <3>1. k = n \/ k \in 1..Len(lines)
      BY <1>1, <2>3 DEF Commands
    <3> QED BY <2>3, <3>1 DEF CliInv, LinesPair
  <2>8. ASSUME NEW m \in Commands
        PROVE  cmd'[m].at = "done" <=> m <= Len(lines')
    <3>1. m <= n - 1 <=> m <= Len(lines)
      BY <1>1
    <3>2. CASE m = n
      BY <2>1, <2>3, <3>2, CliAssumption DEF Commands
    <3>3. CASE m # n
      <4>1. m <= n <=> m <= n - 1
        BY <3>3, CliAssumption DEF Commands
      <4> QED BY <2>1, <2>3, <3>1, <3>3, <4>1 DEF CliInv, LinesPair
    <3> QED BY <3>2, <3>3
  <2> QED BY <2>4, <2>5, <2>6, <2>7, <2>8 DEF CliInv, LinesPair
<1> QED BY <1>2, <1>3

LEMMA AcceptInv ==
  ASSUME CliInv, NEW kind \in Kinds, AcceptLine(kind)
  PROVE  CliInv'
<1> DEFINE n == currentOp + 1  q == [kind |-> kind, at |-> "queued"]
<1>1. /\ n \in Commands /\ cmd' = [cmd EXCEPT ![n] = q]
      /\ after' = [after EXCEPT ![n] = currentOp] /\ currentOp' = n
      /\ UNCHANGED <<lines, session, awaited>>
  BY DEF AcceptLine, Predecessor
<1>2. q \in [kind : Kinds, at : Steps] /\ q.at = "queued"
  BY DEF Steps
<1>3. currentOp \in Nat /\ n \in 0..MaxCommands /\ currentOp \in 0..MaxCommands
  BY <1>1, CliAssumption DEF CliInv, CliTypeOK, Commands
<1> HIDE DEF q
<1>4. CliTypeOK'
  BY <1>1, <1>2, <1>3 DEF CliInv, CliTypeOK
<1>5. cmd[n].at = "absent"
  BY <1>1, <1>3 DEF CliInv, Chained
<1>6. cmd'[n].at = "queued" /\ \A m \in Commands \ {n} : cmd'[m] = cmd[m]
  BY <1>1, <1>2 DEF CliInv, CliTypeOK
<1>7. Chained'
  BY <1>1, <1>3, <1>6, CliAssumption DEF CliInv, CliTypeOK, Chained, Commands
<1>8. OneAtATime'
  BY <1>5, <1>6 DEF CliInv, OneAtATime
<1>9. LinesPair'
  BY <1>1, <1>5, <1>6 DEF CliInv, LinesPair
<1> QED BY <1>4, <1>7, <1>8, <1>9 DEF CliInv

LEMMA CliStepInv == CliInv /\ [CliNext]_cliVars => CliInv'
<1> SUFFICES ASSUME CliInv, [CliNext]_cliVars PROVE CliInv'
  OBVIOUS
<1>1. CASE Close \/ Disconnect \/ EndSession \/ UNCHANGED cliVars
  <2>1. UNCHANGED <<cmd, after, currentOp, lines>>
    BY <1>1 DEF Close, Disconnect, EndSession, cliVars
  <2>2. session' \in {"open", "closing", "disconnected", "ended"}
        /\ (awaited' = awaited \/ awaited' = currentOp)
    BY <1>1 DEF Close, Disconnect, EndSession, cliVars, CliInv, CliTypeOK
  <2>3. CliTypeOK'
    BY <2>1, <2>2 DEF CliInv, CliTypeOK
  <2>4. Chained'
    BY <2>1, <2>2, CliAssumption DEF CliInv, CliTypeOK, Chained
  <2>5. OneAtATime' /\ LinesPair'
    BY <2>1 DEF CliInv, OneAtATime, LinesPair
  <2> QED BY <2>3, <2>4, <2>5 DEF CliInv
<1>2. ASSUME NEW n \in Commands, RunCommand(n) \/ WorkDone(n) PROVE CliInv'
  <2>1. "query" \in Steps \ {"absent", "queued", "done"}
        /\ "lookup" \in Steps \ {"absent", "queued", "done"}
        /\ "work" \in Steps \ {"absent", "queued", "done"}
    BY DEF Steps
  <2>2. CASE StartCommand(n)
    BY <2>1, <2>2, MoveInv DEF StartCommand
  <2>3. CASE QueryDone(n) \/ LookupDone(n) \/ WorkDone(n)
    BY <2>1, <2>3, MoveInv DEF QueryDone, LookupDone, WorkDone
  <2> QED BY <1>2, <2>2, <2>3 DEF RunCommand
<1> QED BY <1>1, <1>2, AcceptInv DEF CliNext, CliStep

\* At the step that disconnects the database every awaited command is done.
LEMMA DisconnectStep ==
  ASSUME CliInv, [CliNext]_cliVars, session = "closing", session' = "disconnected"
  PROVE  \A n \in 1..awaited : n <= Len(lines)
<1>1. Disconnect
  BY DEF CliNext, CliStep, AcceptLine, Close, EndSession, RunCommand, StartCommand,
     QueryDone, LookupDone, WorkDone, cliVars
<1>2. awaited = 0 \/ (awaited \in Commands /\ cmd[awaited].at = "done")
  BY <1>1 DEF Disconnect, Resolved
<1>3. CASE awaited = 0
  BY <1>3
<1>4. CASE awaited \in Commands /\ cmd[awaited].at = "done"
  BY <1>4 DEF CliInv, LinesPair, CliTypeOK, Commands
<1> QED BY <1>2, <1>3, <1>4

LEMMA CliInvariant == CliSpec => []CliInv
<1>1. CliInv /\ [CliNext]_cliVars => CliInv'
  BY CliStepInv
<1> QED BY CliInitInv, <1>1, PTL DEF CliSpec

\* The session's state keeps its type.
THEOREM CliTypesCorrect == CliSpec => []CliTypeOK
<1>1. CliInv => CliTypeOK
  BY DEF CliInv
<1> QED BY <1>1, CliInvariant, PTL

\* The n-th line answers the n-th command.
THEOREM LinesMatch == CliSpec => []LinesPair
<1>1. CliInv => LinesPair
  BY DEF CliInv
<1> QED BY <1>1, CliInvariant, PTL

\* A command begins when all those before it have finished.
THEOREM CommandsExclude == CliSpec => []OneAtATime
<1>1. CliInv => OneAtATime
  BY DEF CliInv
<1> QED BY <1>1, CliInvariant, PTL

\* The database is disconnected after the commands accepted before the close.
THEOREM SessionDrains == CliSpec => DrainedFirst
<1>1. CliInv /\ [CliNext]_cliVars =>
        [session = "closing" /\ session' = "disconnected"
           => \A n \in 1..awaited : n <= Len(lines)]_cliVars
  BY DisconnectStep
<1> QED BY <1>1, CliInvariant, PTL DEF CliSpec, DrainedFirst
=============================================================================
