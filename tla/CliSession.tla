----------------------------- MODULE CliSession -----------------------------
(***************************************************************************)
(* The command line: startCli and handleCommand in src/cli.ts.             *)
(*                                                                         *)
(* Commands arrive on stdin faster than they are carried out.  Each is     *)
(* chained to the promise of the one before it (currentOp).  Answers are   *)
(* JSON lines without an identifier: the caller pairs the n-th line with   *)
(* its n-th command.  On "exit" or at the end of input the session waits   *)
(* for the commands accepted so far and disconnects the database.          *)
(***************************************************************************)
EXTENDS Naturals, Sequences

CONSTANTS
    MaxCommands,    \* bound on the commands of a session
    LateLines       \* TRUE: readline may deliver the rest of a chunk after close

ASSUME CliAssumption == MaxCommands \in Nat /\ LateLines \in BOOLEAN

VARIABLES
    cmd,        \* per command: its kind and how far it is
    after,      \* per command: the one whose promise it is chained to, 0: none
    currentOp,  \* the last command accepted
    lines,      \* stdout: the command that each line answers
    session,    \* "open", "closing", "disconnected", "ended"
    awaited     \* what cleanup awaits

cliVars == <<cmd, after, currentOp, lines, session, awaited>>

Commands == 1..MaxCommands

\* "local": answered without an await (help, info, decode, disabled and
\* malformed commands); "query": one database access (create, list);
\* "service": the wallet is looked up and a service called.
Kinds == {"local", "query", "service"}
\* "rejected" is what the try block around the handler keeps from happening.
Steps == {"absent", "queued", "query", "lookup", "work", "done", "rejected"}

CliInit ==
    /\ cmd = [n \in Commands |-> [kind |-> "local", at |-> "absent"]]
    /\ after = [n \in Commands |-> 0]
    /\ currentOp = 0
    /\ lines = <<>>
    /\ session = "open"
    /\ awaited = 0

\* A promise that has resolved.
Resolved(n) == n = 0 \/ (n \in Commands /\ cmd[n].at = "done")

-----------------------------------------------------------------------------
(* readline                                                                *)

NoPredecessor == 0      \* broken variant: commands run as they arrive
Predecessor == currentOp

\* A line with a command: chained to the last one.
AcceptLine(kind) ==
    LET n == currentOp + 1 IN
    /\ session = "open" \/ LateLines
    /\ n \in Commands
    /\ cmd' = [cmd EXCEPT ![n] = [kind |-> kind, at |-> "queued"]]
    /\ after' = [after EXCEPT ![n] = Predecessor]
    /\ currentOp' = n
    /\ UNCHANGED <<lines, session, awaited>>

\* "exit", "quit" or the end of input: cleanup awaits the promise as it is now.
Close ==
    /\ session = "open"
    /\ session' = "closing"
    /\ awaited' = currentOp
    /\ UNCHANGED <<cmd, after, currentOp, lines>>

\* Broken variant: cleanup does not wait.
DisconnectAtOnce ==
    /\ session = "closing"
    /\ session' = "disconnected"
    /\ UNCHANGED <<cmd, after, currentOp, lines, awaited>>

Disconnect ==
    /\ session = "closing"
    /\ Resolved(awaited)
    /\ session' = "disconnected"
    /\ UNCHANGED <<cmd, after, currentOp, lines, awaited>>

\* startCli's promise resolves.
EndSession ==
    /\ session = "disconnected"
    /\ session' = "ended"
    /\ UNCHANGED <<cmd, after, currentOp, lines, awaited>>

-----------------------------------------------------------------------------
(* handleCommand                                                           *)

Move(n, step) == cmd' = [cmd EXCEPT ![n] = [kind |-> cmd[n].kind, at |-> step]]

\* The one line of a command, an answer or an error, and its promise resolves:
\* what the handler throws is caught around it.
AnswerLine(n) == Move(n, "done") /\ lines' = Append(lines, n)

\* The command comes to its next await.
MoveTo(n, step) == Move(n, step) /\ UNCHANGED lines

\* The promise before it has resolved: the handler runs to its first await.
StartCommand(n) ==
    /\ cmd[n].at = "queued" /\ Resolved(after[n])
    /\ \/ cmd[n].kind = "local" /\ AnswerLine(n)
       \/ cmd[n].kind = "query" /\ MoveTo(n, "query")
       \/ cmd[n].kind = "service" /\ MoveTo(n, "lookup")
    /\ UNCHANGED <<after, currentOp, session, awaited>>

\* The database answers or rejects.
QueryDone(n) ==
    /\ cmd[n].at = "query"
    /\ AnswerLine(n)
    /\ UNCHANGED <<after, currentOp, session, awaited>>

\* Broken variant: a rejection of findUnique is caught nowhere.
LookupUncaught(n) ==
    /\ cmd[n].at = "lookup"
    /\ AnswerLine(n) \/ MoveTo(n, "work") \/ MoveTo(n, "rejected")
    /\ UNCHANGED <<after, currentOp, session, awaited>>

\* findUnique: no such wallet (or a rejection, or too few arguments) is
\* answered, a wallet is handed to the service.
LookupDone(n) ==
    /\ cmd[n].at = "lookup"
    /\ AnswerLine(n) \/ MoveTo(n, "work")
    /\ UNCHANGED <<after, currentOp, session, awaited>>

\* The service returns its result or throws.
WorkDone(n) ==
    /\ cmd[n].at = "work"
    /\ AnswerLine(n)
    /\ UNCHANGED <<after, currentOp, session, awaited>>

-----------------------------------------------------------------------------
RunCommand(n) == StartCommand(n) \/ QueryDone(n) \/ LookupDone(n)

CliStep ==
    \/ \E kind \in Kinds : AcceptLine(kind)
    \/ Close \/ Disconnect \/ EndSession
    \/ \E n \in Commands : RunCommand(n)

CliNext == CliStep \/ \E n \in Commands : WorkDone(n)

CliSpec == CliInit /\ [][CliNext]_cliVars

-----------------------------------------------------------------------------
(* Properties                                                              *)

CliTypeOK ==
    /\ cmd \in [Commands -> [kind : Kinds, at : Steps]]
    /\ after \in [Commands -> 0..MaxCommands]
    /\ currentOp \in 0..MaxCommands
    /\ lines \in Seq(Commands)
    /\ session \in {"open", "closing", "disconnected", "ended"}
    /\ awaited \in 0..MaxCommands

\* Every line answers the command that its place says, and the commands that
\* are done are those with a line: a caller who pairs lines with commands by
\* counting is never wrong, however long a command takes.
LinesPair ==
    /\ \A k \in 1..Len(lines) : lines[k] = k
    /\ \A n \in Commands : cmd[n].at = "done" <=> n <= Len(lines)

\* No command works on the wallet while an earlier one has not finished.
OneAtATime ==
    \A m, n \in Commands :
        m < n /\ cmd[n].at \notin {"absent", "queued"} => cmd[m].at = "done"

\* The database is disconnected only after every command that was accepted
\* before the session was closed has been answered.
DrainedFirst ==
    [][session = "closing" /\ session' = "disconnected"
         => \A n \in 1..awaited : n <= Len(lines)]_cliVars

\* A session that is closed ends.
SessionEnds == session = "closing" ~> session = "ended"
=============================================================================
