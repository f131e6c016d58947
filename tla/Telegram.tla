------------------------------ MODULE Telegram ------------------------------
(***************************************************************************)
(* The Telegram command loop (internal/interactions/telegram/service.go):  *)
(* pollBotUpdates, handleUpdate and HandleCommand, on top of Thresholds,   *)
(* with the part of the Telegram server it relies on.                      *)
(*                                                                         *)
(* The server keeps the updates in the order sent and forgets those below  *)
(* the offset of a GetUpdates call; the offset lives in the loop and is    *)
(* zero after a restart.  Any error of a handler ends Start; what runs the *)
(* loop again, in another life of the process, is in Bot.                  *)
(*                                                                         *)
(* Commands that only read (/stats, /withdraw, /thresholds, /logs, /help)  *)
(* are "query".  An update that is no command is skipped without trace and *)
(* is left out.                                                            *)
(***************************************************************************)
EXTENDS Thresholds, Sequences

CONSTANTS
  Outsiders,    \* users who are not on the allowlist
  Commands,     \* commands that may be sent
  MaxUpdates    \* bound on their number

\* A command: who sends it, what it does, to which threshold.  The id given to
\* "confirm" is that of owner's confirmation.
Command == [user : Users \cup Outsiders, does : {"set", "confirm", "query"},
            key : Asked, value : Values, owner : Users]

ASSUME TelegramAssumption ==
  /\ Outsiders \cap Users = {}
  /\ Commands \subseteq Command
  /\ MaxUpdates \in Nat

VARIABLES
  sent,        \* all updates, in order; update ids are positions
  confirmed,   \* the server has forgotten the updates up to here
  offset,      \* last update the loop has taken on (config.Offset - 1), or 0
  batch,       \* ids of the updates fetched and not yet taken on
  up,          \* Start runs
  answered,    \* ids of the updates answered in the chat
  rejects      \* ids of the updates rejected in the security log

loopVars == <<confirmed, offset, batch, up, answered, rejects>>
vars == <<thresholdVars, sent, loopVars>>

TInit ==
  /\ Init
  /\ sent = <<>>
  /\ confirmed = 0
  /\ offset = 0
  /\ batch = {}
  /\ up = FALSE
  /\ answered = {}
  /\ rejects = {}

\* A user sends a command to the server.
SendUpdate ==
  /\ Len(sent) < MaxUpdates
  /\ \E command \in Commands : sent' = Append(sent, command)
  /\ UNCHANGED <<thresholdVars, loopVars>>

AcknowledgesFetched ==
  /\ up /\ reply = "idle" /\ batch = {}
  /\ batch' = (confirmed + 1)..Len(sent)
  /\ confirmed' = Len(sent)
  /\ UNCHANGED <<thresholdVars, sent, offset, up, answered, rejects>>

\* GetUpdates(config): the server forgets the updates below the offset and
\* returns the rest.  Called when the whole last batch has been handled.
GetUpdates ==
  /\ up /\ reply = "idle" /\ batch = {}
  /\ confirmed' = IF offset > confirmed THEN offset ELSE confirmed
  /\ batch' = (confirmed' + 1)..Len(sent)
  /\ UNCHANGED <<thresholdVars, sent, offset, up, answered, rejects>>

\* recordSecurityReject: no answer, only an event; an error if that fails.
Reject(id) ==
  \/ /\ rejects' = rejects \cup {id}
     /\ UNCHANGED thresholdVars
  \/ /\ Fault
     /\ reply' = "error"
     /\ UNCHANGED <<overrides, confirmations, audit, job, lifeVars, rejects>>

AppliesAtOnce(command) ==
  \/ /\ command.does = "set"
     /\ validateChange(command.key, command.value)
     /\ job' = [step |-> "upsert", key |-> command.key, value |-> command.value]
     /\ reply' = "busy"
     /\ UNCHANGED <<overrides, confirmations, audit, lifeVars, faults>>
  \/ command.does = "query" /\ Query

\* The command of an authorised user.
dispatch(command) ==
  \/ command.does = "set" /\ BuildSetConfirmation(command.user, command.key, command.value)
  \/ command.does = "confirm" /\ Consume(command.user, command.key, command.owner)
  \/ command.does = "query" /\ Query

AdvancesTwice(id) == offset' = id + 1

\* config.Offset = update.UpdateID + 1
Advance(id) == offset' = id

\* The loop takes on the next update: the offset moves first, then
\* HandleCommand checks the sender.
HandleUpdate ==
  /\ up /\ reply = "idle" /\ batch # {}
  /\ LET id == CHOOSE n \in batch : \A m \in batch : n <= m
     IN  /\ Advance(id)
         /\ batch' = batch \ {id}
         /\ \/ sent[id].user \in Users /\ dispatch(sent[id]) /\ UNCHANGED rejects
            \/ sent[id].user \notin Users /\ Reject(id)
  /\ UNCHANGED <<sent, confirmed, up, answered>>

\* Start returns; what it had in memory is gone.
Stop ==
  /\ up' = FALSE
  /\ offset' = 0
  /\ batch' = {}
  /\ UNCHANGED <<sent, confirmed, answered, rejects>>

\* It returns, or its process ends, with the command under way unfinished.
Fail == up /\ Lose /\ Stop

\* handleUpdate sends the response of a command, or returns its error.
Respond ==
  \/ /\ up
     /\ reply = "ok"
     /\ Answered
     /\ answered' = answered \cup {offset}
     /\ UNCHANGED <<sent, confirmed, offset, batch, up, rejects>>
  \/ reply = "ok" /\ Fault /\ Fail
  \/ up /\ reply = "error" /\ Answered /\ Stop

\* The steps of a running Confirm.
ConfirmStep == up /\ (Upsert \/ RecordOverride) /\ UNCHANGED <<sent, loopVars>>

\* A new process calls Start.
Restart ==
  /\ ~up
  /\ up' = TRUE
  /\ UNCHANGED <<thresholdVars, sent, confirmed, offset, batch, answered, rejects>>

Quiet == UNCHANGED <<sent, loopVars>>

TNext ==
  \/ SendUpdate
  \/ GetUpdates
  \/ HandleUpdate
  \/ ConfirmStep
  \/ Respond
  \/ Fail /\ (Fault \/ UNCHANGED faults)
  \/ Restart
  \/ Tick /\ Quiet
  \/ ~up /\ Reconfigure /\ Quiet

TSpec == TInit /\ [][TNext]_vars

-----------------------------------------------------------------------------

TTypeOK ==
  /\ TypeOK
  /\ sent \in Seq(Command)
  /\ confirmed \in 0..Len(sent)
  /\ offset \in 0..Len(sent)
  /\ batch \subseteq 1..Len(sent)
  /\ up \in BOOLEAN
  /\ answered \subseteq 1..Len(sent)
  /\ rejects \subseteq 1..Len(sent)

\* The loop is through with an update.
Done(id) == IF sent[id].user \in Users THEN id \in answered ELSE id \in rejects

\* The loop acknowledges an update to the server only when it is through with
\* it: a command was answered in the chat, an outsider's is in the security
\* log.  No restart, failed call or lost answer makes it skip one, although
\* config.Offset moves before the update is handled.
AcknowledgedIsDone == \A id \in 1..confirmed : Done(id)

\* What the loop has taken on in this life is done, but for the command under
\* way: the next offset may cover all of it.
TakenOnIsDone == \A id \in (confirmed + 1)..offset : Done(id) \/ (id = offset /\ reply # "idle")

\* The batch is what follows, without a gap.
BatchFollows ==
  \A id \in batch :
    /\ id > offset
    /\ \A n \in (confirmed + 1)..(id - 1) : n \in batch \/ n <= offset

\* A command under way is that of the last update taken on, by an authorised
\* user, and only a loop that runs has one.
CommandUnderWay ==
  /\ reply \in {"busy", "ok"} => offset > 0 /\ sent[offset].user \in Users
  /\ ~up => offset = 0 /\ batch = {} /\ reply = "idle"

\* The inductive invariant of the loop, on top of that of the thresholds.
TInv ==
  /\ IInv
  /\ TTypeOK
  /\ AcknowledgedIsDone
  /\ TakenOnIsDone
  /\ BatchFollows
  /\ CommandUnderWay

\* Commands reach the thresholds only as Thresholds allows: one at a time, a
\* change after a request and a confirmation, nothing from outsiders.
ImplementsThresholds == Spec
=============================================================================
