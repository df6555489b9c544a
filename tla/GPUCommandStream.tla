-------------------------- MODULE GPUCommandStream --------------------------
(***************************************************************************)
(* What the GPU back end promises its callers: drawing commands take       *)
(* effect one by one, in the order in which they were pushed, each of them *)
(* exactly once, and Sync returns when all of them have.                   *)
(***************************************************************************)
EXTENDS Sequences

CONSTANTS Commands, NoCommand

VARIABLES
  queue,       \* commands pushed and not yet executed
  executed,    \* the command that took effect last
  phase        \* "open", in Sync ("syncing") or shutting down ("closing")

streamVars == <<queue, executed, phase>>

StreamInit == queue = <<>> /\ executed = NoCommand /\ phase = "open"

Push(c) ==
  /\ phase = "open"
  /\ UNCHANGED <<executed, phase>>
  /\ queue' = Append(queue, c)

Execute ==
  /\ queue # <<>>
  /\ executed' = Head(queue) /\ queue' = Tail(queue)
  /\ UNCHANGED phase

\* Without a GPU thread a command takes effect when it is pushed.
PushAndExecute(c) ==
  /\ phase = "open" /\ executed' = c
  /\ queue = <<>>
  /\ UNCHANGED <<phase, queue>>

BeginSync == phase = "open" /\ phase' = "syncing" /\ UNCHANGED <<queue, executed>>

EndSync ==
  /\ phase = "syncing" /\ queue = <<>>
  /\ phase' = "open"
  /\ UNCHANGED <<queue, executed>>

\* Shutting down may leave commands behind; a new back end starts afresh.
BeginClose == phase = "open" /\ phase' = "closing" /\ UNCHANGED <<queue, executed>>

Reopen ==
  /\ phase = "closing"
  /\ phase' = "open" /\ queue' = <<>> /\ executed' = NoCommand

StreamNext ==
  \/ \E c \in Commands : Push(c) \/ PushAndExecute(c)
  \/ Execute
  \/ BeginSync \/ EndSync \/ BeginClose \/ Reopen

StreamSpec == StreamInit /\ [][StreamNext]_streamVars
=============================================================================
