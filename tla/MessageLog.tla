------------------------------ MODULE MessageLog ------------------------------
(***************************************************************************)
(* What the message board promises a client: messages are appended to one  *)
(* log, the log becomes durable from its front, a message is acknowledged  *)
(* only when it is durable, and a restart may lose the log but never turns *)
(* an acknowledged message into an unacknowledged one or posts it again.   *)
(* The promise is suspended by an error of the file system and holds again *)
(* from the next rewrite of the files that meets none.                     *)
(***************************************************************************)
EXTENDS Naturals, Sequences, Functions

CONSTANT Posts

VARIABLES
  log,        \* the messages of this run of the process, in order
  durable,    \* length of the prefix of log that is in files
  answered,   \* the messages whose client was told that they are stored
  failed      \* how many operations of the latest rewrite failed

lvars == <<log, durable, answered, failed>>

LInit == log = <<>> /\ durable = 0 /\ answered = {} /\ failed = 0

(* A message enters the log once and was not acknowledged before. *)
LAppend(p) ==
  /\ p \notin Range(log) \cup answered
  /\ log' = Append(log, p)
  /\ UNCHANGED <<durable, answered>>

(* Everything logged so far becomes durable. *)
LStore ==
  /\ durable' = Len(log)
  /\ UNCHANGED <<log, answered>>

(* A message of the durable prefix is acknowledged. *)
LAnswer(i) ==
  /\ answered' = answered \cup {log[i]}
  /\ UNCHANGED <<log, durable>>

LRestart ==
  /\ log' = <<>>
  /\ durable' = 0
  /\ UNCHANGED answered

LNext ==
  \/ \E p \in Posts : LAppend(p)
  \/ LStore
  \/ \E i \in 1 .. durable : LAnswer(i)
  \/ LRestart

LSpec == LInit /\ [][failed = 0 /\ failed' = 0 => LNext]_lvars
===============================================================================
