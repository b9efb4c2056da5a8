------------------------------- MODULE LogSink -------------------------------
(***************************************************************************)
(* What a log file promises to those who write to it: lines are appended   *)
(* to one text, in the order in which they are given, and what has become  *)
(* durable of the text stays as it is.  The rest may be cut off, within a  *)
(* line even, but only by a write that fails, which nobody is told of.     *)
(* LogFile, whose text is that of all its files, implements it.            *)
(***************************************************************************)
EXTENDS LogText

CONSTANT CanFail    \* whether a write may fail

VARIABLES
  given,      \* how many lines have been given
  content,    \* the lines of the text
  durable,    \* how many of them would survive the process
  failed,     \* whether a write has failed
  open

sinkVars == <<given, content, durable, failed, open>>

SinkInit == given = 0 /\ content = <<>> /\ durable = 0 /\ failed = FALSE /\ open = TRUE

\* The text becomes this one, or what a failing write leaves of it.
Becomes(text) ==
  \/ content' = text /\ UNCHANGED failed
  \/ CanFail /\ failed' = TRUE /\ content' \in Cuts(text, durable)

\* Any part of the text may become durable with a line.
Give ==
  /\ open /\ UNCHANGED open
  /\ given' = given + 1
  /\ Becomes(Append(content, Whole(given')))
  /\ durable' \in durable .. Len(content')

\* A flush that is asked for leaves nothing behind that could still be lost.
FlushAll == open /\ Becomes(content) /\ durable' = Len(content') /\ UNCHANGED <<given, open>>

CloseSink ==
  /\ open /\ open' = FALSE
  /\ Becomes(content) /\ durable' = Len(content')
  /\ UNCHANGED given

SinkNext == Give \/ FlushAll \/ CloseSink

SinkSpec == SinkInit /\ [][SinkNext]_sinkVars
=============================================================================
