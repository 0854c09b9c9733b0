----------------------------- MODULE IdleTimeout -----------------------------
(***************************************************************************)
(* run_with_idle_timeout.py of src/common/host: it runs a command, writes  *)
(* its output to a log, ends it when it has been silent for too long, and  *)
(* takes a SHUTDOWN event on the command's QMP socket for success.         *)
(*                                                                         *)
(* Output is counted, not kept.  On the socket a line is "other", or a     *)
(* SHUTDOWN event in two pieces, which need not arrive together; the first *)
(* may stay alone at the end of a connection.  The command leaves no       *)
(* descendant behind that keeps its output open.  Of events that are ready *)
(* together the model handles one per turn of the loop, as if the others   *)
(* had come a moment later.                                                *)
(***************************************************************************)
EXTENDS Naturals, Sequences

CONSTANTS IdleTimeout,   \* the timeout, in ticks of the clock
          MaxOutput,     \* bound on the chunks that the command writes
          MaxLines       \* bound on the lines that it sends on its socket

ASSUME BoundsAssumption == IdleTimeout \in Nat \ {0} /\ MaxOutput \in Nat /\ MaxLines \in Nat

VARIABLES
  child,      \* "running", or how it ended: "ok", "error" or "signal"
  open,       \* its output is open
  listens,    \* its QMP socket exists
  written,    \* chunks it has written
  logged,     \* chunks in the log
  silence,    \* ticks since last_output
  qmp,        \* the connection: "none", "open", or "eof" when the command closed it
  stream,     \* what is on it
  lines,      \* how many lines were sent
  buffer,     \* qmp_buffer: the pieces of an unfinished line, of an earlier connection too
  stale,      \* a closed socket is still registered with the selector
  told,       \* history: a SHUTDOWN event has been received whole, as a line
  pc,         \* where the loop is
  result      \* "none", then the exit status, or the exception: "KeyError", "OSError"

vars == <<child, open, listens, written, logged, silence, qmp, stream, lines, buffer,
          stale, told, pc, result>>
cmd == <<child, open, listens, written, lines>>       \* the command's own
net == <<qmp, stream, buffer, stale, told>>

Init ==
  /\ child = "running" /\ open = TRUE /\ listens = FALSE /\ written = 0 /\ lines = 0
  /\ logged = 0 /\ silence = 0
  /\ qmp = "none" /\ stream = <<>> /\ buffer = <<>> /\ stale = FALSE /\ told = FALSE
  /\ pc = "poll" /\ result = "none"
-----------------------------------------------------------------------------
(***************************************************************************)
(* The command, and time.                                                  *)
(***************************************************************************)

Running == child = "running" /\ result = "none"

Write ==
  /\ Running /\ open /\ written < MaxOutput
  /\ written' = written + 1
  /\ UNCHANGED <<child, open, listens, lines, logged, silence, net, pc, result>>

CloseOutput ==
  /\ Running /\ open
  /\ open' = FALSE
  /\ UNCHANGED <<child, listens, written, lines, logged, silence, net, pc, result>>

Listen ==
  /\ Running /\ ~listens
  /\ listens' = TRUE
  /\ UNCHANGED <<child, open, written, lines, logged, silence, net, pc, result>>

SendLine ==
  /\ Running /\ qmp = "open" /\ lines < MaxLines
  /\ \E line \in {<<"other">>, <<"SHUT", "DOWN">>} : stream' = stream \o line
  /\ lines' = lines + 1
  /\ UNCHANGED <<child, open, listens, written, logged, silence, qmp, buffer, stale, told,
                 pc, result>>

Disconnect ==        \* maybe in the middle of a line; what it has sent is still read
  /\ Running /\ qmp = "open"
  /\ qmp' = "eof"
  /\ \/ UNCHANGED <<stream, lines>>
     \/ lines < MaxLines /\ lines' = lines + 1 /\ stream' = Append(stream, "SHUT")
  /\ UNCHANGED <<child, open, listens, written, logged, silence, buffer, stale, told, pc, result>>

Exit ==
  /\ Running
  /\ child' \in {"ok", "error", "signal"} /\ open' = FALSE
  /\ qmp' = IF qmp = "open" THEN "eof" ELSE qmp
  /\ UNCHANGED <<listens, written, lines, logged, silence, stream, buffer, stale, told, pc,
                 result>>

Tick ==
  /\ result = "none" /\ silence < IdleTimeout
  /\ silence' = silence + 1
  /\ UNCHANGED <<cmd, logged, net, pc, result>>
-----------------------------------------------------------------------------
(***************************************************************************)
(* The loop of main().                                                     *)
(***************************************************************************)

ExitStatus == CASE child = "ok" -> "0" [] child = "error" -> "1" [] child = "signal" -> "128+n"

\* Mutant: what is left in the pipe is forgotten.
LeftBehind == logged

Leftover == written

PollEnded ==         \* proc.poll(): what is left in the pipe, and the exit status
  /\ pc = "poll" /\ child # "running"
  /\ logged' = Leftover /\ result' = ExitStatus /\ pc' = "ended"
  /\ UNCHANGED <<cmd, silence, net>>

PollRunning ==
  /\ pc = "poll" /\ child = "running"
  /\ pc' = IF listens /\ qmp = "none" THEN "connect" ELSE "time"
  /\ UNCHANGED <<cmd, logged, silence, net, result>>

\* A failed send closes the socket, which stays registered; the next one gets
\* its number, and registering that is an error nobody catches.
Connect ==
  /\ pc = "connect"
  /\ \/ /\ child = "running" /\ ~stale
        /\ \/ qmp' = "open" /\ stream' = <<>> /\ stale' = stale
           \/ qmp' = "none" /\ stream' = stream /\ stale' = TRUE
        /\ pc' = "time" /\ result' = result
     \/ /\ child = "running" /\ stale
        /\ pc' = "ended" /\ result' = "KeyError"
        /\ UNCHANGED <<qmp, stream, stale>>
     \/ pc' = "time" /\ UNCHANGED <<qmp, stream, stale, result>>   \* connect() is refused
  /\ UNCHANGED <<cmd, logged, silence, buffer, told>>

CheckTime ==
  /\ pc = "time"
  /\ pc' = IF silence >= IdleTimeout THEN "terminate" ELSE "select"
  /\ UNCHANGED <<cmd, logged, silence, net, result>>

Nothing ==           \* select() times out
  /\ pc = "select"
  /\ open /\ written = logged /\ qmp # "eof" /\ stream = <<>>
  /\ pc' = "poll"
  /\ UNCHANGED <<cmd, logged, silence, net, result>>

\* Mutant: whatever is read counts as output.
AnyRead(chunks) == 0

SilenceAfter(chunks) == IF chunks = 0 THEN silence ELSE 0

ReadOutput ==        \* a chunk, or nothing at the end of it
  /\ pc = "select" /\ (written > logged \/ ~open)
  /\ logged' \in IF written > logged THEN logged + 1..written ELSE {logged}
  /\ silence' = SilenceAfter(logged' - logged)
  /\ pc' = "poll"
  /\ UNCHANGED <<cmd, net, result>>

\* Lines end after "other" and "DOWN".  What follows an unfinished line belongs
\* to it, and that line is not JSON.
Ends(s) == {0} \cup {i \in DOMAIN s : s[i] # "SHUT"}
HasShutdown(s) == \E i \in Ends(s) : i + 2 \in DOMAIN s /\ s[i + 1] = "SHUT" /\ s[i + 2] = "DOWN"
LastPiece(s) == LET last == CHOOSE i \in Ends(s) : \A j \in Ends(s) : j <= i
                IN SubSeq(s, last + 1, Len(s))

\* Mutant: each recv() starts anew.
EachAlone(chunk) == chunk

Joined(chunk) == buffer \o chunk

ReceiveQMP ==        \* recv(), and the lines that are complete by now
  /\ pc = "select" /\ stream # <<>>
  /\ \E n \in 1..Len(stream) :
       LET text == Joined(SubSeq(stream, 1, n)) IN
       /\ stream' = SubSeq(stream, n + 1, Len(stream))
       /\ buffer' = LastPiece(text)
       /\ pc' = IF HasShutdown(text) THEN "quit" ELSE "poll"
       /\ told' = (told \/ HasShutdown(buffer \o SubSeq(stream, 1, n)))
  /\ UNCHANGED <<cmd, logged, silence, qmp, stale, result>>

ReceiveEnd ==        \* the buffer keeps what was in it
  /\ pc = "select" /\ stream = <<>> /\ qmp = "eof"
  /\ qmp' = "none" /\ pc' = "poll"
  /\ UNCHANGED <<cmd, logged, silence, stream, buffer, stale, told, result>>

\* The command never read what it was sent: recv() raises ConnectionResetError,
\* which nobody catches.
ReceiveReset ==
  /\ pc = "select" /\ stream = <<>> /\ qmp = "eof"
  /\ result' = "OSError" /\ pc' = "ended"
  /\ UNCHANGED <<cmd, logged, silence, net>>

Ended == IF child = "running" THEN {"ok", "error", "signal"} ELSE {child}

\* proc.terminate() or the quit command, ten seconds, proc.kill().  Output that
\* is still in the pipe is not read.
EndCommand ==
  /\ pc \in {"terminate", "quit"}
  /\ child' \in Ended
  /\ open' = FALSE
  /\ result' = IF pc = "quit" THEN "0" ELSE "124"
  /\ pc' = "ended"
  /\ UNCHANGED <<listens, written, lines, logged, silence, net>>

Loop ==
  \/ PollEnded \/ PollRunning \/ Connect \/ CheckTime
  \/ Nothing \/ ReadOutput \/ ReceiveQMP \/ ReceiveEnd
  \/ ReceiveReset \/ EndCommand

Next ==
  \/ Write \/ CloseOutput \/ Listen \/ SendLine \/ Disconnect \/ Exit \/ Tick
  \/ Loop

Fairness == WF_vars(Loop) /\ WF_vars(Tick)
Spec == Init /\ [][Next]_vars /\ Fairness
-----------------------------------------------------------------------------
(***************************************************************************)
(* Properties.                                                             *)
(***************************************************************************)

\* When the command has ended by itself, all its output is in the log, what it
\* wrote between the last read and its end included (the leftover).
EverythingIsLogged == result \in {"0", "1", "128+n"} /\ ~told => logged = written

\* A SHUTDOWN event that was received makes the run a success, however it was
\* cut up on the way and whatever the command does then (qmp_buffer).
ShutdownIsSuccess == told /\ result # "none" => result = "0"

\* The command does not outlive the wrapper, whichever way that ends, but for
\* the two exceptions (Connect, ReceiveReset).
NoneIsLeftRunning == result \notin {"none", "KeyError", "OSError"} => child # "running"

\* A command that falls silent, closes its output and goes on, or only sends
\* events does not keep the wrapper for ever (last_output).
SilenceEnds == <>(result # "none")

=============================================================================
