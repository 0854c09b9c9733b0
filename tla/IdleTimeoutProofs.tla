-------------------------- MODULE IdleTimeoutProofs --------------------------
(***************************************************************************)
(* The safety properties of IdleTimeout for every timeout and any amount   *)
(* of output and events.  A command only writes and ends before the        *)
(* wrapper does; and a SHUTDOWN event, once whole, leaves one way to go.   *)
(***************************************************************************)
EXTENDS IdleTimeout, TLAPS

Statuses == {"0", "1", "128+n"}

TypeOK ==
  /\ child \in {"running", "ok", "error", "signal"}
  /\ pc \in {"poll", "connect", "time", "select", "terminate", "quit", "ended"}
  /\ result \in Statuses \cup {"none", "124", "KeyError", "OSError"}

OneEnd == (result = "none") <=> (pc # "ended")

ToldQuits ==
  /\ told => pc = "quit" \/ result = "0"
  /\ pc = "quit" => told

EndedIsOver ==
  /\ result \in Statuses \cup {"124"} => child # "running"
  /\ result \in Statuses /\ ~told => logged = written

IInv == TypeOK /\ OneEnd /\ ToldQuits /\ EndedIsOver
-----------------------------------------------------------------------------
LEMMA InitInvariant == Init => IInv
  BY DEF Init, IInv, TypeOK, OneEnd, ToldQuits, EndedIsOver, Statuses

LEMMA NextInvariant == IInv /\ [Next]_vars => IInv'
  <1> SUFFICES ASSUME IInv, [Next]_vars PROVE IInv'
    OBVIOUS
  <1> USE DEF IInv, TypeOK, OneEnd, ToldQuits, EndedIsOver, Statuses, cmd, net
  <1>1. CASE Write \/ CloseOutput \/ Listen
    BY <1>1 DEF Write, CloseOutput, Listen, Running
  <1>2. CASE SendLine \/ Disconnect \/ Exit
    BY <1>2 DEF SendLine, Disconnect, Exit, Running
  <1>3. CASE Tick
    BY <1>3 DEF Tick
  <1>4. CASE PollEnded
    BY <1>4 DEF PollEnded, Leftover, ExitStatus
  <1>5. CASE PollRunning \/ CheckTime \/ Nothing
    BY <1>5 DEF PollRunning, CheckTime, Nothing
  <1>6. CASE Connect
    BY <1>6 DEF Connect
  <1>7. CASE ReadOutput
    BY <1>7 DEF ReadOutput
  <1>8. CASE ReceiveQMP
    <2>1. PICK n \in 1..Len(stream) :
            LET text == buffer \o SubSeq(stream, 1, n) IN
            /\ pc' = IF HasShutdown(text) THEN "quit" ELSE "poll"
            /\ told' = (told \/ HasShutdown(text))
      BY <1>8 DEF ReceiveQMP, Joined
    <2>2. ~told
      BY <1>8 DEF ReceiveQMP
    <2> QED
      BY <1>8, <2>1, <2>2 DEF ReceiveQMP
  <1>9. CASE ReceiveEnd \/ ReceiveReset
    BY <1>9 DEF ReceiveEnd, ReceiveReset
  <1>10. CASE EndCommand
    BY <1>10 DEF EndCommand, Ended
  <1>11. CASE UNCHANGED vars
    BY <1>11 DEF vars
  <1> QED
    BY <1>1, <1>2, <1>3, <1>4, <1>5, <1>6, <1>7, <1>8, <1>9, <1>10, <1>11 DEF Next, Loop

LEMMA Invariant == Spec => []IInv
  BY InitInvariant, NextInvariant, PTL DEF Spec

-----------------------------------------------------------------------------
\* However much a command writes, all of it is in the log when it has ended by
\* itself.
THEOREM AllIsLogged == Spec => []EverythingIsLogged
  <1>1. IInv => EverythingIsLogged
    BY DEF IInv, EndedIsOver, Statuses, EverythingIsLogged
  <1> QED
    BY <1>1, Invariant, PTL

\* However many events come, and however they are cut up, a shutdown is a
\* success.
THEOREM ShutdownSucceeds == Spec => []ShutdownIsSuccess
  <1>1. IInv => ShutdownIsSuccess
    BY DEF IInv, OneEnd, ToldQuits, ShutdownIsSuccess
  <1> QED
    BY <1>1, Invariant, PTL

\* Whatever the timeout, a wrapper that returns has ended its command.
THEOREM NoneLeftRunning == Spec => []NoneIsLeftRunning
  <1>1. IInv => NoneIsLeftRunning
    BY DEF IInv, TypeOK, EndedIsOver, Statuses, NoneIsLeftRunning
  <1> QED
    BY <1>1, Invariant, PTL

=============================================================================
