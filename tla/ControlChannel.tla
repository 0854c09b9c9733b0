--------------------------- MODULE ControlChannel ---------------------------
(***************************************************************************)
(* The control channel between build processes on the host and the serial  *)
(* agent in the VM: src/common/lib/vm.py (_connect, wait_ready,            *)
(* _send_payload, _read_until, _run_agent_script, the exchange of          *)
(* stop_vm) and src/tasks/core/build_vm/overlay/usr/local/sbin/            *)
(* ds-serial-agent with its systemd unit.                                  *)
(*                                                                         *)
(* A request is one connection: "run" sends a script, "stop" asks for a    *)
(* power-off, "probe" is wait_ready().  Its name is the token of the       *)
(* protocol lines.  qemu, the virtio port and the socket backlog are       *)
(* external: qemu serves one client at a time, closing the port in the     *)
(* guest discards what was not read, and a guest with no client reads end  *)
(* of file.                                                                *)
(***************************************************************************)
EXTENDS Integers, Sequences, FiniteSets

CONSTANTS Runs, Stops, Probes,  \* the requests, by kind
          NoRequest,            \* a value that is no request
          Chunks,               \* RUNB64_DATA lines of a payload
          StdinReaders,         \* the runs whose script reads its stdin
          MaxCrashes,           \* bound on VM crashes
          MaxDeaths,            \* bound on clients killed half way
          MaxTorn               \* bound on sends that fail half way

Requests == Runs \cup Stops \cup Probes

ASSUME RequestsAssumption ==
  /\ NoRequest \notin Requests
  /\ Runs \cap Stops = {} /\ Runs \cap Probes = {} /\ Stops \cap Probes = {}
  /\ StdinReaders \subseteq Runs
ASSUME BoundsAssumption ==
  Chunks \in Nat \ {0} /\ MaxCrashes \in Nat /\ MaxDeaths \in Nat /\ MaxTorn \in Nat

VARIABLES
  vm,          \* "up", "stopping" (the guest is powering off) or "down"
  client,      \* where each request's client is
  sent,        \* lines of its payload a client has sent
  sock,        \* lines in a client's socket that qemu has not read
  backlog,     \* connected clients qemu has not accepted
  conn,        \* the client qemu serves
  wire,        \* lines in the virtio port, not read by the agent
  out,         \* what the agent wrote, not received by the client
  agent,       \* where the agent is
  current,     \* the request whose script the agent runs
  file,        \* DATA lines in /tmp/ds-run.<token>.b64, -1 if there is none
  script,      \* what has happened to each request's script
  truncated,   \* requests whose script was started with lines missing
  crashes, deaths, torn   \* counters for the bounds

clientVars == <<client, sent>>
qemuVars == <<sock, backlog, conn>>
agentVars == <<agent, current, file, script, truncated>>
counters == <<crashes, deaths, torn>>
vars == <<vm, clientVars, qemuVars, wire, out, agentVars, counters>>
-----------------------------------------------------------------------------
\* Protocol lines, and what the agent writes.  The marker __DS_END__ and the
\* status after it are two items: a receive may end between them.
Line(kind, r) == [kind |-> kind, of |-> r]
RunLines(r) == <<Line("BEGIN", r)>> \o [i \in 1..Chunks |-> Line("DATA", r)]
                 \o <<Line("END", r)>>
Ready == [item |-> "READY", of |-> NoRequest, status |-> "none"]
Bye == [item |-> "BYE", of |-> NoRequest, status |-> "none"]
EndMarker(r) == [item |-> "END", of |-> r, status |-> "none"]
Status(r, s) == [item |-> "STATUS", of |-> r, status |-> s]

Elems(s) == {s[i] : i \in DOMAIN s}

Waiting == {"waitready", "sending", "waitend", "waitbye"}
Finished == {"success", "failure", "dead"}
Active(r) == client[r] \in Waiting

Init ==
  /\ vm = "up"
  /\ client = [r \in Requests |-> "idle"]
  /\ sent = [r \in Requests |-> 0]
  /\ sock = [r \in Requests |-> << >>]
  /\ backlog = << >> /\ conn = NoRequest /\ wire = << >> /\ out = << >>
  /\ agent = "down" /\ current = NoRequest
  /\ file = [r \in Requests |-> -1]
  /\ script = [r \in Requests |-> "new"]
  /\ truncated = {}
  /\ crashes = 0 /\ deaths = 0 /\ torn = 0
-----------------------------------------------------------------------------
(***************************************************************************)
(* The client.                                                             *)
(***************************************************************************)
\* _connect() and the PING that every exchange begins with.
Connect(r) ==
  /\ client[r] = "idle" /\ vm # "down"
  /\ client' = [client EXCEPT ![r] = "waitready"]
  /\ sock' = [sock EXCEPT ![r] = <<Line("PING", r)>>]
  /\ backlog' = Append(backlog, r)
  /\ UNCHANGED <<vm, sent, conn, wire, out, agentVars, counters>>

\* One recv() of _read_until(): any non-empty prefix of what has arrived.
Receives(r, n) ==
  /\ conn = r /\ n \in 1..Len(out)
  /\ out' = SubSeq(out, n + 1, Len(out))
Chunk(n) == SubSeq(out, 1, n)

\* Waiting for READY, nothing else is kept.
ReceiveReady(r, n) ==
  /\ client[r] = "waitready" /\ Receives(r, n)
  /\ client' = IF Ready \notin Elems(Chunk(n)) THEN client
               ELSE [client EXCEPT ![r] = IF r \in Runs THEN "sending"
                                          ELSE IF r \in Stops THEN "waitbye" ELSE "success"]
  /\ sock' = IF Ready \in Elems(Chunk(n)) /\ r \in Stops
             THEN [sock EXCEPT ![r] = Append(@, Line("POWEROFF", r))] ELSE sock
  /\ UNCHANGED <<vm, sent, backlog, conn, wire, agentVars, counters>>

\* VM_CONTROL_TIMEOUT_SEC, or for wait_ready() what is left of the start-up time.
Timeout(r) ==
  /\ client[r] \in {"waitready", "waitbye"}
  /\ client' = [client EXCEPT ![r] = "failure"]
  /\ UNCHANGED <<vm, sent, qemuVars, wire, out, agentVars, counters>>

\* _send_payload(): RUNB64_BEGIN, the RUNB64_DATA lines, RUNB64_END.
SendLine(r) ==
  /\ client[r] = "sending"
  /\ sock' = [sock EXCEPT ![r] = Append(@, RunLines(r)[sent[r] + 1])]
  /\ sent' = [sent EXCEPT ![r] = @ + 1]
  /\ client' = IF sent[r] + 1 = Len(RunLines(r)) THEN [client EXCEPT ![r] = "waitend"]
               ELSE client
  /\ UNCHANGED <<vm, backlog, conn, wire, out, agentVars, counters>>

\* Mutant: the error of a partial send is ignored and sending goes on.
SendTornIgnored(r) ==
  /\ client[r] = "sending" /\ torn < MaxTorn
  /\ RunLines(r)[sent[r] + 1].kind = "DATA"
  /\ sock' = [sock EXCEPT ![r] = Append(@, Line("TORN", r))]
  /\ sent' = [sent EXCEPT ![r] = @ + 1]
  /\ torn' = torn + 1
  /\ UNCHANGED <<vm, client, backlog, conn, wire, out, agentVars, crashes, deaths>>

\* The socket does not block: sendall() of a long line may fail when the socket
\* is full, with part of the line sent.
SendTorn(r) ==
  /\ client[r] = "sending" /\ torn < MaxTorn
  /\ RunLines(r)[sent[r] + 1].kind = "DATA"
  /\ sock' = [sock EXCEPT ![r] = Append(@, Line("TORN", r))]
  /\ client' = [client EXCEPT ![r] = "failure"]
  /\ torn' = torn + 1
  /\ UNCHANGED <<vm, sent, backlog, conn, wire, out, agentVars, crashes, deaths>>

\* Mutant: any END marker is taken for the end of this script.
AnswerAny(r, data) ==
  IF ~\E i \in DOMAIN data : data[i].item = "END" THEN "waitend"
  ELSE IF \E i \in DOMAIN data : data[i].status = "zero" THEN "success" ELSE "failure"

\* _run_agent_script(): the receive that completes the END marker of this token
\* ends the wait.  The status is parsed from what came with it: an empty one
\* raises ValueError, a marker that is no longer found VMError, and either is the
\* failure that a script's own status is.
Answer(r, data) ==
  IF EndMarker(r) \notin Elems(data) THEN "waitend"
  ELSE IF Status(r, "zero") \in Elems(data) THEN "success" ELSE "failure"

ReceiveEnd(r, n) ==
  /\ client[r] = "waitend" /\ Receives(r, n)
  /\ client' = [client EXCEPT ![r] = Answer(r, Chunk(n))]
  /\ UNCHANGED <<vm, sent, qemuVars, wire, agentVars, counters>>

ReceiveBye(r, n) ==
  /\ client[r] = "waitbye" /\ Receives(r, n)
  /\ client' = IF Bye \in Elems(Chunk(n)) THEN [client EXCEPT ![r] = "success"] ELSE client
  /\ UNCHANGED <<vm, sent, qemuVars, wire, agentVars, counters>>

\* recv() returns nothing: "VM control socket closed".
SocketClosed(r) ==
  /\ client[r] = "broken"
  /\ client' = [client EXCEPT ![r] = "failure"]
  /\ UNCHANGED <<vm, sent, qemuVars, wire, out, agentVars, counters>>

\* The process is interrupted or killed; its caller gets no answer.
Die(r) ==
  /\ Active(r) /\ deaths < MaxDeaths
  /\ client' = [client EXCEPT ![r] = "dead"]
  /\ deaths' = deaths + 1
  /\ UNCHANGED <<vm, sent, qemuVars, wire, out, agentVars, crashes, torn>>
-----------------------------------------------------------------------------
(***************************************************************************)
(* qemu: one client at a time; a closed one is let go once its lines have  *)
(* been read.                                                              *)
(***************************************************************************)
Accept ==
  /\ vm # "down" /\ conn = NoRequest /\ backlog # << >>
  /\ conn' = Head(backlog) /\ backlog' = Tail(backlog)
  /\ UNCHANGED <<vm, clientVars, sock, wire, out, agentVars, counters>>

Forward ==           \* the port takes data only while the agent has it open
  /\ conn # NoRequest /\ agent # "down" /\ sock[conn] # << >>
  /\ wire' = Append(wire, Head(sock[conn]))
  /\ sock' = [sock EXCEPT ![conn] = Tail(@)]
  /\ UNCHANGED <<vm, clientVars, backlog, conn, out, agentVars, counters>>

Disconnect ==
  /\ conn # NoRequest /\ client[conn] \in Finished /\ sock[conn] = << >>
  /\ conn' = NoRequest /\ out' = << >>
  /\ UNCHANGED <<vm, clientVars, sock, backlog, wire, agentVars, counters>>
-----------------------------------------------------------------------------
(***************************************************************************)
(* The agent.  Without a client its output blocks, or is dropped.          *)
(***************************************************************************)
Writes(items) == out' = IF conn = NoRequest THEN out ELSE out \o items

\* Mutant: the agent does not greet when it starts.
StartAgentSilently ==
  /\ vm # "down" /\ agent = "down"
  /\ agent' = "reading"
  /\ UNCHANGED <<vm, clientVars, qemuVars, wire, out, current, file, script, truncated, counters>>

StartAgent ==        \* by systemd, at boot and a second after every exit
  /\ vm # "down" /\ agent = "down"
  /\ agent' = "ready"
  /\ UNCHANGED <<vm, clientVars, qemuVars, wire, out, current, file, script, truncated, counters>>

WriteReady ==        \* at its start and for every PING
  /\ agent = "ready" /\ Writes(<<Ready>>)
  /\ agent' = "reading"
  /\ UNCHANGED <<vm, clientVars, qemuVars, wire, current, file, script, truncated, counters>>

Reads(kind) == agent = "reading" /\ wire # << >> /\ Head(wire).kind = kind

ReadPing ==
  /\ Reads("PING")
  /\ agent' = "ready" /\ wire' = Tail(wire)
  /\ UNCHANGED <<vm, clientVars, qemuVars, out, current, file, script, truncated, counters>>

ReadBegin ==
  /\ Reads("BEGIN")
  /\ file' = [file EXCEPT ![Head(wire).of] = -1] /\ wire' = Tail(wire)
  /\ UNCHANGED <<vm, clientVars, qemuVars, out, agent, current, script, truncated, counters>>

ReadData ==
  /\ Reads("DATA")
  /\ file' = [file EXCEPT ![Head(wire).of] = IF @ = -1 THEN 1 ELSE @ + 1] /\ wire' = Tail(wire)
  /\ UNCHANGED <<vm, clientVars, qemuVars, out, agent, current, script, truncated, counters>>

\* A line without its end: what comes next becomes part of it.
ReadTorn ==
  /\ Reads("TORN") /\ Len(wire) > 1
  /\ file' = [file EXCEPT ![Head(wire).of] = IF @ = -1 THEN 1 ELSE @ + 1]
  /\ wire' = Tail(Tail(wire))
  /\ UNCHANGED <<vm, clientVars, qemuVars, out, agent, current, script, truncated, counters>>

ReadEnd ==           \* run_b64_command()
  /\ Reads("END") /\ file[Head(wire).of] # -1
  /\ LET r == Head(wire).of
     IN  /\ current' = r
         /\ script' = [script EXCEPT ![r] = "running"]
         /\ truncated' = IF file[r] = Chunks THEN truncated ELSE truncated \cup {r}
         /\ file' = [file EXCEPT ![r] = -1]
  /\ agent' = "running" /\ wire' = Tail(wire)
  /\ UNCHANGED <<vm, clientVars, qemuVars, out, counters>>

ReadEndFails ==      \* base64 finds no file: set -e ends the agent
  /\ Reads("END") /\ file[Head(wire).of] = -1
  /\ agent' = "exiting" /\ wire' = Tail(wire)
  /\ UNCHANGED <<vm, clientVars, qemuVars, out, current, file, script, truncated, counters>>

ReadPoweroff ==      \* systemctl poweroff --no-block
  /\ Reads("POWEROFF")
  /\ vm' = "stopping" /\ agent' = "bye" /\ wire' = Tail(wire)
  /\ UNCHANGED <<clientVars, qemuVars, out, current, file, script, truncated, counters>>

WriteBye ==
  /\ agent = "bye" /\ Writes(<<Bye>>)
  /\ agent' = "reading"
  /\ UNCHANGED <<vm, clientVars, qemuVars, wire, current, file, script, truncated, counters>>

\* The script shares the agent's stdin and may take a line meant for it.
ScriptReads ==
  /\ agent = "running" /\ current \in StdinReaders /\ wire # << >>
  /\ wire' = Tail(wire)
  /\ UNCHANGED <<vm, clientVars, qemuVars, out, agentVars, counters>>

\* Mutant: without set +e a failing script ends the agent.
ScriptEndsAgent ==
  /\ agent = "running"
  /\ \E status \in {"zero", "nonzero"} :
       /\ script' = [script EXCEPT ![current] = status]
       /\ agent' = IF status = "zero" THEN "ended" ELSE "exiting"
       /\ current' = IF status = "zero" THEN current ELSE NoRequest
  /\ UNCHANGED <<vm, clientVars, qemuVars, wire, out, file, truncated, counters>>

ScriptEnds ==
  /\ agent = "running"
  /\ \E status \in {"zero", "nonzero"} : script' = [script EXCEPT ![current] = status]
  /\ agent' = "ended"
  /\ UNCHANGED <<vm, clientVars, qemuVars, wire, out, current, file, truncated, counters>>

WriteEnd ==
  /\ agent = "ended"
  /\ Writes(<<EndMarker(current), Status(current, script[current])>>)
  /\ agent' = "reading" /\ current' = NoRequest
  /\ UNCHANGED <<vm, clientVars, qemuVars, wire, file, script, truncated, counters>>

EndOfFile ==         \* no client: read fails and the loop ends
  /\ agent = "reading" /\ conn = NoRequest
  /\ wire = << >> \/ (Len(wire) = 1 /\ Head(wire).kind = "TORN")
  /\ agent' = "exiting" /\ wire' = << >>
  /\ UNCHANGED <<vm, clientVars, qemuVars, out, current, file, script, truncated, counters>>

Exit ==              \* the port is closed and what it holds discarded
  /\ agent = "exiting"
  /\ agent' = "down" /\ wire' = << >>
  /\ UNCHANGED <<vm, clientVars, qemuVars, out, current, file, script, truncated, counters>>
-----------------------------------------------------------------------------
(***************************************************************************)
(* The VM goes down: every socket closes, a running script is lost.  A     *)
(* client that needs it starts it again (start_vm).                        *)
(***************************************************************************)
GoesDown ==
  /\ vm' = "down" /\ agent' = "down" /\ current' = NoRequest
  /\ client' = [r \in Requests |-> IF Active(r) THEN "broken" ELSE client[r]]
  /\ sock' = [r \in Requests |-> << >>]
  /\ backlog' = << >> /\ conn' = NoRequest /\ wire' = << >> /\ out' = << >>
  /\ file' = [r \in Requests |-> -1]
  /\ script' = [r \in Requests |-> IF script[r] = "running" THEN "lost" ELSE script[r]]
  /\ UNCHANGED <<sent, truncated>>

PowerDown == vm = "stopping" /\ GoesDown /\ UNCHANGED counters

Crash == /\ vm # "down" /\ crashes < MaxCrashes
         /\ GoesDown /\ crashes' = crashes + 1 /\ UNCHANGED <<deaths, torn>>

StartVM ==
  /\ vm = "down" /\ \E r \in Requests : client[r] = "idle"
  /\ vm' = "up"
  /\ UNCHANGED <<clientVars, qemuVars, wire, out, agentVars, counters>>
-----------------------------------------------------------------------------
ClientStep(r) ==
  \/ Connect(r) \/ SendLine(r) \/ SocketClosed(r)
  \/ \E n \in 1..Len(out) : ReceiveReady(r, n) \/ ReceiveEnd(r, n) \/ ReceiveBye(r, n)
QemuStep == Accept \/ Forward \/ Disconnect
AgentStep ==
  \/ StartAgent \/ WriteReady \/ ReadPing \/ ReadBegin \/ ReadData \/ ReadTorn \/ ReadEnd
  \/ ReadEndFails \/ ReadPoweroff \/ WriteBye \/ ScriptEnds \/ WriteEnd \/ EndOfFile \/ Exit

Next ==
  \/ \E r \in Requests : ClientStep(r) \/ Timeout(r) \/ SendTorn(r) \/ Die(r)
  \/ QemuStep \/ AgentStep \/ ScriptReads
  \/ PowerDown \/ Crash \/ StartVM

Spec == Init /\ [][Next]_vars

\* Processes run, scripts end, the guest that is powering off goes down.
Fairness == /\ \A r \in Requests : WF_vars(ClientStep(r))
            /\ WF_vars(QemuStep) /\ WF_vars(AgentStep)
            /\ WF_vars(PowerDown) /\ WF_vars(StartVM)
FairSpec == Spec /\ Fairness
-----------------------------------------------------------------------------
(***************************************************************************)
(* Properties.                                                             *)
(***************************************************************************)

\* The channel implements the abstract call: a script is started at most once,
\* success is only reported for a script that exited with 0, and a request that
\* was answered has no script running, then or later.  A client that was
\* killed has no answer.
RPC == INSTANCE AgentRPC WITH
         Requests <- Runs,
         script <- [r \in Runs |-> script[r]],
         answer <- [r \in Runs |-> IF client[r] \in {"success", "failure"}
                                   THEN client[r] ELSE "none"]
ImplementsRPC == RPC!Spec

\* A script that reads its stdin takes the lines of the requests after it.
MayLoseLines(r) == \E u \in StdinReaders : u # r

\* A script is only started with every line of its payload (_send_payload and
\* run_b64_command), as long as no other script reads its lines.
OnlyWholeScriptsRun == \A r \in truncated : MayLoseLines(r)

\* Nobody waits on a connection qemu does not know: a client that expects
\* something is served, queued, or told that the VM is gone.
WaitersAreConnected ==
  \A r \in Requests : Active(r) => r = conn \/ r \in Elems(backlog)

\* A client never gets a status that belongs to another request, and while it
\* waits for its own the script is on its way, running, or its end is still to
\* be received (the wait has no timeout); as long as no other script reads the
\* lines of the request.
EndIsComing ==
  \A r \in Runs : client[r] = "waitend" /\ ~MayLoseLines(r) =>
    \/ Line("END", r) \in Elems(sock[r]) \cup Elems(wire)
    \/ current = r
    \/ EndMarker(r) \in Elems(out)

\* Nobody waits for what is not under way.
NobodyWaitsInVain == WaitersAreConnected /\ EndIsComing

\* Whoever pings gets READY, however long others take, and although the agent
\* exits whenever a client leaves: the greeting at its start makes up for a
\* PING lost with the port.  And the wait for the end of a script, which has no
\* timeout, comes to an end (_ping_agent, _run_agent_script).
EveryCallIsAnswered ==
  /\ \A r \in Requests : client[r] = "waitready" ~> client[r] # "waitready"
  /\ \A r \in Runs : client[r] = "waitend" ~> client[r] \in Finished
=============================================================================
