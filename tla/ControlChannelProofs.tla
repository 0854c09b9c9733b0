------------------------ MODULE ControlChannelProofs ------------------------
(***************************************************************************)
(* The control channel implements the call of AgentRPC, and the three      *)
(* invariants of ControlChannel, for any number of requests, any length of *)
(* a payload and any number of crashes.                                    *)
(***************************************************************************)
EXTENDS ControlChannel, SequenceTheorems, TLAPS

RunKinds == {"BEGIN", "DATA", "TORN", "END"}
Lines == [kind : {"PING"}, of : Requests] \cup [kind : {"POWEROFF"}, of : Stops]
           \cup [kind : RunKinds, of : Runs]
Items == [item : {"READY", "BYE", "END", "STATUS"}, of : Requests \cup {NoRequest},
          status : {"none", "zero", "nonzero"}]

TypeOK ==
  /\ vm \in {"up", "stopping", "down"}
  /\ client \in [Requests -> {"idle", "broken"} \cup Waiting \cup Finished]
  /\ sent \in [Requests -> Nat]
  /\ sock \in [Requests -> Seq(Lines)]
  /\ backlog \in Seq(Requests) /\ conn \in Requests \cup {NoRequest}
  /\ wire \in Seq(Lines) /\ out \in Seq(Items)
  /\ agent \in {"down", "ready", "reading", "running", "ended", "bye", "exiting"}
  /\ current \in Runs \cup {NoRequest}
  /\ file \in [Requests -> Int]
  /\ script \in [Requests -> {"new", "running", "zero", "nonzero", "lost"}]

\* How far a client is says what it has sent.
ClientPlace == \A r \in Requests :
  /\ client[r] \in {"sending", "waitend"} => r \in Runs
  /\ client[r] = "waitbye" => r \in Stops
  /\ client[r] \in {"idle", "waitready"} => sent[r] = 0
  /\ client[r] = "sending" => sent[r] < Chunks + 2
  /\ sent[r] <= Chunks + 2
  /\ client[r] = "waitend" => sent[r] = Chunks + 2

\* A sequence has a value at most once.
Once(s, x) == \A i, j \in DOMAIN s : s[i] = x /\ s[j] = x => i = j

\* A request that qemu has not come to has sent its PING, or nothing yet.
BacklogOnce == \A r \in Requests : Once(backlog, r)
QueuedClients == \A r \in Elems(backlog) :
  client[r] \in {"waitready", "failure", "dead"} /\ sock[r] = <<Line("PING", r)>>
IdleClients == \A r \in Requests :
  client[r] = "idle" => r \notin Elems(backlog) /\ sock[r] = << >>
Untouched == \A r \in Requests : client[r] = "idle" \/ r \in Elems(backlog) =>
  /\ sent[r] = 0 /\ file[r] = -1 /\ conn # r
  /\ \A l \in Elems(wire) : l.of # r
Queue == /\ BacklogOnce /\ QueuedClients /\ IdleClients /\ Untouched
         /\ conn = NoRequest => out = << >>

\* A torn line is the last of its client.
TornInSock == \A r \in Requests :
  /\ \A l \in Elems(sock[r]) : l.of = r /\ (l.kind = "TORN" => client[r] = "failure")
  /\ \A i \in 1..Len(sock[r]) - 1 : sock[r][i].kind # "TORN"
TornInWire == \A l \in Elems(wire) :
  l.kind = "TORN" => sock[l.of] = << >> /\ client[l.of] = "failure"
\* What qemu forwards of a client, after lines of another, begins with the PING,
\* and so that is what comes after a torn line.
PingFirst == conn # NoRequest /\ wire # << >> /\ wire[Len(wire)].of # conn =>
  sock[conn] # << >> /\ Head(sock[conn]).kind = "PING"
PingAfterTorn ==
  \A i \in 1..Len(wire) - 1 : wire[i].kind = "TORN" => wire[i + 1].kind = "PING"
TornLines == TornInSock /\ TornInWire /\ PingFirst /\ PingAfterTorn

\* The END line of a request is there once, before its script and before an answer.
EndIsFirst == \A r \in Runs : Line("END", r) \in Elems(sock[r]) \cup Elems(wire) =>
  script[r] = "new" /\ client[r] \in {"waitend", "dead"}
EndIsOnce == \A r \in Runs :
  /\ Once(sock[r], Line("END", r)) /\ Once(wire, Line("END", r))
  /\ ~(Line("END", r) \in Elems(sock[r]) /\ Line("END", r) \in Elems(wire))
OneEnd == EndIsFirst /\ EndIsOnce

\* One script runs at a time; its end is written for who waits for it.
Scripts ==
  /\ agent = "running" => current # NoRequest /\ script[current] = "running"
  /\ agent = "ended" => current # NoRequest /\ script[current] \in {"zero", "nonzero"}
  /\ agent \notin {"running", "ended"} => current = NoRequest
  /\ \A r \in Requests : script[r] = "running" => agent = "running" /\ current = r
  /\ \A r \in Requests :
       client[r] \in {"idle", "waitready", "sending"} => script[r] = "new"
Ends ==
  /\ \A r \in Requests : EndMarker(r) \in Elems(out) => script[r] \in {"zero", "nonzero"}
  /\ \A r \in Requests : Status(r, "zero") \in Elems(out) => script[r] = "zero"
  /\ \A r \in Requests : client[r] = "broken" => script[r] # "running"
  /\ \A r \in Runs : client[r] = "waitend" /\ script[r] # "new" =>
       current = r \/ EndMarker(r) \in Elems(out)

\* What a run sends, PING included, by place.
KindAt(n) == IF n = 1 THEN "PING" ELSE IF n = 2 THEN "BEGIN"
             ELSE IF n <= Chunks + 2 THEN "DATA" ELSE "END"
\* The DATA lines in the file when so many of the lines have been read.
FileAt(n) == IF n \in 3..Chunks + 2 THEN n - 2 ELSE -1

Orderly == {"waitready", "sending", "waitend", "dead"}
SockInOrder == \A r \in Runs : client[r] \in Orderly =>
  /\ Len(sock[r]) <= sent[r] + 1
  /\ \A i \in DOMAIN sock[r] :
       sock[r][i] = Line(KindAt(sent[r] + 1 - Len(sock[r]) + i), r)

\* The agent has read n lines of r, and the wire has the next ones in order; the
\* n is negative while lines of other requests come first.
InOrder(r, n) ==
  /\ file[r] = FileAt(n)
  /\ \A i \in DOMAIN wire :
       IF n + i \in 1..Chunks + 3 THEN wire[i] = Line(KindAt(n + i), r)
       ELSE wire[i].of # r

\* As long as no script has read its stdin no line is lost but a PING.
Intact == \A u \in StdinReaders : script[u] = "new"
ConnInOrder == conn \in Runs /\ client[conn] \in Orderly =>
  InOrder(conn, sent[conn] + 1 - Len(sock[conn]) - Len(wire))
EndInOrder == \A r \in Runs : \A i \in DOMAIN wire :
  wire[i] = Line("END", r) => InOrder(r, Chunks + 3 - i)
WireInOrder == Intact => ConnInOrder /\ EndInOrder

\* The agent only ends while nobody has sent it a script, and so it does not
\* lose an END line.
NothingLeft == agent \in {"exiting", "down"} /\ conn # NoRequest =>
  /\ out = << >> /\ sent[conn] = 0
  /\ client[conn] \notin {"sending", "waitend"}
EndIsKept == \A r \in Runs : client[r] = "waitend" /\ script[r] = "new" =>
  Line("END", r) \in Elems(sock[r]) \cup Elems(wire)
AgentKeepsLines == Intact => NothingLeft /\ EndIsKept

IInv == /\ TypeOK /\ ClientPlace /\ WaitersAreConnected /\ Queue /\ TornLines
        /\ OneEnd /\ Scripts /\ Ends
        /\ SockInOrder /\ WireInOrder /\ AgentKeepsLines /\ OnlyWholeScriptsRun
-----------------------------------------------------------------------------
(***************************************************************************)
(* Sequences.                                                              *)
(***************************************************************************)
\* The empty sequence has nothing.
LEMMA ElemsEmpty == Elems(<< >>) = {} /\ \A x : Once(<< >>, x)
  BY DEF Elems, Once

\* A sequence is empty when its length is 0.
LEMMA NonEmpty ==
  ASSUME NEW S, NEW s \in Seq(S)
  PROVE  Len(s) \in Nat /\ (s # << >> <=> Len(s) > 0)
  BY EmptySeq, LenProperties

\* Nothing is left of one line when it is taken.
LEMMA TailOfOne ==
  ASSUME NEW S, NEW s \in Seq(S), Len(s) = 1
  PROVE  Tail(s) = << >>
<1>1. s # << >>
  BY NonEmpty
<1> DEFINE t == Tail(s)
<1>2. t \in Seq(S) /\ Len(t) = 0
  BY <1>1, HeadTailProperties
<1> HIDE DEF t
<1>3. t = << >>
  BY <1>2, NonEmpty
<1> QED
  BY <1>3 DEF t

\* Taking the first line does not change the last.
LEMMA LastOfTail ==
  ASSUME NEW S, NEW s \in Seq(S), s # << >>, Tail(s) # << >>
  PROVE  Tail(s)[Len(Tail(s))] = s[Len(s)]
<1>1. /\ Tail(s) \in Seq(S) /\ Len(Tail(s)) = Len(s) - 1
      /\ \A i \in 1..Len(Tail(s)) : Tail(s)[i] = s[i + 1]
  BY HeadTailProperties
<1>2. Len(s) \in Nat /\ Len(Tail(s)) > 0
  BY <1>1, NonEmpty
<1> QED
  BY <1>1, <1>2

\* Appending does not change the first line.
LEMMA HeadAppend ==
  ASSUME NEW S, NEW s \in Seq(S), s # << >>, NEW x \in S
  PROVE  Append(s, x) # << >> /\ Head(Append(s, x)) = Head(s)
<1> DEFINE t == Append(s, x)
<1>1. t \in Seq(S) /\ Len(t) = Len(s) + 1 /\ Len(s) \in Nat
  BY AppendProperties, LenProperties
<1>2. Head(t) = Head(s)
  BY HeadTailAppend
<1> HIDE DEF t
<1>3. t # << >>
  BY <1>1, NonEmpty
<1> QED
  BY <1>2, <1>3 DEF t

\* What a sequence has after an append.
LEMMA ElemsAppend ==
  ASSUME NEW S, NEW s \in Seq(S), NEW x \in S
  PROVE  /\ Elems(Append(s, x)) = Elems(s) \cup {x}
         /\ Append(s, x) \in Seq(S)
<1>1. /\ Append(s, x) \in Seq(S) /\ Len(Append(s, x)) = Len(s) + 1
      /\ \A i \in 1..Len(s) : Append(s, x)[i] = s[i]
      /\ Append(s, x)[Len(s) + 1] = x
  BY AppendProperties
<1>2. /\ DOMAIN s = 1..Len(s) /\ Len(s) \in Nat
      /\ DOMAIN Append(s, x) = 1..Len(s) + 1
  BY <1>1
<1> QED
  BY <1>1, <1>2 DEF Elems

\* What a sequence has is its head and what its tail has.
LEMMA ElemsTail ==
  ASSUME NEW S, NEW s \in Seq(S), s # << >>
  PROVE  /\ Elems(s) = {Head(s)} \cup Elems(Tail(s))
         /\ Head(s) \in S /\ Tail(s) \in Seq(S)
<1>1. /\ Head(s) = s[1] /\ Tail(s) \in Seq(S) /\ Len(Tail(s)) = Len(s) - 1
      /\ \A i \in 1..Len(s) - 1 : Tail(s)[i] = s[i + 1]
  OBVIOUS
<1>2. ASSUME NEW i \in DOMAIN s
      PROVE  s[i] \in {Head(s)} \cup Elems(Tail(s))
  <2>1. CASE i = 1
    BY <1>1, <2>1
  <2>2. CASE i # 1
    <3>1. i - 1 \in DOMAIN Tail(s) /\ Tail(s)[i - 1] = s[i]
      BY <1>1, <2>2
    <3> QED
      BY <3>1 DEF Elems
  <2> QED
    BY <2>1, <2>2
<1>3. ASSUME NEW i \in DOMAIN Tail(s)
      PROVE  Tail(s)[i] \in Elems(s)
  <2>1. i + 1 \in DOMAIN s /\ Tail(s)[i] = s[i + 1]
    BY <1>1
  <2> QED
    BY <2>1 DEF Elems
<1>4. Head(s) \in Elems(s)
  BY <1>1 DEF Elems
<1> QED
  BY <1>1, <1>2, <1>3, <1>4 DEF Elems

\* A new value does not repeat what was there once.
LEMMA OnceAppend ==
  ASSUME NEW S, NEW s \in Seq(S), NEW x, NEW y \in S,
         Once(s, x), x # y \/ x \notin Elems(s)
  PROVE  Once(Append(s, y), x)
<1>1. /\ Append(s, y) \in Seq(S) /\ Len(Append(s, y)) = Len(s) + 1
      /\ \A i \in 1..Len(s) : Append(s, y)[i] = s[i]
      /\ Append(s, y)[Len(s) + 1] = y
  BY AppendProperties
<1>2. /\ DOMAIN s = 1..Len(s) /\ Len(s) \in Nat
      /\ DOMAIN Append(s, y) = 1..Len(s) + 1
  BY <1>1
<1> QED
  BY <1>1, <1>2 DEF Once, Elems

\* What was there once is not in the tail when it was the head.
LEMMA OnceTail ==
  ASSUME NEW S, NEW s \in Seq(S), s # << >>, NEW x, Once(s, x)
  PROVE  Once(Tail(s), x) /\ (Head(s) = x => x \notin Elems(Tail(s)))
<1>1. /\ Head(s) = s[1] /\ Tail(s) \in Seq(S) /\ Len(Tail(s)) = Len(s) - 1
      /\ \A i \in 1..Len(s) - 1 : Tail(s)[i] = s[i + 1]
  OBVIOUS
<1>2. /\ DOMAIN s = 1..Len(s) /\ Len(s) \in Nat \ {0}
      /\ DOMAIN Tail(s) = 1..Len(s) - 1
  BY <1>1
<1> QED
  BY <1>1, <1>2 DEF Once, Elems

\* What two sequences have together.
LEMMA ElemsConcat ==
  ASSUME NEW S, NEW s \in Seq(S), NEW t \in Seq(S)
  PROVE  Elems(s \o t) = Elems(s) \cup Elems(t)
<1>1. /\ Len(s \o t) = Len(s) + Len(t) /\ s \o t \in Seq(S)
      /\ \A i \in 1..Len(s) : (s \o t)[i] = s[i]
      /\ \A i \in 1..Len(t) : (s \o t)[Len(s) + i] = t[i]
  OBVIOUS
<1>2. ASSUME NEW i \in DOMAIN (s \o t)
      PROVE  (s \o t)[i] \in Elems(s) \cup Elems(t)
  <2>1. CASE i <= Len(s)
    BY <1>1, <2>1 DEF Elems
  <2>2. CASE i > Len(s)
    <3>1. i - Len(s) \in DOMAIN t /\ (s \o t)[i] = t[i - Len(s)]
      BY <1>1, <2>2
    <3> QED
      BY <3>1 DEF Elems
  <2> QED
    BY <1>1, <2>1, <2>2
<1>3. ASSUME NEW i \in DOMAIN s
      PROVE  s[i] \in Elems(s \o t)
  BY <1>1 DEF Elems
<1>4. ASSUME NEW i \in DOMAIN t
      PROVE  t[i] \in Elems(s \o t)
  <2>1. Len(s) + i \in DOMAIN (s \o t) /\ (s \o t)[Len(s) + i] = t[i]
    BY <1>1
  <2> QED
    BY <2>1 DEF Elems
<1> QED
  BY <1>2, <1>3, <1>4 DEF Elems

\* What a receive takes and what it leaves.
LEMMA ElemsCut ==
  ASSUME NEW S, NEW s \in Seq(S), NEW n \in 1..Len(s)
  PROVE  /\ Elems(s) = Elems(SubSeq(s, 1, n)) \cup Elems(SubSeq(s, n + 1, Len(s)))
         /\ SubSeq(s, n + 1, Len(s)) \in Seq(S)
<1> DEFINE a == SubSeq(s, 1, n)
           b == SubSeq(s, n + 1, Len(s))
<1>1. /\ a \in Seq(S) /\ b \in Seq(S) /\ Len(a) = n /\ Len(b) = Len(s) - n
      /\ \A i \in 1..n : a[i] = s[i]
      /\ \A i \in 1..Len(s) - n : b[i] = s[n + i]
  OBVIOUS
<1> HIDE DEF a, b
<1>2. ASSUME NEW i \in DOMAIN s
      PROVE  s[i] \in Elems(a) \cup Elems(b)
  <2>1. CASE i <= n
    BY <1>1, <2>1 DEF Elems
  <2>2. CASE i > n
    <3>1. i - n \in DOMAIN b /\ b[i - n] = s[i]
      BY <1>1, <2>2
    <3> QED
      BY <3>1 DEF Elems
  <2> QED
    BY <2>1, <2>2
<1>3. ASSUME NEW i \in DOMAIN a
      PROVE  a[i] \in Elems(s)
  <2>1. i \in DOMAIN s /\ a[i] = s[i]
    BY <1>1
  <2> QED
    BY <2>1 DEF Elems
<1>4. ASSUME NEW i \in DOMAIN b
      PROVE  b[i] \in Elems(s)
  <2>1. i \in 1..Len(s) - n
    BY <1>1
  <2>2. n + i \in 1..Len(s)
    BY <1>1, <2>1
  <2>3. b[i] = s[n + i]
    BY <1>1, <2>1
  <2> QED
    BY <1>1, <2>2, <2>3 DEF Elems
<1>5. Elems(s) = Elems(a) \cup Elems(b)
  BY <1>2, <1>3, <1>4 DEF Elems
<1> QED
  BY <1>1, <1>5 DEF a, b

\* The lines of a run, without the PING, are those of its places from the second.
LEMMA RunLinesAt ==
  ASSUME NEW r \in Runs
  PROVE  /\ Len(RunLines(r)) = Chunks + 2
         /\ \A n \in 0..Chunks + 1 : RunLines(r)[n + 1] = Line(KindAt(n + 2), r)
<1> DEFINE L == [kind : RunKinds, of : Runs]
           data == [i \in 1..Chunks |-> Line("DATA", r)]
           first == <<Line("BEGIN", r)>>
           last == <<Line("END", r)>>
           most == first \o data
<1>1. first \in Seq(L) /\ last \in Seq(L)
  BY DEF Line, RunKinds
<1>2. data \in Seq(L) /\ Len(data) = Chunks
  BY BoundsAssumption DEF Line, RunKinds
<1>3. /\ Len(first) = 1 /\ first[1] = Line("BEGIN", r)
      /\ Len(last) = 1 /\ last[1] = Line("END", r)
      /\ \A i \in 1..Chunks : data[i] = Line("DATA", r)
  OBVIOUS
<1> HIDE DEF data, first, last, L
<1>4. most \in Seq(L)
  BY <1>1, <1>2, ConcatProperties
<1>5. /\ Len(most) = Len(first) + Len(data)
      /\ \A i \in 1..Len(first) + Len(data) :
           most[i] = IF i <= Len(first) THEN first[i] ELSE data[i - Len(first)]
  BY <1>1, <1>2, ConcatProperties
<1> HIDE DEF most
<1>6. /\ Len(most \o last) = Len(most) + Len(last)
      /\ \A i \in 1..Len(most) + Len(last) :
           (most \o last)[i] = IF i <= Len(most) THEN most[i] ELSE last[i - Len(most)]
  BY <1>4, <1>1, ConcatProperties
<1>7. RunLines(r) = most \o last
  BY DEF RunLines, most, first, data, last
<1>8. Chunks \in Nat /\ Chunks >= 1 /\ Len(most) = Chunks + 1
  BY <1>2, <1>3, <1>5, BoundsAssumption
<1>9. ASSUME NEW n \in 0..Chunks + 1
      PROVE  RunLines(r)[n + 1] = Line(KindAt(n + 2), r)
  <2>1. CASE n = Chunks + 1
    BY <1>3, <1>6, <1>7, <1>8, <2>1 DEF KindAt
  <2>2. CASE n = 0
    BY <1>2, <1>3, <1>5, <1>6, <1>7, <1>8, <2>2 DEF KindAt
  <2>3. CASE n \in 1..Chunks
    <3>1. (most \o last)[n + 1] = most[n + 1]
      BY <1>3, <1>6, <1>8, <2>3
    <3>2. most[n + 1] = data[n]
      BY <1>2, <1>3, <1>5, <1>8, <2>3
    <3> QED
      BY <1>3, <1>7, <1>8, <2>3, <3>1, <3>2 DEF KindAt
  <2> QED
    BY <1>8, <2>1, <2>2, <2>3
<1> QED
  BY <1>3, <1>6, <1>7, <1>8, <1>9

\* The lines a client sends are lines, and belong to it.
LEMMA LinesAre ==
  /\ \A r \in Requests : Line("PING", r) \in Lines
  /\ \A r \in Stops : Line("POWEROFF", r) \in Lines
  /\ \A r \in Runs : \A k \in RunKinds : Line(k, r) \in Lines
  /\ \A l \in Lines : /\ l.of \in Requests /\ l = Line(l.kind, l.of)
                      /\ l.kind \in RunKinds => l.of \in Runs
  BY DEF Lines, Line, RunKinds, Requests

\* What the agent answers is one of its items.
LEMMA ItemsAre ==
  /\ Ready \in Items /\ Bye \in Items
  /\ \A r \in Requests : EndMarker(r) \in Items
  /\ \A r \in Requests : \A s \in {"none", "zero", "nonzero"} : Status(r, s) \in Items
  BY DEF Ready, Bye, EndMarker, Status, Items

-----------------------------------------------------------------------------
(***************************************************************************)
(* The steps, grouped by what they do.                                     *)
(***************************************************************************)
Hears(r, n) == ReceiveReady(r, n) \/ ReceiveEnd(r, n) \/ ReceiveBye(r, n)
Leaves(r) == SocketClosed(r) \/ Timeout(r) \/ Die(r)
Writing == WriteReady \/ WriteBye \/ WriteEnd

\* The steps, one by one; the parts of a step that hold of each alike are shown first.
LEMMA Steps ==
  ASSUME [Next]_vars
  PROVE  \/ UNCHANGED vars
         \/ \E r \in Requests :
              \/ Connect(r) \/ SendLine(r) \/ SendTorn(r) \/ Leaves(r)
              \/ \E n \in 1..Len(out) : Hears(r, n)
         \/ Accept \/ Forward \/ Disconnect \/ Writing
         \/ ReadPing \/ ReadPoweroff \/ ReadEndFails
         \/ ReadBegin \/ ReadData \/ ReadTorn \/ ReadEnd \/ ScriptReads
         \/ StartAgent \/ ScriptEnds \/ EndOfFile \/ Exit
         \/ GoesDown \/ StartVM
  BY DEF Next, ClientStep, QemuStep, AgentStep, Hears, Leaves, Writing, PowerDown, Crash

\* What the first line of the wire, and the rest, are.
LEMMA WireHead ==
  ASSUME TypeOK, wire # << >>
  PROVE  /\ Head(wire) \in Lines /\ Head(wire) = wire[1] /\ Head(wire).of \in Requests
         /\ Tail(wire) \in Seq(Lines)
         /\ Len(wire) \in Nat \ {0} /\ DOMAIN wire = 1..Len(wire)
         /\ Len(Tail(wire)) = Len(wire) - 1 /\ DOMAIN Tail(wire) = 1..Len(wire) - 1
         /\ \A i \in 1..Len(wire) - 1 : Tail(wire)[i] = wire[i + 1]
  BY LinesAre DEF TypeOK

\* Every step keeps the types.
LEMMA TypeStep ==
  ASSUME TypeOK, ClientPlace, Scripts, [Next]_vars
  PROVE  TypeOK'
<1> USE DEF TypeOK, Waiting, Finished, ClientPlace
<1>1. CASE UNCHANGED vars
  BY <1>1 DEF vars, clientVars, qemuVars, agentVars
<1>2. ASSUME NEW r \in Requests, Connect(r) PROVE TypeOK'
  <2>1. <<Line("PING", r)>> \in Seq(Lines) /\ Append(backlog, r) \in Seq(Requests)
    BY LinesAre
  <2> QED
    BY <1>2, <2>1 DEF Connect, clientVars, qemuVars, agentVars
<1>3. ASSUME NEW r \in Requests, SendLine(r) PROVE TypeOK'
  <2>1. r \in Runs /\ sent[r] + 1 \in 1..Chunks + 2
    BY <1>3, BoundsAssumption DEF SendLine
  <2>2. RunLines(r)[sent[r] + 1] \in Lines
    BY <2>1, RunLinesAt, LinesAre, BoundsAssumption DEF KindAt, RunKinds
  <2>3. Append(sock[r], RunLines(r)[sent[r] + 1]) \in Seq(Lines)
    BY <2>2
  <2> QED
    BY <1>3, <2>3 DEF SendLine, clientVars, qemuVars, agentVars
<1>4. ASSUME NEW r \in Requests, SendTorn(r) PROVE TypeOK'
  <2>1. r \in Runs
    BY <1>4 DEF SendTorn
  <2>2. Append(sock[r], Line("TORN", r)) \in Seq(Lines)
    BY <2>1, LinesAre DEF RunKinds
  <2> QED
    BY <1>4, <2>2 DEF SendTorn, clientVars, qemuVars, agentVars
<1>5. ASSUME NEW r \in Requests, NEW n \in 1..Len(out), Hears(r, n) PROVE TypeOK'
  <2>1. SubSeq(out, n + 1, Len(out)) \in Seq(Items)
    BY ElemsCut
  <2>2. r \in Stops => Append(sock[r], Line("POWEROFF", r)) \in Seq(Lines)
    BY LinesAre
  <2>3. CASE ReceiveReady(r, n)
    BY <2>1, <2>2, <2>3 DEF ReceiveReady, Receives, clientVars, qemuVars, agentVars
  <2>4. CASE ReceiveEnd(r, n)
    BY <2>1, <2>4 DEF ReceiveEnd, Receives, Answer, clientVars, qemuVars, agentVars
  <2>5. CASE ReceiveBye(r, n)
    BY <2>1, <2>5 DEF ReceiveBye, Receives, clientVars, qemuVars, agentVars
  <2> QED
    BY <1>5, <2>3, <2>4, <2>5 DEF Hears
<1>6. ASSUME NEW r \in Requests, Leaves(r) PROVE TypeOK'
  BY <1>6 DEF Leaves, SocketClosed, Timeout, Die, Active, clientVars, qemuVars, agentVars
<1>7. ASSUME Accept PROVE TypeOK'
  BY <1>7 DEF Accept, clientVars, qemuVars, agentVars
<1>8. ASSUME Forward PROVE TypeOK'
  BY <1>8 DEF Forward, clientVars, qemuVars, agentVars
<1>9. ASSUME Disconnect PROVE TypeOK'
  <2>1. << >> \in Seq(Items)
    OBVIOUS
  <2> QED
    BY <1>9, <2>1 DEF Disconnect, clientVars, qemuVars, agentVars
<1>10. ASSUME Writing PROVE TypeOK'
  <2>1. CASE WriteReady
    <3>1. out \o <<Ready>> \in Seq(Items)
      BY ItemsAre, ConcatProperties
    <3> QED
      BY <2>1, <3>1 DEF WriteReady, Writes, clientVars, qemuVars, agentVars
  <2>2. CASE WriteBye
    <3>1. out \o <<Bye>> \in Seq(Items)
      BY ItemsAre, ConcatProperties
    <3> QED
      BY <2>2, <3>1 DEF WriteBye, Writes, clientVars, qemuVars, agentVars
  <2>3. CASE WriteEnd
    <3>1. current \in Runs /\ script[current] \in {"zero", "nonzero"}
      BY <2>3 DEF WriteEnd, Scripts
    <3>2. <<EndMarker(current), Status(current, script[current])>> \in Seq(Items)
      BY <3>1, ItemsAre DEF Requests
    <3>3. out \o <<EndMarker(current), Status(current, script[current])>> \in Seq(Items)
      BY <3>2, ConcatProperties
    <3> QED
      BY <2>3, <3>3 DEF WriteEnd, Writes, clientVars, qemuVars, agentVars
  <2> QED
    BY <1>10, <2>1, <2>2, <2>3 DEF Writing
<1>11. ASSUME ReadPing \/ ReadPoweroff \/ ReadEndFails PROVE TypeOK'
  BY <1>11, WireHead DEF ReadPing, ReadPoweroff, ReadEndFails, Reads, clientVars, qemuVars,
     agentVars
<1>12. ASSUME ReadBegin \/ ReadData PROVE TypeOK'
  <2> DEFINE q == Head(wire).of
  <2>1. q \in Requests /\ Tail(wire) \in Seq(Lines)
    BY <1>12, WireHead DEF ReadBegin, ReadData, Reads
  <2> HIDE DEF q
  <2>2. [file EXCEPT ![q] = -1] \in [Requests -> Int]
    BY <2>1
  <2>3. [file EXCEPT ![q] = IF @ = -1 THEN 1 ELSE @ + 1] \in [Requests -> Int]
    BY <2>1
  <2> QED
    BY <1>12, <2>1, <2>2, <2>3 DEF ReadBegin, ReadData, q, clientVars, qemuVars, agentVars
<1>13. ASSUME ReadTorn PROVE TypeOK'
  <2> DEFINE q == Head(wire).of
  <2>1. q \in Requests /\ Tail(wire) \in Seq(Lines) /\ Len(Tail(wire)) > 0
    BY <1>13, WireHead DEF ReadTorn, Reads
  <2> HIDE DEF q
  <2>2. Tail(Tail(wire)) \in Seq(Lines)
    <3>1. Tail(wire) # << >>
      BY <2>1, NonEmpty
    <3> QED
      BY <2>1, <3>1
  <2>3. [file EXCEPT ![q] = IF @ = -1 THEN 1 ELSE @ + 1] \in [Requests -> Int]
    BY <2>1
  <2> QED
    BY <1>13, <2>2, <2>3 DEF ReadTorn, q, clientVars, qemuVars, agentVars
<1>14. ASSUME ReadEnd PROVE TypeOK'
  <2> DEFINE q == Head(wire).of
  <2>1. q \in Runs /\ q \in Requests /\ Tail(wire) \in Seq(Lines)
    BY <1>14, WireHead, LinesAre DEF ReadEnd, Reads, RunKinds
  <2> HIDE DEF q
  <2>2. [file EXCEPT ![q] = -1] \in [Requests -> Int]
    BY <2>1
  <2> QED
    BY <1>14, <2>1, <2>2 DEF ReadEnd, q, clientVars, qemuVars, agentVars
<1>15. ASSUME ScriptReads PROVE TypeOK'
  BY <1>15 DEF ScriptReads, clientVars, qemuVars, agentVars
<1>16. ASSUME StartAgent \/ ScriptEnds \/ EndOfFile \/ Exit PROVE TypeOK'
  <2>1. << >> \in Seq(Lines)
    OBVIOUS
  <2> QED
    BY <1>16, <2>1 DEF StartAgent, ScriptEnds, EndOfFile, Exit, clientVars, qemuVars,
       agentVars
<1>17. ASSUME GoesDown PROVE TypeOK'
  BY <1>17 DEF GoesDown, Active, clientVars, qemuVars, agentVars
<1>18. ASSUME StartVM PROVE TypeOK'
  BY <1>18 DEF StartVM, clientVars, qemuVars, agentVars
<1> QED
  BY <1>1, <1>2, <1>3, <1>4, <1>5, <1>6, <1>7, <1>8, <1>9, <1>10, <1>11, <1>12, <1>13,
     <1>14, <1>15, <1>16, <1>17, <1>18, Steps

\* How a client leaves before it is answered, by itself or not.
LEMMA LeavesAre ==
  ASSUME TypeOK, NEW r \in Requests, Leaves(r)
  PROVE  /\ UNCHANGED <<vm, sent, sock, backlog, conn, wire, out>>
         /\ client[r] \notin {"idle", "failure", "dead", "success"}
         /\ client'[r] \in {"failure", "dead"}
         /\ \A s \in Requests \ {r} : client'[s] = client[s]
<1>1. PICK v : client' = [client EXCEPT ![r] = v] /\ v \in {"failure", "dead"}
  BY DEF Leaves, SocketClosed, Timeout, Die
<1>2. client'[r] = v /\ \A s \in Requests \ {r} : client'[s] = client[s]
  BY <1>1 DEF TypeOK
<1>3. UNCHANGED <<vm, sent, sock, backlog, conn, wire, out>>
  BY DEF Leaves, SocketClosed, Timeout, Die, qemuVars
<1>4. client[r] \notin {"idle", "failure", "dead", "success"}
  BY DEF Leaves, SocketClosed, Timeout, Die, Active, Waiting
<1> QED
  BY <1>1, <1>2, <1>3, <1>4

\* Every step keeps what a client's place says of its sending.
LEMMA PlaceStep ==
  ASSUME TypeOK, ClientPlace, [Next]_vars
  PROVE  ClientPlace'
<1> USE DEF TypeOK, Waiting, Finished, ClientPlace
<1>1. CASE UNCHANGED vars
  BY <1>1 DEF vars, clientVars, qemuVars, agentVars
<1>2. ASSUME NEW r \in Requests, Connect(r) PROVE ClientPlace'
  BY <1>2 DEF Connect, Line, clientVars, qemuVars, agentVars
<1>3. ASSUME NEW r \in Requests, SendLine(r) PROVE ClientPlace'
  <2>1. Len(RunLines(r)) = Chunks + 2 /\ Chunks \in Nat
    BY <1>3, RunLinesAt, BoundsAssumption DEF SendLine
  <2>2. /\ r \in Runs /\ sent[r] < Chunks + 2 /\ sent'[r] = sent[r] + 1
        /\ client[r] = "sending"
        /\ client'[r] = IF sent[r] + 1 = Chunks + 2 THEN "waitend" ELSE "sending"
    BY <1>3, <2>1 DEF SendLine
  <2>3. \A s \in Requests \ {r} : client'[s] = client[s] /\ sent'[s] = sent[s]
    BY <1>3 DEF SendLine
  <2>4. sent[r] \in Nat
    OBVIOUS
  <2> HIDE DEF TypeOK
  <2> QED
    BY <2>1, <2>2, <2>3, <2>4
<1>4. ASSUME NEW r \in Requests, SendTorn(r) PROVE ClientPlace'
  BY <1>4 DEF SendTorn, Line, clientVars, qemuVars, agentVars
<1>5. ASSUME NEW r \in Requests, NEW n \in 1..Len(out), Hears(r, n) PROVE ClientPlace'
  <2> USE BoundsAssumption
  <2>1. CASE ReceiveReady(r, n)
    <3>1. /\ client[r] = "waitready" /\ sent' = sent
          /\ client'[r] \in {"waitready", "sending", "waitbye", "success"}
          /\ client'[r] = "sending" => r \in Runs
          /\ client'[r] = "waitbye" => r \in Stops
      BY <2>1 DEF ReceiveReady
    <3>2. \A s \in Requests \ {r} : client'[s] = client[s]
      BY <2>1 DEF ReceiveReady
    <3>3. Chunks \in Nat
      OBVIOUS
    <3> HIDE DEF TypeOK
    <3> QED
      BY <3>1, <3>2, <3>3
  <2>2. CASE ReceiveEnd(r, n)
    BY <2>2 DEF ReceiveEnd, Receives, Answer, clientVars, qemuVars, agentVars
  <2>3. CASE ReceiveBye(r, n)
    BY <2>3 DEF ReceiveBye, Receives, clientVars, qemuVars, agentVars
  <2> QED
    BY <1>5, <2>1, <2>2, <2>3 DEF Hears
<1>6. ASSUME NEW r \in Requests, Leaves(r) PROVE ClientPlace'
  BY <1>6 DEF Leaves, SocketClosed, Timeout, Die, Active, clientVars, qemuVars, agentVars
<1>7. ASSUME Accept PROVE ClientPlace'
  BY <1>7 DEF Accept, clientVars, qemuVars, agentVars
<1>8. ASSUME Forward PROVE ClientPlace'
  BY <1>8 DEF Forward, clientVars, qemuVars, agentVars
<1>9. ASSUME Disconnect PROVE ClientPlace'
  BY <1>9 DEF Disconnect, clientVars, qemuVars, agentVars
<1>10. ASSUME Writing PROVE ClientPlace'
  BY <1>10 DEF Writing, WriteReady, WriteBye, WriteEnd, Writes, clientVars, qemuVars,
     agentVars
<1>11. ASSUME ReadPing \/ ReadPoweroff \/ ReadEndFails PROVE ClientPlace'
  BY <1>11 DEF ReadPing, ReadPoweroff, ReadEndFails, Reads, clientVars, qemuVars, agentVars
<1>12. ASSUME ReadBegin \/ ReadData PROVE ClientPlace'
  BY <1>12 DEF ReadBegin, ReadData, Reads, clientVars, qemuVars, agentVars
<1>13. ASSUME ReadTorn PROVE ClientPlace'
  BY <1>13 DEF ReadTorn, Reads, clientVars, qemuVars, agentVars
<1>14. ASSUME ReadEnd PROVE ClientPlace'
  BY <1>14 DEF ReadEnd, Reads, clientVars, qemuVars, agentVars
<1>15. ASSUME ScriptReads PROVE ClientPlace'
  BY <1>15 DEF ScriptReads, clientVars, qemuVars, agentVars
<1>16. ASSUME StartAgent \/ ScriptEnds \/ EndOfFile \/ Exit PROVE ClientPlace'
  BY <1>16 DEF StartAgent, ScriptEnds, EndOfFile, Exit, clientVars, qemuVars, agentVars
<1>17. ASSUME GoesDown PROVE ClientPlace'
  BY <1>17 DEF GoesDown, Active, clientVars, qemuVars, agentVars
<1>18. ASSUME StartVM PROVE ClientPlace'
  BY <1>18 DEF StartVM, clientVars, qemuVars, agentVars
<1> QED
  BY <1>1, <1>2, <1>3, <1>4, <1>5, <1>6, <1>7, <1>8, <1>9, <1>10, <1>11, <1>12, <1>13,
     <1>14, <1>15, <1>16, <1>17, <1>18, Steps

\* Whatever the agent or a script reads, lines only leave the wire, and the
\* files that change are those of the lines that leave.
Reading == \/ ReadPing \/ ReadPoweroff \/ ReadEndFails
           \/ ReadBegin \/ ReadData \/ ReadTorn \/ ReadEnd \/ ScriptReads
\* What leaves the wire first, and what stays.
LEMMA WireElems ==
  ASSUME TypeOK, wire # << >>
  PROVE  /\ Elems(wire) = {Head(wire)} \cup Elems(Tail(wire)) /\ Tail(wire) \in Seq(Lines)
         /\ Tail(wire) # << >> => Elems(Tail(Tail(wire))) \subseteq Elems(Tail(wire))
<1>1. Elems(wire) = {Head(wire)} \cup Elems(Tail(wire)) /\ Tail(wire) \in Seq(Lines)
  BY ElemsTail DEF TypeOK
<1> QED
  BY <1>1, ElemsTail

\* A step of reading changes the wire and the file of the line it reads, nothing else.
LEMMA ReadingAre ==
  ASSUME TypeOK, Reading
  PROVE  /\ UNCHANGED <<clientVars, qemuVars, out>>
         /\ wire # << >> /\ Elems(wire') \subseteq Elems(wire) /\ Head(wire) \in Elems(wire)
         /\ wire' = Tail(wire) \/ (wire' = Tail(Tail(wire)) /\ Tail(wire) # << >>)
         /\ \A r \in Requests : r # Head(wire).of => file'[r] = file[r]
<1>1. CASE ReadTorn
  <2>1. wire # << >> /\ Len(wire) > 1
    BY <1>1 DEF ReadTorn, Reads
  <2>2. Tail(wire) \in Seq(Lines) /\ Len(Tail(wire)) > 0
    BY <2>1, WireHead
  <2>3. Tail(wire) # << >>
    BY <2>2, NonEmpty
  <2> QED
    BY <1>1, <2>1, <2>3, WireElems DEF ReadTorn, clientVars, qemuVars, TypeOK
<1>2. CASE ReadPing \/ ReadPoweroff \/ ReadEndFails \/ ScriptReads
  BY <1>2, WireElems DEF ReadPing, ReadPoweroff, ReadEndFails, ScriptReads, Reads,
     clientVars, qemuVars, agentVars
<1>3. CASE ReadBegin \/ ReadData \/ ReadEnd
  BY <1>3, WireElems DEF ReadBegin, ReadData, ReadEnd, Reads, clientVars, qemuVars, TypeOK
<1> QED
  BY <1>1, <1>2, <1>3 DEF Reading

\* What a receive may do, and what it leaves.
LEMMA HearsAre ==
  ASSUME TypeOK, ClientPlace, NEW r \in Requests, NEW n \in 1..Len(out), Hears(r, n)
  PROVE  /\ conn = r /\ UNCHANGED <<vm, sent, backlog, conn, wire, agentVars, counters>>
         /\ Elems(out) = Elems(Chunk(n)) \cup Elems(out') /\ out' \in Seq(Items)
         /\ client[r] \in {"waitready", "waitend", "waitbye"}
         /\ \A s \in Requests \ {r} : client'[s] = client[s] /\ sock'[s] = sock[s]
         /\ client[r] = "waitready" => client'[r] \in {"waitready", "sending", "waitbye", "success"}
         /\ client[r] = "waitready" /\ r \in Runs => client'[r] \in {"waitready", "sending"}
         /\ client[r] = "waitend" => client'[r] = Answer(r, Chunk(n))
         /\ client[r] = "waitbye" => client'[r] \in {"waitbye", "success"}
         /\ client'[r] = "sending" => r \in Runs
         /\ \/ sock'[r] = sock[r]
            \/ r \in Stops /\ sock'[r] = Append(sock[r], Line("POWEROFF", r))
<1>1. out \in Seq(Items)
  BY DEF TypeOK
<1>2. Receives(r, n)
  BY DEF Hears, ReceiveReady, ReceiveEnd, ReceiveBye
<1>3. Elems(out) = Elems(Chunk(n)) \cup Elems(out') /\ out' \in Seq(Items)
  BY <1>1, <1>2, ElemsCut DEF Receives, Chunk
<1>4. CASE ReceiveReady(r, n)
  BY <1>2, <1>3, <1>4 DEF ReceiveReady, Receives, clientVars, qemuVars, agentVars, TypeOK
<1>5. CASE ReceiveEnd(r, n)
  BY <1>2, <1>3, <1>5, BoundsAssumption DEF ReceiveEnd, Receives, Answer, clientVars,
     qemuVars, agentVars, TypeOK
<1>6. CASE ReceiveBye(r, n)
  BY <1>2, <1>3, <1>6 DEF ReceiveBye, Receives, clientVars, qemuVars, agentVars, TypeOK
<1> QED
  BY <1>4, <1>5, <1>6 DEF Hears

\* What the agent may write, and for whom.
LEMMA WritingAre ==
  ASSUME TypeOK, Scripts, Writing
  PROVE  /\ UNCHANGED <<vm, clientVars, qemuVars, wire, file, script, truncated, counters>>
         /\ agent' = "reading" /\ agent \in {"ready", "bye", "ended"}
         /\ current' = NoRequest
         /\ conn = NoRequest => out' = out
         /\ conn # NoRequest => 
              Elems(out') = Elems(out) \cup
                IF agent = "ready" THEN {Ready} ELSE IF agent = "bye" THEN {Bye}
                ELSE {EndMarker(current), Status(current, script[current])}
<1>1. out \in Seq(Items)
  BY DEF TypeOK
<1>2. CASE WriteReady
  <2> DEFINE t == <<Ready>>
  <2>1. t \in Seq(Items) /\ Elems(t) = {Ready}
    BY ItemsAre DEF Elems
  <2> HIDE DEF t
  <2>2. Elems(out \o t) = Elems(out) \cup {Ready}
    BY <1>1, <2>1, ElemsConcat
  <2> QED
    BY <1>2, <2>2 DEF WriteReady, Writes, t, Scripts, clientVars, qemuVars, agentVars
<1>3. CASE WriteBye
  <2> DEFINE t == <<Bye>>
  <2>1. t \in Seq(Items) /\ Elems(t) = {Bye}
    BY ItemsAre DEF Elems
  <2> HIDE DEF t
  <2>2. Elems(out \o t) = Elems(out) \cup {Bye}
    BY <1>1, <2>1, ElemsConcat
  <2> QED
    BY <1>3, <2>2 DEF WriteBye, Writes, t, Scripts, clientVars, qemuVars, agentVars
<1>4. CASE WriteEnd
  <2> DEFINE a == EndMarker(current)
             b == Status(current, script[current])
  <2>1. a \in Items /\ b \in Items
    BY <1>4, ItemsAre DEF WriteEnd, Scripts, TypeOK, Requests
  <2> HIDE DEF a, b
  <2> DEFINE t == <<a, b>>
  <2>2. t \in Seq(Items) /\ Elems(t) = {a, b}
    BY <2>1 DEF Elems
  <2> HIDE DEF t
  <2>3. Elems(out \o t) = Elems(out) \cup {a, b}
    BY <1>1, <2>2, ElemsConcat
  <2> QED
    BY <1>4, <2>3 DEF WriteEnd, Writes, Scripts, clientVars, qemuVars, agentVars, a, b, t
<1> QED
  BY <1>2, <1>3, <1>4 DEF Writing

\* How qemu moves the queue on.
LEMMA AcceptIs ==
  ASSUME TypeOK, BacklogOnce, Accept
  PROVE  /\ UNCHANGED <<vm, clientVars, sock, wire, out, agentVars, counters>>
         /\ conn = NoRequest /\ conn' \in Elems(backlog) /\ conn' \in Requests
         /\ Elems(backlog) = {conn'} \cup Elems(backlog') /\ conn' \notin Elems(backlog')
         /\ BacklogOnce'
<1>1. backlog \in Seq(Requests) /\ backlog # << >> /\ conn' = Head(backlog) /\ backlog' = Tail(backlog)
  BY DEF Accept, TypeOK
<1>2. Elems(backlog) = {conn'} \cup Elems(backlog') /\ conn' \in Requests
  BY <1>1, ElemsTail
<1>3. \A r \in Requests : Once(backlog', r) /\ (conn' = r => r \notin Elems(backlog'))
  BY <1>1, OnceTail DEF BacklogOnce
<1> QED
  BY <1>2, <1>3 DEF Accept, BacklogOnce

\* qemu moves the first line of the connected socket to the end of the wire.
LEMMA ForwardIs ==
  ASSUME TypeOK, Forward
  PROVE  /\ UNCHANGED <<vm, clientVars, backlog, conn, out, agentVars, counters>>
         /\ conn \in Requests /\ agent # "down"
         /\ sock[conn] \in Seq(Lines) /\ sock[conn] # << >>
         /\ sock' = [sock EXCEPT ![conn] = Tail(sock[conn])]
         /\ wire' = Append(wire, Head(sock[conn]))
         /\ wire \in Seq(Lines) /\ Head(sock[conn]) \in Lines
         /\ Elems(sock[conn]) = {Head(sock[conn])} \cup Elems(Tail(sock[conn]))
         /\ Elems(wire') = Elems(wire) \cup {Head(sock[conn])}
<1>1. conn \in Requests /\ sock[conn] \in Seq(Lines) /\ sock[conn] # << >> /\ wire \in Seq(Lines)
  BY DEF Forward, TypeOK
<1>2. Elems(sock[conn]) = {Head(sock[conn])} \cup Elems(Tail(sock[conn])) /\ Head(sock[conn]) \in Lines
  BY <1>1, ElemsTail
<1>3. Elems(Append(wire, Head(sock[conn]))) = Elems(wire) \cup {Head(sock[conn])}
  BY <1>1, <1>2, ElemsAppend
<1> QED
  BY <1>1, <1>2, <1>3 DEF Forward

\* A client that waits keeps its connection, or is told of its end.
LEMMA WaitersStep ==
  ASSUME TypeOK, ClientPlace, Scripts, BacklogOnce, WaitersAreConnected, [Next]_vars
  PROVE  WaitersAreConnected'
<1> USE DEF TypeOK, Waiting, Finished, WaitersAreConnected, Active
<1>1. CASE UNCHANGED vars
  BY <1>1 DEF vars, clientVars, qemuVars, agentVars
<1>2. ASSUME NEW r \in Requests, Connect(r) PROVE WaitersAreConnected'
  <2>1. Elems(Append(backlog, r)) = Elems(backlog) \cup {r}
    BY ElemsAppend
  <2> QED
    BY <1>2, <2>1 DEF Connect, clientVars, qemuVars, agentVars
<1>3. ASSUME NEW r \in Requests, SendLine(r) PROVE WaitersAreConnected'
  BY <1>3 DEF SendLine, clientVars, qemuVars, agentVars
<1>4. ASSUME NEW r \in Requests, SendTorn(r) PROVE WaitersAreConnected'
  BY <1>4 DEF SendTorn, Line, clientVars, qemuVars, agentVars
<1>5. ASSUME NEW r \in Requests, NEW n \in 1..Len(out), Hears(r, n) PROVE WaitersAreConnected'
  BY <1>5, HearsAre DEF clientVars, agentVars
<1>6. ASSUME NEW r \in Requests, Leaves(r) PROVE WaitersAreConnected'
  BY <1>6 DEF Leaves, SocketClosed, Timeout, Die, Active, clientVars, qemuVars, agentVars
<1>7. ASSUME Accept PROVE WaitersAreConnected'
  BY <1>7, AcceptIs, RequestsAssumption DEF clientVars
<1>8. ASSUME Forward PROVE WaitersAreConnected'
  BY <1>8, ForwardIs DEF clientVars
<1>9. ASSUME Disconnect PROVE WaitersAreConnected'
  BY <1>9 DEF Disconnect, clientVars, qemuVars, agentVars
<1>10. ASSUME Writing PROVE WaitersAreConnected'
  BY <1>10, WritingAre DEF clientVars, qemuVars
<1>11. ASSUME Reading PROVE WaitersAreConnected'
  BY <1>11, ReadingAre DEF clientVars, qemuVars
<1>12. ASSUME StartAgent \/ ScriptEnds \/ EndOfFile \/ Exit PROVE WaitersAreConnected'
  BY <1>12 DEF StartAgent, ScriptEnds, EndOfFile, Exit, clientVars, qemuVars, agentVars
<1>13. ASSUME GoesDown PROVE WaitersAreConnected'
  BY <1>13 DEF GoesDown, Active, clientVars, qemuVars, agentVars
<1>14. ASSUME StartVM PROVE WaitersAreConnected'
  BY <1>14 DEF StartVM, clientVars, qemuVars, agentVars
<1> QED
  BY <1>1, <1>2, <1>3, <1>4, <1>5, <1>6, <1>7, <1>8, <1>9, <1>10, <1>11, <1>12, <1>13,
     <1>14, Steps
     DEF Reading

\* Clients behind the connected one have sent their PING and no more.
LEMMA QueueStep ==
  ASSUME TypeOK, ClientPlace, Scripts, WaitersAreConnected, Queue, [Next]_vars
  PROVE  BacklogOnce' /\ QueuedClients' /\ IdleClients'
<1> USE DEF TypeOK, Queue
<1>1. CASE UNCHANGED vars
  BY <1>1 DEF vars, clientVars, qemuVars, agentVars, BacklogOnce, QueuedClients, IdleClients
<1>2. ASSUME NEW r \in Requests, Connect(r) PROVE BacklogOnce' /\ QueuedClients' /\ IdleClients'
  <2>1. Elems(backlog') = Elems(backlog) \cup {r} /\ r \notin Elems(backlog)
    BY <1>2, ElemsAppend DEF Connect, IdleClients
  <2>2. BacklogOnce'
    BY <1>2, <2>1, OnceAppend DEF Connect, BacklogOnce
  <2>3. /\ client[r] = "idle" /\ client'[r] = "waitready" /\ sock'[r] = <<Line("PING", r)>>
        /\ \A s \in Requests \ {r} : client'[s] = client[s] /\ sock'[s] = sock[s]
    BY <1>2 DEF Connect
  <2>4. Elems(backlog) \subseteq Requests
    BY DEF Elems
  <2>5. QueuedClients'
    <3> HIDE DEF TypeOK
    <3> QED
      BY <2>1, <2>3, <2>4 DEF QueuedClients
  <2>6. IdleClients'
    <3> HIDE DEF TypeOK
    <3> QED
      BY <2>1, <2>3 DEF IdleClients
  <2> QED
    BY <2>2, <2>5, <2>6
<1>3. ASSUME NEW r \in Requests, SendLine(r) \/ SendTorn(r) \/ Leaves(r)
      PROVE  BacklogOnce' /\ QueuedClients' /\ IdleClients'
  <2>1. UNCHANGED backlog /\ client[r] # "idle"
    BY <1>3 DEF SendLine, SendTorn, Leaves, SocketClosed, Timeout, Die, Active, Waiting,
       qemuVars
  <2>2. BacklogOnce'
    BY <2>1 DEF BacklogOnce
  <2>3. Elems(backlog) \subseteq Requests
    BY DEF Elems
  <2>4. CASE SendLine(r) \/ SendTorn(r)
    <3>1. /\ client[r] = "sending" /\ client'[r] # "idle"
          /\ \A s \in Requests \ {r} : client'[s] = client[s] /\ sock'[s] = sock[s]
      BY <2>4 DEF SendLine, SendTorn
    <3>2. r \notin Elems(backlog)
      BY <3>1 DEF QueuedClients
    <3> HIDE DEF TypeOK
    <3> QED
      BY <2>1, <2>2, <2>3, <3>1, <3>2 DEF QueuedClients, IdleClients
  <2>5. CASE Leaves(r)
    BY <2>1, <2>2, <2>5, <2>3 DEF Leaves, SocketClosed, Timeout, Die, qemuVars,
       QueuedClients, IdleClients
  <2> QED
    BY <1>3, <2>4, <2>5
<1>4. ASSUME NEW r \in Requests, NEW n \in 1..Len(out), Hears(r, n)
      PROVE  BacklogOnce' /\ QueuedClients' /\ IdleClients'
  <2>1. r \notin Elems(backlog) /\ client[r] # "idle" /\ UNCHANGED backlog
    BY <1>4, HearsAre DEF Untouched
  <2>2. \A s \in Requests \ {r} : client'[s] = client[s] /\ sock'[s] = sock[s]
    BY <1>4, HearsAre
  <2>3. client'[r] # "idle"
    BY <1>4, HearsAre DEF Answer
  <2>4. BacklogOnce'
    BY <2>1 DEF BacklogOnce
  <2>5. Elems(backlog) \subseteq Requests
    BY DEF Elems
  <2> QED
    BY <2>1, <2>2, <2>3, <2>4, <2>5 DEF QueuedClients, IdleClients
<1>5. ASSUME Accept PROVE BacklogOnce' /\ QueuedClients' /\ IdleClients'
  BY <1>5, AcceptIs DEF clientVars, QueuedClients, IdleClients
<1>6. ASSUME Forward PROVE BacklogOnce' /\ QueuedClients' /\ IdleClients'
  <2>1. BacklogOnce' /\ conn \notin Elems(backlog) /\ client[conn] # "idle"
    BY <1>6, ForwardIs DEF BacklogOnce, Untouched
  <2>2. Elems(backlog) \subseteq Requests
    BY DEF Elems
  <2> QED
    BY <1>6, <2>1, <2>2, ForwardIs DEF clientVars, QueuedClients, IdleClients
<1>7. ASSUME Disconnect \/ StartAgent \/ ScriptEnds \/ EndOfFile \/ Exit \/ StartVM
      PROVE  BacklogOnce' /\ QueuedClients' /\ IdleClients'
  BY <1>7 DEF Disconnect, StartAgent, ScriptEnds, EndOfFile, Exit, StartVM,
     clientVars, qemuVars, BacklogOnce, QueuedClients, IdleClients
<1>8. ASSUME Writing \/ Reading PROVE BacklogOnce' /\ QueuedClients' /\ IdleClients'
  BY <1>8, WritingAre, ReadingAre
     DEF clientVars, qemuVars, BacklogOnce, QueuedClients, IdleClients
<1>9. ASSUME GoesDown PROVE BacklogOnce' /\ QueuedClients' /\ IdleClients'
  BY <1>9, ElemsEmpty DEF GoesDown, Active, BacklogOnce, QueuedClients, IdleClients
<1> QED
  BY <1>1, <1>2, <1>3, <1>4, <1>5, <1>6, <1>7, <1>8, <1>9, Steps DEF Reading

\* Until qemu comes to a client, nothing of it is in the guest.
LEMMA UntouchedStep ==
  ASSUME TypeOK, ClientPlace, Scripts, WaitersAreConnected, Queue, TornInSock, [Next]_vars
  PROVE  Untouched' /\ (conn' = NoRequest => out' = << >>)
<1> USE DEF TypeOK, Queue, Untouched
<1> DEFINE Goal == Untouched' /\ (conn' = NoRequest => out' = << >>)
<1>1. CASE UNCHANGED vars
  BY <1>1 DEF vars, clientVars, qemuVars, agentVars
<1>2. ASSUME NEW r \in Requests, Connect(r) PROVE Goal
  <2>1. Elems(backlog') = Elems(backlog) \cup {r}
    BY <1>2, ElemsAppend DEF Connect
  <2> QED
    BY <1>2, <2>1 DEF Connect, agentVars
<1>3. ASSUME NEW r \in Requests, SendLine(r) PROVE Goal
  BY <1>3 DEF SendLine, agentVars, QueuedClients
<1>4. ASSUME NEW r \in Requests, SendTorn(r) \/ Leaves(r) PROVE Goal
  BY <1>4 DEF SendTorn, Leaves, SocketClosed, Timeout, Die, qemuVars, agentVars
<1>5. ASSUME NEW r \in Requests, NEW n \in 1..Len(out), Hears(r, n) PROVE Goal
  <2>1. /\ conn = r /\ UNCHANGED <<sent, file, backlog, conn, wire>> /\ conn # NoRequest
        /\ \A s \in Requests \ {r} : client'[s] = client[s]
    BY <1>5, HearsAre, RequestsAssumption DEF agentVars
  <2>2. client'[r] # "idle"
    BY <1>5, HearsAre DEF Answer
  <2> QED
    BY <2>1, <2>2
<1>6. ASSUME Accept PROVE Goal
  BY <1>6, AcceptIs, RequestsAssumption DEF clientVars, agentVars, IdleClients
<1>7. ASSUME Forward PROVE Goal
  <2>1. \A l \in Elems(wire') : l \in Elems(wire) \/ l.of = conn
    BY <1>7, ForwardIs DEF TornInSock
  <2> QED
    BY <1>7, <2>1, ForwardIs DEF clientVars, agentVars
<1>8. ASSUME Disconnect PROVE Goal
  BY <1>8, RequestsAssumption DEF Disconnect, clientVars, agentVars
<1>9. ASSUME Writing \/ StartAgent \/ ScriptEnds \/ StartVM PROVE Goal
  BY <1>9, WritingAre DEF StartAgent, ScriptEnds, StartVM, clientVars, qemuVars, agentVars
<1>10. ASSUME Reading PROVE Goal
  BY <1>10, ReadingAre DEF clientVars, qemuVars
<1>11. ASSUME EndOfFile \/ Exit PROVE Goal
  BY <1>11, ElemsEmpty DEF EndOfFile, Exit, clientVars, qemuVars
<1>12. ASSUME GoesDown PROVE Goal
  BY <1>12, ElemsEmpty, RequestsAssumption DEF GoesDown, Active
<1> QED
  BY <1>1, <1>2, <1>3, <1>4, <1>5, <1>6, <1>7, <1>8, <1>9, <1>10, <1>11, <1>12, Steps
     DEF Reading

\* TORN lines and what comes after them.
LEMMA TornInSockStep ==
  ASSUME TypeOK, ClientPlace, Scripts, Queue, TornInSock, [Next]_vars
  PROVE  TornInSock'
<1> USE DEF TypeOK
<1>1. CASE UNCHANGED vars
  BY <1>1 DEF vars, clientVars, qemuVars, TornInSock
<1>2. ASSUME NEW r \in Requests, Connect(r) PROVE TornInSock'
  <2>1. /\ sock' = [sock EXCEPT ![r] = <<Line("PING", r)>>] /\ client[r] # "failure"
        /\ client' = [client EXCEPT ![r] = "waitready"]
    BY <1>2 DEF Connect
  <2>2. Elems(<<Line("PING", r)>>) = {Line("PING", r)} /\ Len(<<Line("PING", r)>>) = 1
    BY DEF Elems
  <2>3. sock'[r] = <<Line("PING", r)>>
    BY <2>1
  <2>4. Line("PING", r).of = r /\ Line("PING", r).kind = "PING"
    BY DEF Line
  <2>5. Elems(sock'[r]) = {Line("PING", r)} /\ Len(sock'[r]) = 1
    BY <2>2, <2>3
  <2>6. /\ Elems(sock'[r]) = {Line("PING", r)} /\ \A i \in 1..Len(sock'[r]) - 1 : FALSE
    BY <2>5
  <2>7. \A s \in Requests \ {r} : sock'[s] = sock[s] /\ client'[s] = client[s]
    BY <2>1
  <2>8. ASSUME NEW s \in Requests
        PROVE  /\ \A l \in Elems(sock'[s]) : l.of = s /\ (l.kind = "TORN" => client'[s] = "failure")
               /\ \A i \in 1..Len(sock'[s]) - 1 : sock'[s][i].kind # "TORN"
    <3> HIDE DEF TypeOK
    <3>1. CASE s = r
      BY <2>4, <2>6, <3>1
    <3>2. CASE s # r
      <4>1. sock'[s] = sock[s] /\ client'[s] = client[s]
        BY <2>7, <3>2
      <4> QED
        BY <4>1 DEF TornInSock
    <3> QED
      BY <3>1, <3>2
  <2> QED
    BY <2>8 DEF TornInSock
<1>3. ASSUME NEW r \in Requests, NEW l \in Lines, l.of = r, client[r] # "failure",
             sock' = [sock EXCEPT ![r] = Append(@, l)],
             \A s \in Requests \ {r} : client'[s] = client[s],
             l.kind = "TORN" => client'[r] = "failure"
      PROVE  TornInSock'
  <2>1. Elems(sock'[r]) = Elems(sock[r]) \cup {l}
    BY <1>3, ElemsAppend
  <2>2. \A i \in 1..Len(sock[r]) : sock[r][i] \in Elems(sock[r])
    BY DEF Elems
  <2>3. \A k \in Elems(sock[r]) : k.of = r /\ k.kind # "TORN"
    BY <1>3 DEF TornInSock
  <2>4. \A i \in 1..Len(sock'[r]) - 1 : sock'[r][i] = sock[r][i] /\ i \in 1..Len(sock[r])
    BY <1>3, AppendProperties
  <2>5. ASSUME NEW s \in Requests \ {r}
        PROVE  sock'[s] = sock[s] /\ client'[s] = client[s]
    BY <1>3
  <2> QED
    BY <1>3, <2>1, <2>2, <2>3, <2>4, <2>5 DEF TornInSock
<1>4. ASSUME NEW r \in Requests, SendLine(r) PROVE TornInSock'
  <2>1. r \in Runs /\ sent[r] + 1 \in 1..Chunks + 2
    BY <1>4, BoundsAssumption DEF SendLine, ClientPlace
  <2>2. RunLines(r)[sent[r] + 1] = Line(KindAt(sent[r] + 2), r)
    BY <2>1, RunLinesAt, BoundsAssumption
  <2> DEFINE l == Line(KindAt(sent[r] + 2), r)
  <2>3. l \in Lines /\ l.of = r /\ l.kind # "TORN"
    BY <2>1, LinesAre, BoundsAssumption DEF KindAt, RunKinds, Line
  <2>4. sock' = [sock EXCEPT ![r] = Append(@, l)]
    BY <1>4, <2>2 DEF SendLine
  <2> HIDE DEF l
  <2> QED
    BY <1>3, <1>4, <2>3, <2>4 DEF SendLine
<1>5. ASSUME NEW r \in Requests, SendTorn(r) PROVE TornInSock'
  <2> DEFINE l == Line("TORN", r)
  <2>1. l \in Lines /\ l.of = r
    BY <1>5, LinesAre DEF SendTorn, ClientPlace, RunKinds, Line
  <2>2. /\ sock' = [sock EXCEPT ![r] = Append(@, l)] /\ client[r] # "failure"
        /\ client' = [client EXCEPT ![r] = "failure"]
    BY <1>5 DEF SendTorn
  <2>3. client'[r] = "failure" /\ \A s \in Requests \ {r} : client'[s] = client[s]
    BY <2>2
  <2> HIDE DEF l, TypeOK
  <2> QED
    BY <1>3, <2>1, <2>2, <2>3
<1>6. ASSUME NEW r \in Requests, Leaves(r) PROVE TornInSock'
  <2>1. /\ sock' = sock /\ client[r] # "failure"
        /\ \A s \in Requests \ {r} : client'[s] = client[s]
    BY <1>6, LeavesAre
  <2> HIDE DEF TypeOK
  <2> QED
    BY <2>1 DEF TornInSock
<1>7. ASSUME NEW r \in Requests, NEW n \in 1..Len(out), Hears(r, n) PROVE TornInSock'
  <2>1. client[r] # "failure" /\ \A s \in Requests \ {r} : client'[s] = client[s] /\ sock'[s] = sock[s]
    BY <1>7, HearsAre
  <2>2. CASE sock'[r] = sock[r]
    <3>1. \A s \in Requests :
            sock'[s] = sock[s] /\ (client[s] = "failure" => client'[s] = "failure")
      BY <2>1, <2>2
    <3>2. ASSUME NEW s \in Requests
          PROVE  /\ \A l \in Elems(sock'[s]) : l.of = s /\ (l.kind = "TORN" => client'[s] = "failure")
                 /\ \A i \in 1..Len(sock'[s]) - 1 : sock'[s][i].kind # "TORN"
      <4> HIDE DEF TypeOK
      <4>1. sock'[s] = sock[s] /\ (client[s] = "failure" => client'[s] = "failure")
        BY <3>1
      <4> QED
        BY <4>1 DEF TornInSock
    <3> HIDE DEF TypeOK
    <3> QED
      BY <3>2 DEF TornInSock
  <2>3. CASE r \in Stops /\ sock'[r] = Append(sock[r], Line("POWEROFF", r))
    <3> DEFINE l == Line("POWEROFF", r)
    <3>1. l \in Lines /\ l.of = r /\ l.kind # "TORN"
      BY <2>3, LinesAre DEF Line
    <3>2. sock' = [sock EXCEPT ![r] = Append(@, l)]
      BY <1>7, <2>3 DEF Hears, ReceiveReady, ReceiveEnd, ReceiveBye, qemuVars
    <3> HIDE DEF l
    <3> QED
      BY <1>3, <2>1, <3>1, <3>2
  <2> QED
    BY <1>7, <2>2, <2>3, HearsAre
<1>8. ASSUME Forward PROVE TornInSock'
  <2>1. /\ Tail(sock[conn]) \in Seq(Lines) /\ Len(Tail(sock[conn])) = Len(sock[conn]) - 1
        /\ \A i \in 1..Len(sock[conn]) - 1 : Tail(sock[conn])[i] = sock[conn][i + 1]
    BY <1>8, ForwardIs, HeadTailProperties
  <2>2. Elems(Tail(sock[conn])) \subseteq Elems(sock[conn])
    BY <1>8, ForwardIs
  <2>3. /\ conn \in Requests /\ sock' = [sock EXCEPT ![conn] = Tail(sock[conn])]
        /\ client' = client /\ Len(sock[conn]) \in Nat
    BY <1>8, ForwardIs DEF clientVars
  <2> QED
    BY <2>1, <2>2, <2>3 DEF TornInSock
<1>9. ASSUME Accept \/ Disconnect \/ StartAgent \/ ScriptEnds \/ EndOfFile \/ Exit \/ StartVM
      PROVE  TornInSock'
  <2>1. UNCHANGED <<sock, client>>
    BY <1>9 DEF Accept, Disconnect, StartAgent, ScriptEnds, EndOfFile, Exit, StartVM,
       clientVars, qemuVars
  <2> HIDE DEF TypeOK
  <2> QED
    BY <2>1 DEF TornInSock
<1>10. ASSUME Writing \/ Reading PROVE TornInSock'
  <2>1. UNCHANGED <<sock, client>>
    BY <1>10, WritingAre, ReadingAre DEF clientVars, qemuVars
  <2> HIDE DEF TypeOK
  <2> QED
    BY <2>1 DEF TornInSock
<1>11. ASSUME GoesDown PROVE TornInSock'
  <2>1. \A r \in Requests : sock'[r] = << >> /\ Len(<< >>) = 0
    BY <1>11 DEF GoesDown
  <2> QED
    BY <2>1, ElemsEmpty DEF TornInSock
<1> QED
  BY <1>1, <1>2, <1>4, <1>5, <1>6, <1>7, <1>8, <1>9, <1>10, <1>11, Steps DEF Reading

\* When a torn line gets to the wire its client has sent all it will ever send.
LEMMA TornInWireStep ==
  ASSUME TypeOK, ClientPlace, Scripts, Queue, TornInSock, TornInWire, [Next]_vars
  PROVE  TornInWire'
<1> USE DEF TypeOK, TornInWire
<1>1. \A l \in Elems(wire) : l \in Lines /\ l.of \in Requests
  BY LinesAre DEF Elems
<1>2. CASE UNCHANGED vars
  <2> HIDE DEF TypeOK
  <2> QED
    BY <1>2 DEF vars, clientVars, qemuVars
<1>3. ASSUME NEW r \in Requests, Connect(r) PROVE TornInWire'
  <2>1. /\ UNCHANGED wire /\ client[r] # "failure"
        /\ \A s \in Requests \ {r} : client'[s] = client[s] /\ sock'[s] = sock[s]
    BY <1>3 DEF Connect
  <2> HIDE DEF TypeOK
  <2> QED
    BY <1>1, <2>1
<1>4. ASSUME NEW r \in Requests, SendLine(r) \/ SendTorn(r) \/ Leaves(r) PROVE TornInWire'
  <2>1. /\ UNCHANGED wire /\ client[r] # "failure"
        /\ \A s \in Requests \ {r} : client'[s] = client[s] /\ sock'[s] = sock[s]
    BY <1>4, LeavesAre DEF SendLine, SendTorn
  <2> HIDE DEF TypeOK
  <2> QED
    BY <1>1, <2>1
<1>5. ASSUME NEW r \in Requests, NEW n \in 1..Len(out), Hears(r, n) PROVE TornInWire'
  <2>1. /\ client[r] # "failure" /\ wire' = wire
        /\ \A s \in Requests \ {r} : client'[s] = client[s] /\ sock'[s] = sock[s]
    BY <1>5, HearsAre
  <2> QED
    BY <1>1, <2>1
<1>6. ASSUME Forward PROVE TornInWire'
  <2> DEFINE l == Head(sock[conn])
  <2>1. /\ conn \in Requests /\ sock' = [sock EXCEPT ![conn] = Tail(sock[conn])]
        /\ client' = client /\ Elems(wire') = Elems(wire) \cup {l}
        /\ sock[conn] \in Seq(Lines) /\ sock[conn] # << >>
    BY <1>6, ForwardIs DEF clientVars
  <2>2. l \in Elems(sock[conn]) /\ l = sock[conn][1]
    BY <2>1, ElemsTail
  <2>3. l.of = conn /\ (l.kind = "TORN" => client[conn] = "failure")
    BY <2>1, <2>2 DEF TornInSock
  <2> DEFINE s == sock[conn]
  <2>4. /\ Len(s) \in Nat /\ Len(s) > 0 /\ Tail(s) \in Seq(Lines) /\ Len(Tail(s)) = Len(s) - 1
        /\ \A i \in 1..Len(s) - 1 : s[i].kind # "TORN"
    BY <2>1, NonEmpty, HeadTailProperties DEF TornInSock
  <2>5. l = s[1]
    BY <2>2
  <2> HIDE DEF s, l
  <2>6. \A k \in Elems(wire) : k.kind = "TORN" => k.of # conn
    BY <2>1
  <2>7. CASE Len(s) > 1
    <3>1. 1 \in 1..Len(s) - 1
      BY <2>7, <2>4
    <3>2. l.kind # "TORN"
      BY <2>4, <2>5, <3>1
    <3> QED
      BY <1>1, <2>1, <2>3, <2>6, <3>2
  <2>8. CASE Len(s) = 1
    <3>1. Tail(s) = << >>
      BY <2>1, <2>8, TailOfOne DEF s
    <3> QED
      BY <1>1, <2>1, <2>3, <2>6, <3>1 DEF s
  <2> QED
    BY <2>7, <2>8, <2>4
<1>7. ASSUME Accept \/ Disconnect \/ StartAgent \/ ScriptEnds \/ StartVM PROVE TornInWire'
  BY <1>7 DEF Accept, Disconnect, StartAgent, ScriptEnds, StartVM, clientVars, qemuVars
<1>8. ASSUME Writing \/ Reading PROVE TornInWire'
  BY <1>8, WritingAre, ReadingAre DEF clientVars, qemuVars
<1>9. ASSUME EndOfFile \/ Exit \/ GoesDown PROVE TornInWire'
  BY <1>9, ElemsEmpty DEF EndOfFile, Exit, GoesDown
<1> QED
  BY <1>2, <1>3, <1>4, <1>5, <1>6, <1>7, <1>8, <1>9, Steps DEF Reading

\* What a client does adds to the end of its socket.
LEMMA SockGrows ==
  ASSUME TypeOK, ClientPlace, NEW r \in Requests,
         SendLine(r) \/ SendTorn(r) \/ \E n \in 1..Len(out) : Hears(r, n)
  PROVE  \A s \in Requests :
           sock'[s] = sock[s] \/ \E l \in Lines : sock'[s] = Append(sock[s], l)
<1> USE DEF TypeOK
<1>1. CASE SendLine(r)
  <2>1. r \in Runs /\ sent[r] \in 0..Chunks + 1
    BY <1>1, BoundsAssumption DEF SendLine, ClientPlace
  <2>2. RunLines(r)[sent[r] + 1] \in Lines
    <3>1. RunLines(r)[sent[r] + 1] = Line(KindAt(sent[r] + 2), r)
      BY <2>1, RunLinesAt
    <3>2. KindAt(sent[r] + 2) \in RunKinds
      BY <2>1, BoundsAssumption DEF KindAt, RunKinds
    <3> HIDE DEF TypeOK
    <3> QED
      BY <2>1, <3>1, <3>2, LinesAre
  <2>3. sock' = [sock EXCEPT ![r] = Append(@, RunLines(r)[sent[r] + 1])]
    BY <1>1 DEF SendLine
  <2> QED
    BY <2>2, <2>3
<1>2. CASE SendTorn(r)
  <2>1. Line("TORN", r) \in Lines
    BY <1>2, LinesAre DEF SendTorn, ClientPlace, RunKinds
  <2> QED
    BY <1>2, <2>1 DEF SendTorn
<1>3. ASSUME NEW n \in 1..Len(out), Hears(r, n)
      PROVE  \A s \in Requests :
               sock'[s] = sock[s] \/ \E l \in Lines : sock'[s] = Append(sock[s], l)
  BY <1>3, HearsAre, LinesAre
<1> QED
  BY <1>1, <1>2, <1>3

\* The first line qemu forwards of a client is its PING.
LEMMA PingFirstStep ==
  ASSUME TypeOK, ClientPlace, Scripts, Queue, TornInSock, PingFirst, [Next]_vars
  PROVE  PingFirst'
<1> USE DEF TypeOK, PingFirst
<1>1. CASE UNCHANGED vars
  BY <1>1 DEF vars, qemuVars
<1>2. ASSUME NEW r \in Requests, Connect(r) PROVE PingFirst'
  <2>1. conn # r
    BY <1>2 DEF Connect, Queue, Untouched
  <2> QED
    BY <1>2, <2>1 DEF Connect
<1>3. ASSUME NEW r \in Requests,
             SendLine(r) \/ SendTorn(r) \/ \E n \in 1..Len(out) : Hears(r, n)
      PROVE  PingFirst'
  <2>1. UNCHANGED <<conn, wire>>
    BY <1>3, HearsAre DEF SendLine, SendTorn
  <2>2. ASSUME conn \in Requests, sock[conn] # << >>
        PROVE  sock'[conn] # << >> /\ Head(sock'[conn]) = Head(sock[conn])
    <3>1. CASE sock'[conn] = sock[conn]
      BY <2>2, <3>1
    <3>2. ASSUME NEW l \in Lines, sock'[conn] = Append(sock[conn], l)
          PROVE  sock'[conn] # << >> /\ Head(sock'[conn]) = Head(sock[conn])
      <4> DEFINE s == sock[conn]
      <4>1. s \in Seq(Lines)
        BY <2>2
      <4>2. s # << >>
        BY <2>2
      <4> HIDE DEF s
      <4>3. Append(s, l) # << >> /\ Head(Append(s, l)) = Head(s)
        BY <4>1, <4>2, HeadAppend
      <4> QED
        BY <3>2, <4>3 DEF s
    <3> QED
      BY <1>3, <2>2, <3>1, <3>2, SockGrows
  <2> QED
    BY <2>1, <2>2
<1>4. ASSUME NEW r \in Requests, Leaves(r) PROVE PingFirst'
  BY <1>4 DEF Leaves, SocketClosed, Timeout, Die, qemuVars
<1>5. ASSUME Accept PROVE PingFirst'
  <2>1. conn' \in Elems(backlog) /\ sock' = sock
    BY <1>5, AcceptIs DEF Queue
  <2>2. sock[conn'] = <<Line("PING", conn')>>
    BY <2>1 DEF Queue, QueuedClients
  <2> QED
    BY <2>1, <2>2 DEF Line
<1>6. ASSUME Forward PROVE PingFirst'
  <2> DEFINE l == Head(sock[conn])
  <2>1. /\ wire' = Append(wire, l) /\ wire \in Seq(Lines) /\ l \in Lines
        /\ l \in Elems(sock[conn]) /\ conn \in Requests /\ conn' = conn
    BY <1>6, ForwardIs
  <2>2. l.of = conn
    BY <2>1 DEF TornInSock
  <2> HIDE DEF l
  <2>3. wire'[Len(wire')] = l
    BY <2>1, AppendProperties
  <2> QED
    BY <2>1, <2>2, <2>3
<1>7. ASSUME Reading PROVE PingFirst'
  <2>1. /\ wire # << >> /\ UNCHANGED <<conn, sock>>
        /\ wire' = Tail(wire) \/ (wire' = Tail(Tail(wire)) /\ Tail(wire) # << >>)
    BY <1>7, ReadingAre DEF qemuVars
  <2>2. Tail(wire) \in Seq(Lines)
    BY <2>1
  <2>3. CASE wire' = Tail(wire)
    BY <2>1, <2>3, LastOfTail
  <2>4. CASE wire' = Tail(Tail(wire)) /\ Tail(wire) # << >>
    <3>1. wire' # << >> => wire'[Len(wire')] = Tail(wire)[Len(Tail(wire))]
      BY <2>2, <2>4, LastOfTail
    <3>2. Tail(wire)[Len(Tail(wire))] = wire[Len(wire)]
      BY <2>1, <2>4, LastOfTail
    <3> QED
      BY <2>1, <3>1, <3>2
  <2> QED
    BY <2>1, <2>3, <2>4
<1>8. ASSUME Disconnect \/ StartAgent \/ ScriptEnds \/ StartVM PROVE PingFirst'
  BY <1>8 DEF Disconnect, StartAgent, ScriptEnds, StartVM, qemuVars
<1>9. ASSUME Writing PROVE PingFirst'
  BY <1>9, WritingAre DEF qemuVars
<1>10. ASSUME EndOfFile \/ Exit \/ GoesDown PROVE PingFirst'
  BY <1>10 DEF EndOfFile, Exit, GoesDown
<1> QED
  BY <1>1, <1>2, <1>3, <1>4, <1>5, <1>6, <1>7, <1>8, <1>9, <1>10, Steps DEF Reading

\* What stands behind a torn line is the PING of the next client.
LEMMA PingAfterTornStep ==
  ASSUME TypeOK, ClientPlace, Scripts, Queue, TornLines, [Next]_vars
  PROVE  PingAfterTorn'
<1> USE DEF TypeOK, PingAfterTorn
<1>1. CASE UNCHANGED vars
  BY <1>1 DEF vars, TornLines
<1>2. ASSUME Forward PROVE PingAfterTorn'
  <2> DEFINE l == Head(sock[conn])
             n == Len(wire)
  <2>1. /\ wire' = Append(wire, l) /\ wire \in Seq(Lines) /\ l \in Lines
        /\ conn \in Requests /\ sock[conn] # << >>
    BY <1>2, ForwardIs
  <2>2. n > 0 /\ wire[n].kind = "TORN" => l.kind = "PING"
    <3> SUFFICES ASSUME n > 0, wire[n].kind = "TORN" PROVE l.kind = "PING"
      OBVIOUS
    <3>1. wire # << >> /\ n \in DOMAIN wire
      BY <2>1
    <3>2. wire[n] \in Elems(wire)
      BY <3>1 DEF Elems
    <3>3. wire[n].of # conn
      BY <2>1, <3>2 DEF TornLines, TornInWire
    <3> QED
      BY <2>1, <3>1, <3>3, RequestsAssumption DEF TornLines, PingFirst
  <2>3. /\ n \in Nat /\ Len(wire') = n + 1 /\ wire'[n + 1] = l
        /\ \A i \in 1..n : wire'[i] = wire[i]
    BY <2>1, AppendProperties
  <2> HIDE DEF l, n
  <2>4. \A i \in 1..n - 1 : wire[i].kind = "TORN" => wire[i + 1].kind = "PING"
    BY DEF n, TornLines
  <2>5. ASSUME NEW i \in 1..n, wire'[i].kind = "TORN"
        PROVE  wire'[i + 1].kind = "PING"
    <3>1. CASE i = n
      BY <2>2, <2>3, <2>5, <3>1
    <3>2. CASE i < n
      <4>1. i \in 1..n - 1 /\ i + 1 \in 1..n
        BY <2>3, <3>2
      <4>2. wire'[i] = wire[i] /\ wire'[i + 1] = wire[i + 1]
        BY <2>3, <4>1
      <4> QED
        BY <2>4, <2>5, <4>1, <4>2
    <3> QED
      BY <2>3, <3>1, <3>2
  <2> QED
    BY <2>3, <2>5
<1>3. ASSUME Reading PROVE PingAfterTorn'
  <2>1. /\ wire # << >>
        /\ wire' = Tail(wire) \/ (wire' = Tail(Tail(wire)) /\ Tail(wire) # << >>)
    BY <1>3, ReadingAre
  <2>2. /\ Tail(wire) \in Seq(Lines) /\ Len(Tail(wire)) = Len(wire) - 1 /\ Len(wire) \in Nat
        /\ \A i \in 1..Len(wire) - 1 : Tail(wire)[i] = wire[i + 1]
    BY <2>1, WireHead
  <2>3. \A i \in 1..Len(Tail(wire)) - 1 :
          Tail(wire)[i].kind = "TORN" => Tail(wire)[i + 1].kind = "PING"
    BY <2>2 DEF TornLines
  <2>4. CASE wire' = Tail(wire)
    BY <2>3, <2>4
  <2>5. CASE wire' = Tail(Tail(wire)) /\ Tail(wire) # << >>
    <3> DEFINE t == Tail(wire)
    <3>1. /\ t \in Seq(Lines) /\ t # << >>
          /\ \A i \in 1..Len(t) - 1 : t[i].kind = "TORN" => t[i + 1].kind = "PING"
      BY <2>2, <2>3, <2>5
    <3> HIDE DEF t
    <3>2. /\ Len(Tail(t)) = Len(t) - 1 /\ Len(t) \in Nat
          /\ \A i \in 1..Len(t) - 1 : Tail(t)[i] = t[i + 1]
      BY <3>1, HeadTailProperties
    <3>3. \A i \in 1..Len(Tail(t)) - 1 : Tail(t)[i].kind = "TORN" => Tail(t)[i + 1].kind = "PING"
      BY <3>1, <3>2
    <3> QED
      BY <2>5, <3>3 DEF t
  <2> QED
    BY <2>1, <2>4, <2>5
<1>4. ASSUME EndOfFile \/ Exit \/ GoesDown PROVE PingAfterTorn'
  <2>1. wire' = << >> /\ Len(<< >>) = 0
    BY <1>4 DEF EndOfFile, Exit, GoesDown
  <2> QED
    BY <2>1
<1>5. ASSUME wire' = wire PROVE PingAfterTorn'
  BY <1>5 DEF TornLines
<1>6. ASSUME NEW r \in Requests,
             Connect(r) \/ SendLine(r) \/ SendTorn(r) \/ Leaves(r)
               \/ \E n \in 1..Len(out) : Hears(r, n)
      PROVE  wire' = wire
  BY <1>6, HearsAre DEF Connect, SendLine, SendTorn, Leaves, SocketClosed, Timeout, Die
<1>7. ASSUME Accept \/ Disconnect \/ Writing \/ StartAgent \/ ScriptEnds \/ StartVM
      PROVE  wire' = wire
  BY <1>7, WritingAre DEF Accept, Disconnect, StartAgent, ScriptEnds, StartVM
<1> QED
  BY <1>1, <1>2, <1>3, <1>4, <1>5, <1>6, <1>7, Steps DEF Reading

\* What is not there is there once at most.
LEMMA OnceNone ==
  ASSUME NEW s, NEW x, x \notin Elems(s)
  PROVE  Once(s, x)
  BY DEF Once, Elems

\* Who sends, or waits for the end of a script, is served.
LEMMA Served ==
  ASSUME TypeOK, WaitersAreConnected, Queue, NEW r \in Requests,
         client[r] \in {"sending", "waitend", "waitbye"}
  PROVE  conn = r
  BY DEF WaitersAreConnected, Queue, QueuedClients, Active, Waiting

\* What a client sends next, and when that is the END line.
LEMMA SendLineIs ==
  ASSUME TypeOK, ClientPlace, NEW r \in Requests, SendLine(r)
  PROVE  /\ r \in Runs /\ client[r] = "sending" /\ sent[r] \in 0..Chunks + 1
         /\ Line(KindAt(sent[r] + 2), r) \in Lines
         /\ sock' = [sock EXCEPT ![r] = Append(sock[r], Line(KindAt(sent[r] + 2), r))]
         /\ sent' = [sent EXCEPT ![r] = sent[r] + 1]
         /\ client' = [client EXCEPT ![r] = IF sent[r] = Chunks + 1 THEN "waitend" ELSE "sending"]
         /\ KindAt(sent[r] + 2) = "END" <=> sent[r] = Chunks + 1
         /\ UNCHANGED <<vm, backlog, conn, wire, out, agentVars, counters>>
<1>1. r \in Runs /\ client[r] = "sending" /\ sent[r] \in 0..Chunks + 1
  BY BoundsAssumption DEF SendLine, ClientPlace, TypeOK
<1>2. RunLines(r)[sent[r] + 1] = Line(KindAt(sent[r] + 2), r) /\ Len(RunLines(r)) = Chunks + 2
  BY <1>1, RunLinesAt
<1>3. KindAt(sent[r] + 2) \in RunKinds /\ (KindAt(sent[r] + 2) = "END" <=> sent[r] = Chunks + 1)
  BY <1>1, BoundsAssumption DEF KindAt, RunKinds
<1>4. Line(KindAt(sent[r] + 2), r) \in Lines
  BY <1>1, <1>3, LinesAre
<1>5. sent[r] + 1 = Chunks + 2 <=> sent[r] = Chunks + 1
  BY <1>1, BoundsAssumption
<1>6. client' = [client EXCEPT ![r] = IF sent[r] = Chunks + 1 THEN "waitend" ELSE "sending"]
  BY <1>1, <1>2, <1>5 DEF SendLine, TypeOK
<1> QED
  BY <1>1, <1>2, <1>3, <1>4, <1>6 DEF SendLine

\* While the END line of a script is on its way, the script has not started.
LEMMA EndIsFirstStep ==
  ASSUME TypeOK, ClientPlace, Scripts, Queue, TornInSock, OneEnd, Ends, [Next]_vars
  PROVE  EndIsFirst'
<1> USE DEF TypeOK, OneEnd, EndIsFirst
<1> DEFINE Placed(r) == Line("END", r) \in Elems(sock[r]) \cup Elems(wire)
<1>1. Runs \subseteq Requests
  BY DEF Requests
<1>2. ASSUME NEW r \in Runs, script'[r] = script[r], Placed(r)' => Placed(r),
             client[r] \in {"waitend", "dead"} /\ Placed(r)' =>
               client'[r] \in {"waitend", "dead"}
      PROVE  Placed(r)' => script'[r] = "new" /\ client'[r] \in {"waitend", "dead"}
  BY <1>2
<1>3. CASE UNCHANGED vars
  BY <1>3 DEF vars, clientVars, qemuVars, agentVars
<1>4. ASSUME NEW r \in Requests, Connect(r) PROVE EndIsFirst'
  <2>1. /\ sock' = [sock EXCEPT ![r] = <<Line("PING", r)>>] /\ UNCHANGED <<wire, script>>
        /\ client' = [client EXCEPT ![r] = "waitready"] /\ client[r] = "idle"
    BY <1>4 DEF Connect, agentVars
  <2>2. Elems(<<Line("PING", r)>>) = {Line("PING", r)} /\ Line("PING", r) # Line("END", r)
    BY DEF Elems, Line
  <2>3. \A l \in Elems(wire) : l.of # r
    BY <2>1 DEF Queue, Untouched
  <2>4. Line("END", r).of = r
    BY DEF Line
  <2>5. ~Placed(r)'
    BY <2>1, <2>2, <2>3, <2>4
  <2>6. \A q \in Runs \ {r} : sock'[q] = sock[q] /\ client'[q] = client[q]
    BY <1>1, <2>1
  <2> QED
    BY <2>1, <2>5, <2>6
<1>5. ASSUME NEW r \in Requests, SendLine(r) PROVE EndIsFirst'
  <2> DEFINE l == Line(KindAt(sent[r] + 2), r)
  <2>1. /\ r \in Runs /\ client[r] = "sending" /\ l \in Lines
        /\ sock' = [sock EXCEPT ![r] = Append(sock[r], l)]
        /\ client' = [client EXCEPT ![r] = IF sent[r] = Chunks + 1 THEN "waitend" ELSE "sending"]
        /\ UNCHANGED <<wire, script>>
    BY <1>5, SendLineIs DEF agentVars
  <2>2. l = Line("END", r) <=> sent[r] = Chunks + 1
    BY <1>5, SendLineIs DEF Line
  <2> HIDE DEF l
  <2>3. Elems(sock'[r]) = Elems(sock[r]) \cup {l}
    BY <2>1, ElemsAppend
  <2>4. \A q \in Runs \ {r} : sock'[q] = sock[q] /\ client'[q] = client[q]
    BY <1>1, <2>1
  <2>5. script[r] = "new" /\ ~Placed(r)
    BY <2>1 DEF Scripts
  <2>6. Placed(r)' => sent[r] = Chunks + 1
    BY <2>1, <2>2, <2>3, <2>5
  <2> QED
    BY <2>1, <2>4, <2>5, <2>6
<1>6. ASSUME NEW r \in Requests, SendTorn(r) PROVE EndIsFirst'
  <2> DEFINE l == Line("TORN", r)
  <2>1. /\ r \in Runs /\ client[r] = "sending" /\ l \in Lines
        /\ sock' = [sock EXCEPT ![r] = Append(sock[r], l)]
        /\ client' = [client EXCEPT ![r] = "failure"]
        /\ UNCHANGED <<wire, script>>
    BY <1>6, LinesAre DEF SendTorn, agentVars, RunKinds, ClientPlace
  <2>2. l # Line("END", r)
    BY DEF Line
  <2> HIDE DEF l
  <2>3. Elems(sock'[r]) = Elems(sock[r]) \cup {l}
    BY <2>1, ElemsAppend
  <2>4. \A q \in Runs \ {r} : sock'[q] = sock[q] /\ client'[q] = client[q]
    BY <1>1, <2>1
  <2>5. ~Placed(r)'
    BY <2>1, <2>2, <2>3
  <2> QED
    BY <2>1, <2>4, <2>5
<1>7. ASSUME NEW r \in Requests, Leaves(r) PROVE EndIsFirst'
  <2>1. /\ UNCHANGED <<wire, script, sock>>
        /\ \A q \in Runs : client'[q] = client[q] \/ client'[q] = "dead"
                          \/ client[q] \in {"broken", "waitready", "waitbye"}
    BY <1>1, <1>7 DEF Leaves, SocketClosed, Timeout, Die, qemuVars, agentVars
  <2> QED
    BY <2>1
<1>8. ASSUME NEW r \in Requests, NEW n \in 1..Len(out), Hears(r, n) PROVE EndIsFirst'
  <2>1. /\ UNCHANGED <<wire, script>> /\ Elems(Chunk(n)) \subseteq Elems(out)
        /\ \A q \in Runs \ {r} : sock'[q] = sock[q] /\ client'[q] = client[q]
    BY <1>1, <1>8, HearsAre DEF agentVars
  <2>2. r \in Runs => sock'[r] = sock[r] /\ client[r] # "dead"
    BY <1>8, HearsAre, RequestsAssumption
  <2>3. r \in Runs /\ Placed(r) => EndMarker(r) \notin Elems(out)
    BY <1>1 DEF Ends
  <2>4. r \in Runs /\ client[r] = "waitend" /\ Placed(r) => client'[r] = "waitend"
    BY <1>8, <2>1, <2>3, HearsAre DEF Answer
  <2> QED
    BY <2>1, <2>2, <2>4
<1>9. ASSUME Forward PROVE EndIsFirst'
  <2> DEFINE l == Head(sock[conn])
  <2>1. /\ UNCHANGED <<client, script>> /\ conn \in Requests
        /\ sock' = [sock EXCEPT ![conn] = Tail(sock[conn])]
        /\ Elems(sock[conn]) = {l} \cup Elems(Tail(sock[conn]))
        /\ Elems(wire') = Elems(wire) \cup {l}
    BY <1>9, ForwardIs DEF clientVars, agentVars
  <2>2. l.of = conn
    BY <2>1 DEF TornInSock
  <2> HIDE DEF l
  <2>3. \A r \in Runs : Placed(r)' => Placed(r)
    BY <1>1, <2>1, <2>2 DEF Line
  <2> QED
    BY <2>1, <2>3
<1>10. ASSUME Accept \/ Disconnect \/ Writing \/ StartAgent \/ StartVM PROVE EndIsFirst'
  BY <1>10, WritingAre DEF Accept, Disconnect, StartAgent, StartVM, clientVars, qemuVars,
     agentVars
<1>11. ASSUME ReadEnd PROVE EndIsFirst'
  <2> SUFFICES ASSUME NEW q, q = Head(wire).of PROVE EndIsFirst'
    OBVIOUS
  <2>1. /\ wire # << >> /\ UNCHANGED <<client, sock>>
        /\ wire' = Tail(wire) /\ script' = [script EXCEPT ![q] = "running"]
    BY <1>11 DEF ReadEnd, Reads, clientVars, qemuVars
  <2>2. /\ q \in Runs /\ Head(wire) = Line("END", q)
        /\ Elems(wire) = {Head(wire)} \cup Elems(Tail(wire)) /\ wire \in Seq(Lines)
    BY <1>11, <2>1, WireHead, WireElems, LinesAre DEF ReadEnd, Reads, RunKinds
  <2>3. Line("END", q) \notin Elems(Tail(wire))
    BY <2>1, <2>2, OnceTail DEF EndIsOnce
  <2>4. ~Placed(q)'
    BY <2>1, <2>2, <2>3 DEF EndIsOnce
  <2>5. \A r \in Runs \ {q} : script'[r] = script[r] /\ (Placed(r)' => Placed(r))
    BY <1>1, <2>1, <2>2
  <2> QED
    BY <2>1, <2>4, <2>5
<1>12. ASSUME Reading, ~ReadEnd PROVE EndIsFirst'
  <2>1. UNCHANGED <<client, sock, script>> /\ Elems(wire') \subseteq Elems(wire)
    BY <1>12, ReadingAre DEF Reading, ReadPing, ReadPoweroff, ReadEndFails, ReadBegin,
       ReadData, ReadTorn, ScriptReads, clientVars, qemuVars, agentVars
  <2> QED
    BY <2>1
<1>13. ASSUME ScriptEnds PROVE EndIsFirst'
  BY <1>13 DEF ScriptEnds, clientVars, qemuVars, Scripts
<1>14. ASSUME EndOfFile \/ Exit PROVE EndIsFirst'
  BY <1>14, ElemsEmpty DEF EndOfFile, Exit, clientVars, qemuVars
<1>15. ASSUME GoesDown PROVE EndIsFirst'
  BY <1>1, <1>15, ElemsEmpty DEF GoesDown
<1> QED
  BY <1>3, <1>4, <1>5, <1>6, <1>7, <1>8, <1>9, <1>10, <1>11, <1>12, <1>13, <1>14, <1>15,
     Steps
     DEF Reading

\* The END line of a script is in its socket or on the wire, and there once.
LEMMA EndIsOnceStep ==
  ASSUME TypeOK, ClientPlace, Scripts, Queue, TornInSock, OneEnd, [Next]_vars
  PROVE  EndIsOnce'
<1> USE DEF TypeOK, OneEnd, EndIsOnce
<1>1. Runs \subseteq Requests
  BY DEF Requests
<1>2. CASE UNCHANGED <<sock, wire>>
  BY <1>2
<1>3. ASSUME NEW r \in Requests, Connect(r) PROVE EndIsOnce'
  <2>1. sock' = [sock EXCEPT ![r] = <<Line("PING", r)>>] /\ wire' = wire
    BY <1>3 DEF Connect
  <2>2. Elems(<<Line("PING", r)>>) = {Line("PING", r)} /\ Line("PING", r) # Line("END", r)
    BY DEF Elems, Line
  <2>3. Line("END", r) \notin Elems(sock'[r])
    BY <2>1, <2>2
  <2>4. \A q \in Runs \ {r} : sock'[q] = sock[q]
    BY <1>1, <2>1
  <2> QED
    BY <2>1, <2>3, <2>4, OnceNone
<1>4. ASSUME NEW r \in Requests, NEW l \in Lines,
             sock' = [sock EXCEPT ![r] = Append(sock[r], l)], wire' = wire,
             r \in Runs => l # Line("END", r)
                \/ Line("END", r) \notin Elems(sock[r]) \cup Elems(wire)
      PROVE  EndIsOnce'
  <2>1. Elems(sock'[r]) = Elems(sock[r]) \cup {l}
    BY <1>4, ElemsAppend
  <2>2. \A q \in Runs \ {r} : sock'[q] = sock[q]
    BY <1>1, <1>4
  <2>3. sock[r] \in Seq(Lines) /\ sock'[r] = Append(sock[r], l)
    BY <1>4
  <2>4. r \in Runs => Once(sock'[r], Line("END", r))
    BY <1>4, <2>3, OnceAppend
  <2> QED
    BY <1>4, <2>1, <2>2, <2>4
<1>5. ASSUME NEW r \in Requests, SendLine(r) PROVE EndIsOnce'
  <2>1. /\ client[r] = "sending" /\ wire' = wire
        /\ Line(KindAt(sent[r] + 2), r) \in Lines
        /\ sock' = [sock EXCEPT ![r] = Append(sock[r], Line(KindAt(sent[r] + 2), r))]
    BY <1>5, SendLineIs
  <2> QED
    BY <1>4, <2>1 DEF EndIsFirst
<1>6. ASSUME NEW r \in Requests, SendTorn(r) PROVE EndIsOnce'
  <2>1. Line("TORN", r) \in Lines /\ Line("TORN", r) # Line("END", r)
    BY <1>6, LinesAre DEF SendTorn, ClientPlace, RunKinds, Line
  <2> QED
    BY <1>4, <1>6, <2>1 DEF SendTorn
<1>7. ASSUME NEW r \in Requests, NEW n \in 1..Len(out), Hears(r, n) PROVE EndIsOnce'
  <2>1. wire' = wire /\ \A s \in Requests \ {r} : sock'[s] = sock[s]
    BY <1>7, HearsAre
  <2>2. r \in Runs => sock'[r] = sock[r]
    BY <1>7, HearsAre, RequestsAssumption
  <2> QED
    BY <1>1, <2>1, <2>2
<1>8. ASSUME Forward PROVE EndIsOnce'
  <2> DEFINE l == Head(sock[conn])
  <2>1. /\ conn \in Requests /\ sock[conn] \in Seq(Lines) /\ sock[conn] # << >>
        /\ sock' = [sock EXCEPT ![conn] = Tail(sock[conn])]
        /\ Elems(sock[conn]) = {l} \cup Elems(Tail(sock[conn]))
        /\ wire \in Seq(Lines) /\ l \in Lines
        /\ wire' = Append(wire, l) /\ Elems(wire') = Elems(wire) \cup {l}
    BY <1>8, ForwardIs
  <2>2. l.of = conn
    BY <2>1 DEF TornInSock
  <2>3. \A r \in Runs : Line("END", r) = l => r = conn
    BY <2>2 DEF Line
  <2>4. \A r \in Runs \ {conn} : sock'[r] = sock[r]
    BY <1>1, <2>1
  <2>5. conn \in Runs =>
          /\ Once(sock'[conn], Line("END", conn))
          /\ l = Line("END", conn) => Line("END", conn) \notin Elems(sock'[conn])
    BY <2>1, OnceTail
  <2> HIDE DEF l
  <2>6. ASSUME NEW r \in Runs
        PROVE  Once(wire', Line("END", r))
    <3>1. l # Line("END", r) \/ Line("END", r) \notin Elems(wire)
      BY <2>1, <2>3
    <3> QED
      BY <2>1, <3>1, OnceAppend
  <2>7. Elems(sock'[conn]) \subseteq Elems(sock[conn])
    BY <2>1
  <2> QED
    BY <2>1, <2>3, <2>4, <2>5, <2>6, <2>7
<1>9. ASSUME Reading PROVE EndIsOnce'
  <2>1. /\ wire # << >> /\ sock' = sock /\ Elems(wire') \subseteq Elems(wire)
        /\ wire' = Tail(wire) \/ (wire' = Tail(Tail(wire)) /\ Tail(wire) # << >>)
    BY <1>9, ReadingAre DEF qemuVars
  <2>2. Tail(wire) \in Seq(Lines)
    BY <2>1
  <2>3. \A r \in Runs : Once(Tail(wire), Line("END", r))
    BY <2>1, OnceTail
  <2>4. \A r \in Runs : Once(wire', Line("END", r))
    BY <2>1, <2>2, <2>3, OnceTail
  <2> QED
    BY <2>1, <2>4
<1>10. ASSUME EndOfFile \/ Exit PROVE EndIsOnce'
  BY <1>10, ElemsEmpty DEF EndOfFile, Exit, qemuVars
<1>11. ASSUME GoesDown PROVE EndIsOnce'
  BY <1>1, <1>11, ElemsEmpty DEF GoesDown
<1>12. ASSUME \/ UNCHANGED vars \/ \E r \in Requests : Leaves(r)
              \/ Accept \/ Disconnect \/ Writing \/ StartAgent \/ ScriptEnds \/ StartVM
       PROVE  UNCHANGED <<sock, wire>>
  BY <1>12, WritingAre DEF vars, Leaves, SocketClosed, Timeout, Die, Accept, Disconnect,
     StartAgent, ScriptEnds, StartVM, qemuVars
<1> QED
  BY <1>2, <1>3, <1>5, <1>6, <1>7, <1>8, <1>9, <1>10, <1>11, <1>12, Steps DEF Reading

\* The agent's state and that of its script agree.
LEMMA ScriptsStep ==
  ASSUME TypeOK, ClientPlace, OneEnd, Scripts, [Next]_vars
  PROVE  Scripts'
<1> USE DEF TypeOK, Scripts
<1>1. NoRequest \notin Requests /\ Runs \subseteq Requests
  BY RequestsAssumption DEF Requests
<1>2. CASE UNCHANGED <<agent, current, script, client>>
  BY <1>2
<1>3. ASSUME NEW r \in Requests,
             Connect(r) \/ SendTorn(r) \/ Leaves(r)
      PROVE  Scripts'
  BY <1>3 DEF Connect, SendTorn, Leaves, SocketClosed, Timeout, Die, agentVars
<1>4. ASSUME NEW r \in Requests, SendLine(r) PROVE Scripts'
  BY <1>4, SendLineIs DEF agentVars
<1>5. ASSUME NEW r \in Requests, NEW n \in 1..Len(out), Hears(r, n) PROVE Scripts'
  <2>1. /\ UNCHANGED <<agent, current, script>>
        /\ \A s \in Requests \ {r} : client'[s] = client[s]
        /\ client'[r] \in {"idle", "waitready", "sending"} => client[r] = "waitready"
    BY <1>5, HearsAre DEF agentVars, Answer
  <2> QED
    BY <2>1
<1>6. ASSUME Writing PROVE Scripts'
  BY <1>6, WritingAre DEF clientVars
<1>7. ASSUME ReadEnd PROVE Scripts'
  <2> SUFFICES ASSUME NEW q, q = Head(wire).of PROVE Scripts'
    OBVIOUS
  <2>1. /\ agent = "reading" /\ agent' = "running" /\ current' = q /\ wire # << >>
        /\ script' = [script EXCEPT ![q] = "running"] /\ client' = client
    BY <1>7 DEF ReadEnd, Reads, clientVars
  <2>2. q \in Runs /\ Line("END", q) \in Elems(wire)
    BY <1>7, <2>1, WireHead, WireElems, LinesAre DEF ReadEnd, Reads, RunKinds
  <2>3. client[q] \in {"waitend", "dead"}
    BY <2>2 DEF OneEnd, EndIsFirst
  <2>4. q \in Requests /\ script'[q] = "running" /\ \A r \in Requests \ {q} : script'[r] = script[r]
    BY <1>1, <2>1, <2>2
  <2> QED
    BY <1>1, <2>1, <2>3, <2>4
<1>8. ASSUME Reading, ~ReadEnd PROVE Scripts'
  BY <1>8 DEF Reading, ReadPing, ReadPoweroff, ReadEndFails, ReadBegin, ReadData,
     ReadTorn, ScriptReads, Reads, clientVars, agentVars
<1>9. ASSUME ScriptEnds PROVE Scripts'
  <2>1. /\ agent = "running" /\ agent' = "ended" /\ UNCHANGED <<current, client>>
        /\ \E status \in {"zero", "nonzero"} : script' = [script EXCEPT ![current] = status]
    BY <1>9 DEF ScriptEnds, clientVars
  <2>2. current \in Requests /\ script[current] = "running"
    BY <1>1, <2>1
  <2>3. /\ script'[current] \in {"zero", "nonzero"}
        /\ \A r \in Requests \ {current} : script'[r] = script[r]
    BY <2>1, <2>2
  <2> QED
    BY <1>1, <2>1, <2>2, <2>3
<1>10. ASSUME StartAgent \/ EndOfFile \/ Exit PROVE Scripts'
  BY <1>10 DEF StartAgent, EndOfFile, Exit, clientVars
<1>11. ASSUME GoesDown PROVE Scripts'
  <2>1. /\ agent' = "down" /\ current' = NoRequest
        /\ \A r \in Requests : script'[r] = IF script[r] = "running" THEN "lost" ELSE script[r]
        /\ \A r \in Requests : client'[r] \in {"idle", "waitready", "sending"} => client[r] = "idle"
    BY <1>11 DEF GoesDown, Active, Waiting
  <2> QED
    BY <2>1
<1>12. ASSUME UNCHANGED vars \/ Accept \/ Forward \/ Disconnect \/ StartVM
       PROVE  UNCHANGED <<agent, current, script, client>>
  BY <1>12, ForwardIs DEF vars, Accept, Disconnect, StartVM, clientVars, agentVars
<1> QED
  BY <1>2, <1>3, <1>4, <1>5, <1>6, <1>7, <1>8, <1>9, <1>10, <1>11, <1>12, Steps DEF Reading

\* The markers in the agent's output say how the script ended.
LEMMA EndsStep ==
  ASSUME TypeOK, ClientPlace, WaitersAreConnected, Queue, OneEnd, Scripts, Ends, [Next]_vars
  PROVE  Ends'
<1> USE DEF TypeOK, Ends
<1>1. NoRequest \notin Requests /\ Runs \subseteq Requests
  BY RequestsAssumption DEF Requests
<1>2. CASE UNCHANGED <<client, current, script, out>>
  BY <1>2
<1>3. ASSUME NEW r \in Requests, Connect(r) \/ SendTorn(r) \/ Leaves(r) PROVE Ends'
  BY <1>1, <1>3 DEF Connect, SendTorn, Leaves, SocketClosed, Timeout, Die, agentVars
<1>4. ASSUME NEW r \in Requests, SendLine(r) PROVE Ends'
  <2>1. /\ UNCHANGED <<current, script, out>> /\ client[r] = "sending"
        /\ client'[r] \in {"sending", "waitend"}
        /\ \A s \in Requests \ {r} : client'[s] = client[s]
    BY <1>4, SendLineIs DEF agentVars
  <2> QED
    BY <1>1, <2>1 DEF Scripts
<1>5. ASSUME NEW r \in Requests, NEW n \in 1..Len(out), Hears(r, n) PROVE Ends'
  <2>1. /\ conn = r /\ UNCHANGED <<current, script>>
        /\ Elems(out) = Elems(Chunk(n)) \cup Elems(out')
        /\ \A s \in Requests \ {r} : client'[s] = client[s]
    BY <1>5, HearsAre DEF agentVars
  <2>2. client'[r] = "waitend" => client[r] = "waitend" /\ EndMarker(r) \notin Elems(Chunk(n))
    BY <1>5, HearsAre DEF Answer
  <2>3. client'[r] # "broken"
    BY <1>5, HearsAre DEF Answer
  <2>4. \A s \in Runs : client'[s] = "waitend" => s = r
    BY <1>1, <2>1, Served
  <2> QED
    BY <1>1, <2>1, <2>2, <2>3, <2>4
<1>6. ASSUME Writing PROVE Ends'
  <2>1. /\ UNCHANGED <<client, script>> /\ current' = NoRequest
        /\ agent \in {"ready", "bye", "ended"} /\ (conn = NoRequest => out' = out)
        /\ Elems(out) \subseteq Elems(out')
        /\ conn # NoRequest /\ agent = "ended" =>
             Elems(out') = Elems(out) \cup {EndMarker(current), Status(current, script[current])}
        /\ conn # NoRequest /\ agent # "ended" =>
             Elems(out') \subseteq Elems(out) \cup {Ready, Bye}
    BY <1>6, WritingAre DEF clientVars
  <2>2. \A r \in Requests : /\ EndMarker(r) \in {Ready, Bye} => FALSE
                            /\ Status(r, "zero") \in {Ready, Bye} => FALSE
    BY DEF EndMarker, Status, Ready, Bye
  <2>3. CASE conn # NoRequest /\ agent = "ended"
    <3>1. current \in Requests /\ script[current] \in {"zero", "nonzero"}
      BY <1>1, <2>3 DEF Scripts
    <3>2. \A r \in Requests :
            /\ EndMarker(r) \in {EndMarker(current), Status(current, script[current])} => r = current
            /\ Status(r, "zero") \in {EndMarker(current), Status(current, script[current])} =>
                 r = current /\ script[current] = "zero"
      BY DEF EndMarker, Status
    <3>3. Elems(out') = Elems(out) \cup {EndMarker(current), Status(current, script[current])}
      BY <2>1, <2>3
    <3>4. ASSUME NEW r \in Requests
          PROVE  /\ EndMarker(r) \in Elems(out') => script[r] \in {"zero", "nonzero"}
                 /\ Status(r, "zero") \in Elems(out') => script[r] = "zero"
      BY <3>1, <3>2, <3>3
    <3>5. ASSUME NEW r \in Runs, client[r] = "waitend", script[r] # "new"
          PROVE  EndMarker(r) \in Elems(out')
      BY <3>3, <3>5
    <3> QED
      BY <2>1, <3>4, <3>5
  <2>4. CASE agent # "ended" \/ conn = NoRequest
    <3>1. ASSUME NEW r \in Runs, client[r] = "waitend"
          PROVE  r # current
      <4>1. conn = r
        BY <1>1, <3>1, Served
      <4>2. agent # "ended"
        BY <1>1, <2>4, <3>1, <4>1
      <4>3. current = NoRequest
        BY <2>1, <4>2 DEF Scripts
      <4> QED
        BY <1>1, <4>3
    <3>2. \A r \in Requests :
            /\ EndMarker(r) \in Elems(out') => EndMarker(r) \in Elems(out)
            /\ Status(r, "zero") \in Elems(out') => Status(r, "zero") \in Elems(out)
      <4>1. Elems(out') \subseteq Elems(out) \cup {Ready, Bye}
        BY <2>1, <2>4
      <4> QED
        BY <2>2, <4>1
    <3>3. \A r \in Requests : /\ EndMarker(r) \in Elems(out) => script[r] \in {"zero", "nonzero"}
                              /\ Status(r, "zero") \in Elems(out) => script[r] = "zero"
      OBVIOUS
    <3>4. ASSUME NEW r \in Runs, client[r] = "waitend", script[r] # "new"
          PROVE  EndMarker(r) \in Elems(out')
      BY <2>1, <3>1, <3>4
    <3> QED
      BY <2>1, <3>2, <3>3, <3>4
  <2> QED
    BY <2>3, <2>4
<1>7. ASSUME ReadEnd PROVE Ends'
  <2> SUFFICES ASSUME NEW q, q = Head(wire).of PROVE Ends'
    OBVIOUS
  <2>1. /\ agent = "reading" /\ current' = q /\ wire # << >>
        /\ script' = [script EXCEPT ![q] = "running"] /\ UNCHANGED <<client, out>>
    BY <1>7 DEF ReadEnd, Reads, clientVars
  <2>2. q \in Runs /\ Line("END", q) \in Elems(wire)
    BY <1>7, <2>1, WireHead, WireElems, LinesAre DEF ReadEnd, Reads, RunKinds
  <2>3. client[q] \in {"waitend", "dead"} /\ script[q] = "new"
    BY <2>2 DEF OneEnd, EndIsFirst
  <2>4. q \in Requests /\ \A r \in Requests \ {q} : script'[r] = script[r]
    BY <1>1, <2>1, <2>2
  <2>5. current = NoRequest
    BY <2>1 DEF Scripts
  <2> QED
    BY <1>1, <2>1, <2>3, <2>4, <2>5
<1>8. ASSUME Reading, ~ReadEnd PROVE Ends'
  BY <1>8 DEF Reading, ReadPing, ReadPoweroff, ReadEndFails, ReadBegin, ReadData,
     ReadTorn, ScriptReads, clientVars, agentVars
<1>9. ASSUME ScriptEnds PROVE Ends'
  <2>1. /\ agent = "running" /\ UNCHANGED <<current, client, out>>
        /\ \E status \in {"zero", "nonzero"} : script' = [script EXCEPT ![current] = status]
    BY <1>9 DEF ScriptEnds, clientVars
  <2>2. current \in Requests /\ script[current] = "running"
    BY <1>1, <2>1 DEF Scripts
  <2>3. /\ script'[current] \in {"zero", "nonzero"}
        /\ \A r \in Requests \ {current} : script'[r] = script[r]
    BY <2>1, <2>2
  <2> QED
    BY <1>1, <2>1, <2>2, <2>3
<1>10. ASSUME Disconnect PROVE Ends'
  <2>1. /\ UNCHANGED <<client, current, script>> /\ out' = << >>
        /\ conn \in Requests /\ client[conn] \in Finished
    BY <1>10 DEF Disconnect, clientVars, agentVars
  <2>2. \A r \in Runs : client[r] # "waitend"
    BY <1>1, <2>1, Served DEF Finished
  <2> QED
    BY <2>1, <2>2, ElemsEmpty
<1>11. ASSUME GoesDown PROVE Ends'
  <2>1. /\ out' = << >>
        /\ \A r \in Requests : script'[r] # "running" /\ client'[r] # "waitend"
    BY <1>11 DEF GoesDown, Active, Waiting
  <2> QED
    BY <1>1, <2>1, ElemsEmpty
<1>12. ASSUME UNCHANGED vars \/ Accept \/ Forward \/ StartAgent \/ EndOfFile \/ Exit \/ StartVM
       PROVE  UNCHANGED <<client, current, script, out>>
  BY <1>12, ForwardIs DEF vars, Accept, StartAgent, EndOfFile, Exit, StartVM, clientVars,
     agentVars
<1> QED
  BY <1>2, <1>3, <1>4, <1>5, <1>6, <1>7, <1>8, <1>9, <1>10, <1>11, <1>12, Steps DEF Reading

\* The lines in a socket are the next ones in order.
LEMMA SockInOrderStep ==
  ASSUME TypeOK, ClientPlace, Scripts, Queue, SockInOrder, [Next]_vars
  PROVE  SockInOrder'
<1> USE DEF TypeOK
<1> DEFINE Sorted(r) ==
      /\ Len(sock[r]) <= sent[r] + 1
      /\ \A i \in DOMAIN sock[r] :
           sock[r][i] = Line(KindAt(sent[r] + 1 - Len(sock[r]) + i), r)
<1>1. Runs \subseteq Requests /\ Runs \cap Stops = {}
  BY RequestsAssumption DEF Requests
<1>2. ASSUME NEW r \in Runs, sock'[r] = sock[r], sent'[r] = sent[r],
             client'[r] \in Orderly => client[r] \in Orderly
      PROVE  client'[r] \in Orderly => Sorted(r)'
  BY <1>2 DEF SockInOrder
<1>3. ASSUME \A r \in Runs : client'[r] \in Orderly => Sorted(r)'
      PROVE  SockInOrder'
  BY <1>3 DEF SockInOrder
<1> HIDE DEF Sorted
<1>4. CASE UNCHANGED <<sock, sent, client>>
  BY <1>4 DEF SockInOrder
<1>5. ASSUME NEW r \in Requests, Connect(r) PROVE SockInOrder'
  <2>1. /\ sock' = [sock EXCEPT ![r] = <<Line("PING", r)>>] /\ sent' = sent
        /\ client[r] = "idle"
        /\ \A q \in Runs \ {r} : sock'[q] = sock[q] /\ client'[q] = client[q]
    BY <1>1, <1>5 DEF Connect
  <2>2. sent'[r] = 0 /\ sock'[r] = <<Line("PING", r)>>
    BY <2>1 DEF ClientPlace
  <2> DEFINE s == <<Line("PING", r)>>
  <2>3. Len(s) = 1 /\ DOMAIN s = 1..1 /\ s[1] = Line(KindAt(1), r)
    BY DEF KindAt
  <2>4. sock'[r] = s
    BY <2>2
  <2> HIDE DEF s
  <2>5. Sorted(r)'
    BY <2>2, <2>3, <2>4 DEF Sorted
  <2> QED
    BY <1>2, <1>3, <2>1, <2>5
<1>6. ASSUME NEW r \in Requests, SendLine(r) PROVE SockInOrder'
  <2> DEFINE l == Line(KindAt(sent[r] + 2), r)
             s == sock[r]
  <2>1. /\ r \in Runs /\ client[r] = "sending" /\ l \in Lines /\ sent[r] \in Nat
        /\ sock' = [sock EXCEPT ![r] = Append(s, l)] /\ s \in Seq(Lines)
        /\ sent' = [sent EXCEPT ![r] = sent[r] + 1]
        /\ client' = [client EXCEPT ![r] = IF sent[r] = Chunks + 1 THEN "waitend" ELSE "sending"]
    BY <1>1, <1>6, SendLineIs
  <2>2. /\ sent'[r] = sent[r] + 1
        /\ \A q \in Runs \ {r} :
             sock'[q] = sock[q] /\ client'[q] = client[q] /\ sent'[q] = sent[q]
    BY <1>1, <2>1
  <2>3. /\ Len(s) <= sent[r] + 1
        /\ \A i \in 1..Len(s) : s[i] = Line(KindAt(sent[r] + 1 - Len(s) + i), r)
    <3>1. r \in Runs /\ client[r] \in Orderly /\ DOMAIN sock[r] = 1..Len(sock[r])
      BY <2>1 DEF Orderly
    <3> HIDE DEF TypeOK
    <3> QED
      BY <3>1 DEF SockInOrder
  <2>4. sock'[r] = Append(s, l)
    BY <2>1
  <2>5. l = Line(KindAt(sent[r] + 2), r)
    OBVIOUS
  <2> HIDE DEF s, l
  <2>6. /\ Len(sock'[r]) = Len(s) + 1 /\ Len(s) \in Nat /\ sock'[r][Len(s) + 1] = l
        /\ DOMAIN sock'[r] = 1..Len(s) + 1
        /\ \A i \in 1..Len(s) : sock'[r][i] = s[i]
    BY <2>1, <2>4, AppendProperties
  <2>7. ASSUME NEW i \in 1..Len(s) + 1
        PROVE  sock'[r][i] = Line(KindAt(sent'[r] + 1 - Len(sock'[r]) + i), r)
    <3>1. sent'[r] + 1 - Len(sock'[r]) + i = sent[r] + 1 - Len(s) + i
      BY <2>1, <2>6, <2>2
    <3>2. CASE i = Len(s) + 1
      <4>1. sent[r] + 1 - Len(s) + i = sent[r] + 2
        BY <2>1, <2>6, <2>2, <3>2
      <4> QED
        BY <2>6, <2>5, <3>1, <3>2, <4>1
    <3>3. CASE i # Len(s) + 1
      <4>1. i \in 1..Len(s)
        BY <2>6, <3>3
      <4> QED
        BY <2>3, <2>6, <3>1, <4>1
    <3> QED
      BY <3>2, <3>3
  <2>8. Sorted(r)'
    <3>1. Len(sock'[r]) <= sent'[r] + 1
      BY <2>1, <2>3, <2>6, <2>2
    <3>2. \A i \in DOMAIN sock'[r] : sock'[r][i] = Line(KindAt(sent'[r] + 1 - Len(sock'[r]) + i), r)
      BY <2>6, <2>7
    <3> QED
      BY <3>1, <3>2 DEF Sorted
  <2> QED
    BY <1>2, <1>3, <2>8, <2>2
<1>7. ASSUME NEW r \in Requests, SendTorn(r) PROVE SockInOrder'
  <2>1. /\ client'[r] = "failure" /\ sent' = sent
        /\ \A q \in Runs \ {r} : sock'[q] = sock[q] /\ client'[q] = client[q]
    BY <1>1, <1>7 DEF SendTorn
  <2> QED
    BY <1>2, <1>3, <2>1 DEF Orderly
<1>8. ASSUME NEW r \in Requests, Leaves(r) PROVE SockInOrder'
  <2>1. /\ UNCHANGED <<sock, sent>>
        /\ \A q \in Runs : client'[q] \in {client[q], "failure"}
                           \/ (client'[q] = "dead" /\ client[q] \in Waiting)
    BY <1>1, <1>8 DEF Leaves, SocketClosed, Timeout, Die, Active, qemuVars
  <2>2. \A q \in Runs : client[q] \in Waiting => client[q] \in Orderly
    BY <1>1 DEF Waiting, Orderly, ClientPlace
  <2>3. \A q \in Runs : client'[q] \in Orderly => client[q] \in Orderly
    BY <2>1, <2>2 DEF Orderly
  <2> QED
    BY <1>2, <1>3, <2>1, <2>3
<1>9. ASSUME NEW r \in Requests, NEW n \in 1..Len(out), Hears(r, n) PROVE SockInOrder'
  <2>1. /\ sent' = sent /\ \A q \in Runs \ {r} : sock'[q] = sock[q] /\ client'[q] = client[q]
    BY <1>1, <1>9, HearsAre
  <2>2. r \in Runs => sock'[r] = sock[r] /\ client[r] \in {"waitready", "waitend"}
    BY <1>1, <1>9, HearsAre DEF ClientPlace
  <2> QED
    BY <1>2, <1>3, <2>1, <2>2 DEF Orderly
<1>10. ASSUME Forward PROVE SockInOrder'
  <2> DEFINE s == sock[conn]
  <2>1. /\ UNCHANGED <<client, sent>> /\ conn' = conn /\ conn \in Requests
        /\ s \in Seq(Lines) /\ s # << >> /\ sock' = [sock EXCEPT ![conn] = Tail(s)]
        /\ \A q \in Runs \ {conn} : sock'[q] = sock[q]
    BY <1>1, <1>10, ForwardIs DEF clientVars
  <2>2. conn \in Runs /\ client[conn] \in Orderly =>
          /\ Len(s) <= sent[conn] + 1
          /\ \A i \in 1..Len(s) : s[i] = Line(KindAt(sent[conn] + 1 - Len(s) + i), conn)
    BY <2>1 DEF SockInOrder
  <2>3. sock'[conn] = Tail(s)
    BY <2>1
  <2>4. \A r \in Runs : client'[r] = client[r] /\ sent'[r] = sent[r]
    BY <2>1
  <2> HIDE DEF s
  <2>5. /\ Len(Tail(s)) = Len(s) - 1 /\ DOMAIN Tail(s) = 1..Len(s) - 1 /\ Len(s) \in Nat \ {0}
        /\ \A i \in 1..Len(s) - 1 : Tail(s)[i] = s[i + 1]
    BY <2>1, NonEmpty, HeadTailProperties
  <2>6. ASSUME NEW r \in Runs, client[r] \in Orderly, r = conn
        PROVE  Sorted(r)'
    <3>1. sent[r] \in Nat /\ sent'[r] = sent[r] /\ sock'[r] = Tail(s)
      BY <1>1, <2>3, <2>4, <2>6
    <3>2. \A i \in 1..Len(s) - 1 : Tail(s)[i] = Line(KindAt(sent[r] + 1 - (Len(s) - 1) + i), r)
      <4> TAKE i \in 1..Len(s) - 1
      <4>1. i + 1 \in 1..Len(s)
        BY <2>5
      <4>2. s[i + 1] = Line(KindAt(sent[r] + 1 - Len(s) + (i + 1)), r)
        BY <2>2, <2>6, <4>1
      <4>3. i \in Int /\ Len(s) \in Int /\ sent[r] \in Int
        BY <2>5, <3>1
      <4>4. \A a, b, c \in Int : a + 1 - b + (c + 1) = a + 1 - (b - 1) + c
        OBVIOUS
      <4>5. sent[r] + 1 - Len(s) + (i + 1) = sent[r] + 1 - (Len(s) - 1) + i
        BY <4>3, <4>4
      <4>6. Tail(s)[i] = s[i + 1]
        BY <2>5
      <4> HIDE DEF TypeOK
      <4> QED
        BY <4>2, <4>5, <4>6
    <3>3. Len(s) - 1 <= sent[r] + 1
      BY <2>2, <2>5, <2>6, <3>1
    <3> QED
      BY <2>5, <3>1, <3>2, <3>3 DEF Sorted
  <2> QED
    BY <1>2, <1>3, <2>1, <2>4, <2>6
<1>11. ASSUME GoesDown PROVE SockInOrder'
  <2>1. \A r \in Runs : sock'[r] = << >> /\ sent'[r] = sent[r] /\ sent[r] \in Nat
    BY <1>1, <1>11 DEF GoesDown
  <2>2. ASSUME NEW r \in Runs
        PROVE  Sorted(r)'
    <3>1. Len(<< >>) = 0 /\ \A i \in DOMAIN << >> : FALSE
      OBVIOUS
    <3>2. Len(sock'[r]) = 0 /\ sent'[r] \in Nat
      BY <2>1, <3>1
    <3>3. \A i \in DOMAIN sock'[r] : FALSE
      BY <2>1, <3>1
    <3>4. Len(sock'[r]) <= sent'[r] + 1
      BY <3>2
    <3> QED
      BY <3>3, <3>4 DEF Sorted
  <2> QED
    BY <1>3, <2>2
<1>12. ASSUME \/ UNCHANGED vars \/ Accept \/ Disconnect \/ Writing \/ Reading \/ StartAgent
              \/ ScriptEnds \/ EndOfFile \/ Exit \/ StartVM
       PROVE  UNCHANGED <<sock, sent, client>>
  BY <1>12, WritingAre, ReadingAre DEF vars, Accept, Disconnect, StartAgent, ScriptEnds,
     EndOfFile, Exit, StartVM, clientVars, qemuVars
<1> QED
  BY <1>4, <1>5, <1>6, <1>7, <1>8, <1>9, <1>10, <1>11, <1>12, Steps DEF Reading

\* A script that has read its stdin stays one that has.
LEMMA IntactStep ==
  ASSUME TypeOK, Scripts, [Next]_vars, Intact'
  PROVE  Intact /\ ~ScriptReads
<1> USE DEF TypeOK
<1>1. StdinReaders \subseteq Requests
  BY RequestsAssumption DEF Requests
<1>2. CASE UNCHANGED script
  <2>1. Intact
    BY <1>2 DEF Intact
  <2>2. agent = "running" => script[current] = "running"
    BY DEF Scripts
  <2> QED
    BY <2>1, <2>2 DEF ScriptReads, Intact
<1>3. CASE ReadEnd \/ ScriptEnds
  <2>1. \A u \in StdinReaders : script'[u] = "new" => script[u] = "new"
    BY <1>1, <1>3 DEF ReadEnd, ScriptEnds
  <2>2. ~ScriptReads
    <3>1. ReadEnd => agent = "reading"
      BY DEF ReadEnd, Reads
    <3>2. ScriptEnds => script'[current] \in {"zero", "nonzero"}
      BY <1>1, RequestsAssumption DEF ScriptEnds, Scripts, Requests
    <3> QED
      BY <1>3, <3>1, <3>2 DEF ScriptReads, Intact
  <2> QED
    BY <2>1, <2>2 DEF Intact
<1>4. CASE GoesDown
  <2>1. \A u \in StdinReaders : script'[u] = "new" => script[u] = "new"
    BY <1>1, <1>4 DEF GoesDown
  <2>2. agent = "running" => script[current] = "running"
    BY DEF Scripts
  <2> QED
    BY <2>1, <2>2 DEF ScriptReads, Intact
<1>5. UNCHANGED script \/ ReadEnd \/ ScriptEnds \/ GoesDown
  <2>1. ASSUME NEW r \in Requests,
               Connect(r) \/ SendLine(r) \/ SendTorn(r) \/ Leaves(r)
        PROVE  UNCHANGED script
    BY <2>1 DEF Connect, SendLine, SendTorn, Leaves, SocketClosed, Timeout, Die, agentVars
  <2>2. ASSUME NEW r \in Requests, NEW n \in 1..Len(out), Hears(r, n)
        PROVE  UNCHANGED script
    BY <2>2 DEF Hears, ReceiveReady, ReceiveEnd, ReceiveBye, agentVars
  <2>3. CASE UNCHANGED vars \/ Accept \/ Forward \/ Disconnect \/ Writing
    BY <2>3, WritingAre DEF vars, Accept, Forward, Disconnect, agentVars
  <2>4. CASE \/ ReadPing \/ ReadPoweroff \/ ReadEndFails \/ ReadBegin \/ ReadData \/ ReadTorn
             \/ ScriptReads \/ StartAgent \/ EndOfFile \/ Exit \/ StartVM
    BY <2>4 DEF ReadPing, ReadPoweroff, ReadEndFails, ReadBegin, ReadData, ReadTorn,
       ScriptReads, StartAgent, EndOfFile, Exit, StartVM, agentVars
  <2> QED
    BY <2>1, <2>2, <2>3, <2>4, Steps
<1> QED
  BY <1>2, <1>3, <1>4, <1>5

\* How many lines a step of the agent reads.
Popped(k) == /\ Len(wire) - k \in Nat /\ DOMAIN wire = 1..Len(wire)
             /\ DOMAIN wire' = 1..Len(wire) - k /\ Len(wire') = Len(wire) - k
             /\ \A i \in 1..Len(wire) - k : wire'[i] = wire[i + k]
\* A step of reading takes one line, or two when one is torn.
LEMMA ReadingPops ==
  ASSUME TypeOK, Reading
  PROVE  (ReadTorn => Popped(2)) /\ (~ReadTorn => Popped(1))
<1>1. wire # << >>
  BY ReadingAre
<1>2. /\ Tail(wire) \in Seq(Lines) /\ Len(Tail(wire)) = Len(wire) - 1
      /\ DOMAIN Tail(wire) = 1..Len(wire) - 1 /\ Len(wire) \in Nat \ {0}
      /\ DOMAIN wire = 1..Len(wire)
      /\ \A i \in 1..Len(wire) - 1 : Tail(wire)[i] = wire[i + 1]
  BY <1>1, WireHead
<1>3. ~ReadTorn => wire' = Tail(wire)
  BY DEF Reading, ReadPing, ReadPoweroff, ReadEndFails, ReadBegin, ReadData, ReadEnd,
     ScriptReads
<1>4. ASSUME ~ReadTorn PROVE Popped(1)
  <2>1. Len(wire) - 1 \in Nat
    BY <1>2
  <2>2. wire' = Tail(wire)
    BY <1>3, <1>4
  <2> QED
    BY <1>2, <2>1, <2>2 DEF Popped
<1>5. CASE ReadTorn
  <2> DEFINE t == Tail(wire)
  <2>1. t \in Seq(Lines) /\ Len(t) > 0 /\ wire' = Tail(t)
    BY <1>2, <1>5 DEF ReadTorn
  <2>2. Len(t) = Len(wire) - 1 /\ \A i \in 1..Len(wire) - 1 : t[i] = wire[i + 1]
    BY <1>2
  <2> HIDE DEF t
  <2>3. t # << >>
    BY <2>1, NonEmpty
  <2>4. /\ Tail(t) \in Seq(Lines) /\ Len(Tail(t)) = Len(t) - 1
        /\ \A i \in 1..Len(t) - 1 : Tail(t)[i] = t[i + 1]
    BY <2>1, <2>3, HeadTailProperties
  <2>5. Len(t) - 1 = Len(wire) - 2 /\ Len(wire) - 2 \in Nat
    BY <1>2, <2>1, <2>2
  <2>6. /\ Len(wire') = Len(wire) - 2 /\ DOMAIN wire' = 1..Len(wire) - 2
        /\ Len(wire) - 2 \in Nat
    BY <2>1, <2>4, <2>5
  <2>7. ASSUME NEW i \in 1..Len(wire) - 2
        PROVE  wire'[i] = wire[i + 2]
    <3>1. i \in 1..Len(t) - 1 /\ i + 1 \in 1..Len(wire) - 1 /\ (i + 1) + 1 = i + 2
      BY <1>2, <2>2
    <3>2. wire'[i] = t[i + 1] /\ t[i + 1] = wire[(i + 1) + 1]
      BY <2>1, <2>2, <2>4, <3>1
    <3> QED
      BY <3>1, <3>2
  <2>8. Popped(2)
    BY <1>2, <2>6, <2>7 DEF Popped
  <2> QED
    BY <1>5, <2>8
<1> QED
  BY <1>4, <1>5

\* Lines that stand in order do so when the first of them have been read.
LEMMA PopInOrder ==
  ASSUME NEW r \in Runs, NEW n \in Int, NEW k \in {1, 2}, Popped(k), InOrder(r, n),
         file'[r] = FileAt(n + k)
  PROVE  InOrder(r, n + k)'
<1>1. ASSUME NEW i \in DOMAIN wire'
      PROVE  IF n + k + i \in 1..Chunks + 3 THEN wire'[i] = Line(KindAt(n + k + i), r)
             ELSE wire'[i].of # r
  <2>1. i \in Nat /\ i + k \in DOMAIN wire /\ wire'[i] = wire[i + k]
    BY DEF Popped
  <2>2. n + (i + k) = n + k + i
    BY <2>1
  <2>3. IF n + (i + k) \in 1..Chunks + 3 THEN wire[i + k] = Line(KindAt(n + (i + k)), r)
        ELSE wire[i + k].of # r
    BY <2>1 DEF InOrder
  <2> QED
    BY <2>1, <2>2, <2>3
<1> QED
  BY <1>1 DEF InOrder

\* The agent reads the lines of a run in their order, and its file follows.
LEMMA ReadKeepsOrder ==
  ASSUME TypeOK, Reading, ~ScriptReads, NEW r \in Runs, NEW n \in Int, InOrder(r, n),
         NEW k \in {1, 2}, IF ReadTorn THEN k = 2 ELSE k = 1
  PROVE  InOrder(r, n + k)'
<1> USE BoundsAssumption
<1>1. wire # << >> /\ 1 \in DOMAIN wire /\ Head(wire) = wire[1] /\ r \in Requests
  BY ReadingAre, WireHead DEF Requests
<1>2. Popped(k)
  BY ReadingPops
<1>3. IF n + 1 \in 1..Chunks + 3 THEN Head(wire) = Line(KindAt(n + 1), r) ELSE Head(wire).of # r
  BY <1>1 DEF InOrder
<1>4. file[r] = FileAt(n)
  BY DEF InOrder
<1>5. CASE n + 1 \notin 1..Chunks + 3
  <2>1. file'[r] = file[r]
    BY <1>1, <1>3, <1>5, ReadingAre
  <2>2. FileAt(n) = -1 /\ FileAt(n + k) = -1
    BY <1>5 DEF FileAt
  <2> QED
    BY <1>2, <1>4, <2>1, <2>2, PopInOrder
<1>6. CASE n + 1 \in 1..Chunks + 3
  <2>1. Head(wire).kind = KindAt(n + 1) /\ Head(wire).of = r
    BY <1>3, <1>6 DEF Line
  <2>2. KindAt(n + 1) \in {"PING", "BEGIN", "DATA", "END"}
    BY DEF KindAt
  <2>3. ~ReadTorn /\ ~ReadPoweroff
    BY <2>1, <2>2 DEF ReadTorn, ReadPoweroff, Reads
  <2>4. k = 1
    BY <2>3
  <2>5. file'[r] = FileAt(n + 1)
    <3>1. CASE n = 0
      <4>1. KindAt(n + 1) = "PING" /\ FileAt(n) = -1 /\ FileAt(n + 1) = -1
        BY <3>1 DEF KindAt, FileAt
      <4>2. ReadPing
        BY <2>1, <2>3, <4>1 DEF Reading, ReadBegin, ReadData, ReadEnd, ReadEndFails, Reads
      <4> QED
        BY <1>4, <4>1, <4>2 DEF ReadPing
    <3>2. CASE n = 1
      <4>1. KindAt(n + 1) = "BEGIN" /\ FileAt(n + 1) = -1
        BY <3>2 DEF KindAt, FileAt
      <4>2. ReadBegin
        BY <2>1, <2>3, <4>1 DEF Reading, ReadPing, ReadData, ReadEnd, ReadEndFails, Reads
      <4> QED
        BY <1>1, <2>1, <4>1, <4>2 DEF ReadBegin, TypeOK
    <3>3. CASE n \in 2..Chunks + 1
      <4>1. KindAt(n + 1) = "DATA" /\ FileAt(n + 1) = n - 1
        BY <3>3 DEF KindAt, FileAt
      <4>2. ReadData
        BY <2>1, <2>3, <4>1 DEF Reading, ReadPing, ReadBegin, ReadEnd, ReadEndFails, Reads
      <4>3. file'[r] = IF file[r] = -1 THEN 1 ELSE file[r] + 1
        BY <1>1, <2>1, <4>2 DEF ReadData, TypeOK
      <4>4. FileAt(n) = IF n = 2 THEN -1 ELSE n - 2
        BY <3>3 DEF FileAt
      <4> QED
        BY <1>4, <3>3, <4>1, <4>3, <4>4
    <3>4. CASE n = Chunks + 2
      <4>1. KindAt(n + 1) = "END" /\ FileAt(n) = Chunks /\ FileAt(n + 1) = -1
        BY <3>4 DEF KindAt, FileAt
      <4>2. file[r] # -1
        BY <1>4, <4>1
      <4>3. ReadEnd
        BY <2>1, <2>3, <4>1, <4>2 DEF Reading, ReadPing, ReadBegin, ReadData, ReadEndFails,
           Reads
      <4> QED
        BY <1>1, <2>1, <4>1, <4>3 DEF ReadEnd, TypeOK
    <3> QED
      BY <1>6, <3>1, <3>2, <3>3, <3>4
  <2> QED
    BY <1>2, <2>4, <2>5, PopInOrder
<1> QED
  BY <1>5, <1>6

\* Nothing is read or forwarded, and the client that is served sends the next
\* line of its own or none.
LEMMA OrderKept ==
  ASSUME UNCHANGED <<wire, file>>, ConnInOrder, EndInOrder,
         conn' \in Runs /\ client'[conn'] \in Orderly =>
           /\ conn' = conn /\ client[conn] \in Orderly
           /\ sent'[conn] + 1 - Len(sock'[conn]) - Len(wire)
                = sent[conn] + 1 - Len(sock[conn]) - Len(wire)
  PROVE  ConnInOrder' /\ EndInOrder'
<1>1. \A r \in Runs : \A n : InOrder(r, n) => InOrder(r, n)'
  BY DEF InOrder
<1>2. EndInOrder'
  BY <1>1 DEF EndInOrder
<1>3. ASSUME conn' \in Runs, client'[conn'] \in Orderly
      PROVE  InOrder(conn, sent[conn] + 1 - Len(sock[conn]) - Len(wire))'
  <2> SUFFICES ASSUME NEW r, r = conn', NEW n, n = sent'[conn'] + 1 - Len(sock'[conn']) - Len(wire')
               PROVE  InOrder(r, n)'
    OBVIOUS
  <2>1. InOrder(r, n)
    BY <1>3 DEF ConnInOrder
  <2> QED
    BY <1>1, <1>3, <2>1
<1> QED
  BY <1>2, <1>3 DEF ConnInOrder

\* What qemu forwards is the next line of who it serves.
LEMMA ForwardKeepsOrder ==
  ASSUME TypeOK, ClientPlace, Queue, TornLines, OneEnd, SockInOrder,
         ConnInOrder, EndInOrder, Forward
  PROVE  ConnInOrder' /\ EndInOrder'
<1> USE BoundsAssumption
<1>1. Runs \subseteq Requests
  BY DEF Requests
<1> SUFFICES ASSUME NEW c, c = conn
             PROVE  ConnInOrder' /\ EndInOrder'
  OBVIOUS
<1> DEFINE s == sock[c]
           l == Head(s)
           m == Len(wire)
           n == sent[c] + 1 - Len(s) - m
<1>2. /\ UNCHANGED <<client, sent, file>> /\ c \in Requests /\ conn' = c
      /\ s \in Seq(Lines) /\ s # << >> /\ l \in Lines /\ l \in Elems(s)
      /\ sock' = [sock EXCEPT ![c] = Tail(s)] /\ wire' = Append(wire, l) /\ wire \in Seq(Lines)
  BY ForwardIs DEF clientVars, agentVars
<1>3. l.of = c
  BY <1>2 DEF TornLines, TornInSock
<1>4. /\ Len(s) \in Nat \ {0} /\ Len(Tail(s)) = Len(s) - 1 /\ l = s[1] /\ 1 \in DOMAIN s
  BY <1>2, NonEmpty, HeadTailProperties
<1>5. sock'[c] = Tail(s) /\ sent[c] \in Nat /\ sent[c] <= Chunks + 2
  BY <1>2 DEF TypeOK, ClientPlace
<1>6. c \in Runs /\ client[c] \in Orderly =>
        /\ Len(s) <= sent[c] + 1 /\ l = Line(KindAt(sent[c] + 1 - Len(s) + 1), c)
        /\ InOrder(c, n)
  BY <1>2, <1>4 DEF SockInOrder, ConnInOrder
<1>7. /\ m \in Nat /\ Len(wire') = m + 1 /\ DOMAIN wire = 1..m /\ DOMAIN wire' = 1..m + 1
      /\ wire'[m + 1] = l /\ \A i \in 1..m : wire'[i] = wire[i]
  BY <1>2, AppendProperties
<1>8. Len(sock'[c]) = Len(s) - 1 /\ sent'[c] = sent[c]
  BY <1>2, <1>4, <1>5
<1> HIDE DEF s, l, m
<1>9. n \in Int /\ sent[c] + 1 - Len(s) + 1 = n + (m + 1)
  <2>1. Len(s) \in Int /\ sent[c] \in Int /\ m \in Int
    BY <1>4, <1>5, <1>7
  <2>2. \A a, b, d \in Int : a + 1 - b - d \in Int /\ a + 1 - b + 1 = a + 1 - b - d + (d + 1)
    OBVIOUS
  <2> QED
    BY <2>1, <2>2
<1>10. sent'[c] + 1 - Len(sock'[c]) - Len(wire') = n
  BY <1>4, <1>5, <1>7, <1>8
<1>11. c \in Runs /\ client[c] \in Orderly => n + (m + 1) \in 1..Chunks + 3
  <2>1. c \in Runs /\ client[c] \in Orderly => sent[c] + 1 - Len(s) + 1 \in 1..Chunks + 3
    BY <1>4, <1>5, <1>6
  <2> QED
    BY <1>9, <2>1
<1> SUFFICES ASSUME NEW cn, cn = n, NEW w, w = m
             PROVE  ConnInOrder' /\ EndInOrder'
  OBVIOUS
<1>12. ASSUME NEW r \in Runs, NEW k \in Int, InOrder(r, k),
              IF k + (w + 1) \in 1..Chunks + 3 THEN l = Line(KindAt(k + (w + 1)), r) ELSE l.of # r
       PROVE  InOrder(r, k)'
  <2>1. file'[r] = FileAt(k)
    BY <1>2, <1>12 DEF InOrder
  <2>2. ASSUME NEW i \in 1..w + 1
        PROVE  IF k + i \in 1..Chunks + 3 THEN wire'[i] = Line(KindAt(k + i), r)
               ELSE wire'[i].of # r
    <3>1. CASE i = w + 1
      BY <1>7, <1>12, <3>1
    <3>2. CASE i # w + 1
      <4>1. i \in DOMAIN wire /\ wire'[i] = wire[i]
        BY <1>7, <3>2
      <4> QED
        BY <1>12, <4>1 DEF InOrder
    <3> QED
      BY <3>1, <3>2
  <2> QED
    BY <1>7, <2>1, <2>2 DEF InOrder
<1>13. c \in Runs /\ client[c] \in Orderly => InOrder(c, cn)'
  BY <1>6, <1>9, <1>11, <1>12
<1>14. ConnInOrder'
  <2>1. conn' = c /\ client'[c] = client[c] /\ sent'[conn'] + 1 - Len(sock'[conn']) - Len(wire') = cn
    BY <1>2, <1>10
  <2> QED
    BY <1>13, <2>1 DEF ConnInOrder
<1>15. ASSUME NEW r \in Runs, NEW i \in 1..w + 1, wire'[i] = Line("END", r)
       PROVE  InOrder(r, Chunks + 3 - i)'
  <2>1. CASE i = w + 1
    <3>1. l = Line("END", r) /\ r = c /\ Line("END", r) \in Elems(sock[r])
      BY <1>2, <1>3, <1>7, <1>15, <2>1 DEF Line, s
    <3>2. client[c] \in Orderly
      BY <3>1 DEF OneEnd, EndIsFirst, Orderly
    <3>3. KindAt(cn + (w + 1)) = "END"
      BY <1>6, <1>9, <3>1, <3>2 DEF Line
    <3>4. cn + (w + 1) = Chunks + 3
      BY <1>9, <1>11, <3>1, <3>2, <3>3 DEF KindAt
    <3>5. cn = Chunks + 3 - i
      BY <1>7, <1>9, <2>1, <3>4
    <3> QED
      BY <1>13, <3>1, <3>2, <3>5
  <2>2. CASE i # w + 1
    <3>1. i \in 1..w /\ i \in DOMAIN wire /\ wire[i] = Line("END", r)
      BY <1>7, <1>15, <2>2
    <3>2. InOrder(r, Chunks + 3 - i)
      BY <3>1 DEF EndInOrder
    <3>3. Line("END", r) \in Elems(wire)
      BY <3>1 DEF Elems
    <3>4. client[r] \in Orderly
      BY <3>3 DEF OneEnd, EndIsFirst, Orderly
    <3>5. r # c
      <4> SUFFICES ASSUME r = c PROVE FALSE
        OBVIOUS
      <4>1. IF cn + i \in 1..Chunks + 3 THEN wire[i] = Line(KindAt(cn + i), c)
            ELSE wire[i].of # c
        BY <1>6, <3>1, <3>4 DEF InOrder
      <4>2. KindAt(cn + i) = "END" /\ cn + i \in 1..Chunks + 3
        BY <3>1, <4>1 DEF Line
      <4>3. cn + i = Chunks + 3
        BY <1>9, <4>2 DEF KindAt
      <4>4. cn + (w + 1) > Chunks + 3
        BY <1>7, <1>9, <3>1, <4>3
      <4> QED
        BY <1>11, <3>4, <4>4
    <3>6. l.of # r /\ Chunks + 3 - i \in Int /\ Chunks + 3 - i + (w + 1) \notin 1..Chunks + 3
      BY <1>3, <1>7, <3>1, <3>5
    <3> QED
      BY <1>12, <3>2, <3>6
  <2> QED
    BY <2>1, <2>2
<1>16. EndInOrder'
  BY <1>7, <1>15 DEF EndInOrder
<1> QED
  BY <1>14, <1>16

\* Who is accepted has sent its PING and nothing else.
LEMMA AcceptKeepsOrder ==
  ASSUME TypeOK, ClientPlace, Queue, EndInOrder, Accept
  PROVE  ConnInOrder' /\ EndInOrder'
<1> USE BoundsAssumption
<1> SUFFICES ASSUME NEW c, c = conn', NEW m, m = Len(wire)
             PROVE  ConnInOrder' /\ EndInOrder'
  OBVIOUS
<1>1. /\ UNCHANGED <<client, sent, sock, wire, file>> /\ c \in Elems(backlog) /\ c \in Requests
  BY AcceptIs DEF Queue, clientVars, agentVars
<1>2. /\ sock[c] = <<Line("PING", c)>> /\ sent[c] = 0 /\ file[c] = -1
      /\ \A l \in Elems(wire) : l.of # c
  BY <1>1 DEF Queue, QueuedClients, Untouched
<1>3. Len(sock[c]) = 1 /\ m \in Nat /\ DOMAIN wire = 1..m
  BY <1>2 DEF TypeOK
<1>4. \A r \in Runs : \A n : InOrder(r, n) => InOrder(r, n)'
  BY <1>1 DEF InOrder
<1>5. \A i \in DOMAIN wire : 0 - m + i \notin 1..Chunks + 3 /\ wire[i].of # c
  BY <1>2, <1>3 DEF Elems
<1>6. FileAt(0 - m) = -1
  BY <1>3 DEF FileAt
<1>7. InOrder(c, 0 - m)
  BY <1>2, <1>5, <1>6 DEF InOrder
<1>8. sent'[conn'] + 1 - Len(sock'[conn']) - Len(wire') = 0 - m
  BY <1>1, <1>2, <1>3
<1>9. ConnInOrder'
  BY <1>4, <1>7, <1>8 DEF ConnInOrder
<1>10. EndInOrder'
  BY <1>1, <1>4 DEF EndInOrder
<1> QED
  BY <1>9, <1>10

\* Reading keeps the order of the lines that are left.
LEMMA ReadingKeepsOrder ==
  ASSUME TypeOK, Scripts, ConnInOrder, EndInOrder, Reading, ~ScriptReads
  PROVE  ConnInOrder' /\ EndInOrder'
<1> USE BoundsAssumption
<1> SUFFICES ASSUME NEW k \in {1, 2}, IF ReadTorn THEN k = 2 ELSE k = 1,
                    NEW c, c = conn, NEW m, m = Len(wire), NEW a, a = sent[c], NEW b, b = Len(sock[c])
             PROVE  ConnInOrder' /\ EndInOrder'
  OBVIOUS
<1>1. UNCHANGED <<client, sent, sock, conn>>
  BY ReadingAre DEF clientVars, qemuVars
<1>2. Popped(k)
  BY ReadingPops
<1>3. m \in Nat /\ Len(wire') = m - k
  BY <1>2 DEF Popped, TypeOK
<1>4. ASSUME c \in Runs, client[c] \in Orderly
      PROVE  InOrder(c, a + 1 - b - m + k)'
  <2>1. a + 1 - b - m \in Int
    BY <1>3, <1>4 DEF TypeOK, Requests
  <2>2. InOrder(c, a + 1 - b - m)
    BY <1>4 DEF ConnInOrder
  <2> QED
    BY <1>4, <2>1, <2>2, ReadKeepsOrder
<1>5. ConnInOrder'
  <2>1. c \in Runs => sent'[conn'] + 1 - Len(sock'[conn']) - Len(wire') = a + 1 - b - m + k
    BY <1>1, <1>3 DEF TypeOK, Requests
  <2> QED
    BY <1>1, <1>4, <2>1 DEF ConnInOrder
<1>6. ASSUME NEW r \in Runs, NEW i \in DOMAIN wire', wire'[i] = Line("END", r)
      PROVE  InOrder(r, Chunks + 3 - i)'
  <2>1. i \in Nat /\ i + k \in DOMAIN wire /\ wire[i + k] = Line("END", r)
    BY <1>2, <1>6 DEF Popped
  <2>2. InOrder(r, Chunks + 3 - (i + k))
    BY <2>1 DEF EndInOrder
  <2>3. Chunks + 3 - (i + k) \in Int /\ Chunks + 3 - (i + k) + k = Chunks + 3 - i
    <3>1. \A x, y, z \in Int : x + 3 - (y + z) \in Int /\ x + 3 - (y + z) + z = x + 3 - y
      OBVIOUS
    <3>2. Chunks \in Int /\ i \in Int /\ k \in Int
      BY <2>1
    <3> QED
      BY <3>1, <3>2
  <2> QED
    BY <2>2, <2>3, ReadKeepsOrder
<1>7. EndInOrder'
  BY <1>6 DEF EndInOrder
<1> QED
  BY <1>5, <1>7

\* The agent only ends when it has nothing of the client that is served, or there
\* is none.
LEMMA ExitKeepsOrder ==
  ASSUME TypeOK, ClientPlace, ConnInOrder, NothingLeft, EndOfFile \/ Exit \/ GoesDown
  PROVE  ConnInOrder' /\ EndInOrder'
<1> USE BoundsAssumption
<1>1. wire' = << >> /\ \A i \in DOMAIN << >> : FALSE
  BY DEF EndOfFile, Exit, GoesDown
<1>2. EndInOrder'
  BY <1>1 DEF EndInOrder
<1>3. CASE conn' = NoRequest
  <2>1. conn' \notin Runs
    BY <1>3, RequestsAssumption DEF Requests
  <2> QED
    BY <1>2, <2>1 DEF ConnInOrder
<1>4. CASE conn' # NoRequest
  <2>1. Exit /\ conn # NoRequest /\ UNCHANGED <<client, sent, sock, conn, file>>
    BY <1>4 DEF EndOfFile, Exit, GoesDown, clientVars, qemuVars
  <2> SUFFICES ASSUME conn \in Runs, client[conn] \in Orderly, NEW c, c = conn,
                      NEW n, n = sent'[conn'] + 1 - Len(sock'[conn']) - Len(wire')
               PROVE  InOrder(c, n)'
    BY <1>2, <2>1 DEF ConnInOrder
  <2>2. sent[c] = 0 /\ Len(sock[c]) \in Nat /\ Len(wire) \in Nat /\ Len(wire') = 0
    BY <1>1, <2>1 DEF NothingLeft, Exit, TypeOK
  <2> DEFINE p == sent[c] + 1 - Len(sock[c]) - Len(wire)
  <2>3. \A b, d \in Nat : 0 + 1 - b - d \in Int /\ 0 + 1 - b - d <= 1
    OBVIOUS
  <2>4. n = 0 + 1 - Len(sock[c]) - 0 /\ p = 0 + 1 - Len(sock[c]) - Len(wire)
    BY <2>1, <2>2
  <2>5. p \in Int /\ p <= 1 /\ n \in Int /\ n <= 1
    BY <2>2, <2>3, <2>4
  <2>6. file[c] = FileAt(p)
    BY DEF ConnInOrder, InOrder
  <2> HIDE DEF p
  <2>7. FileAt(p) = -1 /\ FileAt(n) = -1
    BY <2>5 DEF FileAt
  <2> QED
    BY <1>1, <2>1, <2>6, <2>7 DEF InOrder
<1> QED
  BY <1>3, <1>4

\* The lines on the wire stay in order.
LEMMA WireInOrderStep ==
  ASSUME TypeOK, ClientPlace, WaitersAreConnected, Queue, TornLines, OneEnd, Scripts,
         SockInOrder, WireInOrder, AgentKeepsLines, [Next]_vars
  PROVE  WireInOrder'
<1> SUFFICES ASSUME Intact' PROVE ConnInOrder' /\ EndInOrder'
  BY DEF WireInOrder
<1>1. ConnInOrder /\ EndInOrder /\ NothingLeft /\ ~ScriptReads
  BY IntactStep DEF WireInOrder, AgentKeepsLines
<1>2. NoRequest \notin Runs
  BY RequestsAssumption DEF Requests
<1> DEFINE Goal == ConnInOrder' /\ EndInOrder'
<1> USE DEF TypeOK
<1>3. ASSUME NEW r \in Requests, Connect(r) PROVE Goal
  <2>1. conn # r
    BY <1>3 DEF Connect, Queue, Untouched
  <2>2. conn \in Runs => client'[conn] = client[conn] /\ sock'[conn] = sock[conn]
    BY <1>3, <2>1 DEF Connect, Requests
  <2>3. UNCHANGED <<wire, file, conn, sent>>
    BY <1>3 DEF Connect, agentVars
  <2> QED
    BY <1>1, <2>2, <2>3, OrderKept
<1>4. ASSUME NEW r \in Requests, SendLine(r) PROVE Goal
  <2> DEFINE l == Line(KindAt(sent[r] + 2), r)
  <2>1. /\ UNCHANGED <<wire, file, conn>> /\ client[r] = "sending"
        /\ sock' = [sock EXCEPT ![r] = Append(sock[r], l)] /\ l \in Lines
        /\ sent' = [sent EXCEPT ![r] = sent[r] + 1]
    BY <1>4, SendLineIs DEF agentVars
  <2> HIDE DEF l
  <2>2. conn = r
    BY <2>1, Served
  <2>3. /\ sent'[r] = sent[r] + 1 /\ sent[r] \in Int /\ sock'[r] = Append(sock[r], l)
        /\ sock[r] \in Seq(Lines)
    BY <2>1
  <2>4. Len(sock'[r]) = Len(sock[r]) + 1 /\ Len(sock[r]) \in Int /\ Len(wire) \in Int
    BY <2>1, <2>3
  <2>5. \A a, b, d \in Int : a + 1 + 1 - (b + 1) - d = a + 1 - b - d
    OBVIOUS
  <2>6. sent'[conn] + 1 - Len(sock'[conn]) - Len(wire) = sent[conn] + 1 - Len(sock[conn]) - Len(wire)
    BY <2>2, <2>3, <2>4, <2>5
  <2> QED
    BY <1>1, <2>1, <2>2, <2>6, OrderKept DEF Orderly
<1>5. ASSUME NEW r \in Requests, SendTorn(r) PROVE Goal
  <2>1. conn = r
    BY <1>5, Served DEF SendTorn
  <2>2. UNCHANGED <<wire, file, conn>> /\ client'[r] = "failure"
    BY <1>5 DEF SendTorn, agentVars
  <2> QED
    BY <1>1, <2>1, <2>2, OrderKept DEF Orderly
<1>6. ASSUME NEW r \in Requests, Leaves(r) PROVE Goal
  <2>1. UNCHANGED <<wire, file, conn, sent, sock>>
    BY <1>6 DEF Leaves, SocketClosed, Timeout, Die, agentVars, qemuVars
  <2>2. ASSUME conn \in Runs, client'[conn] \in Orderly
        PROVE  client[conn] \in Orderly
    <3>1. client[conn] # "waitbye"
      BY <2>2, RequestsAssumption DEF ClientPlace, Requests
    <3> QED
      BY <1>6, <2>2, <3>1 DEF Leaves, SocketClosed, Timeout, Die, Active, Waiting, Orderly,
         Requests
  <2> QED
    BY <1>1, <2>1, <2>2, OrderKept
<1>7. ASSUME NEW r \in Requests, NEW n \in 1..Len(out), Hears(r, n) PROVE Goal
  <2>1. /\ UNCHANGED <<wire, file, conn, sent>> /\ conn = r
    BY <1>7, HearsAre DEF agentVars
  <2>2. conn \in Runs => sock'[conn] = sock[conn] /\ client[conn] \in Orderly
    BY <1>7, <2>1, HearsAre, RequestsAssumption DEF Orderly, ClientPlace
  <2> QED
    BY <1>1, <2>1, <2>2, OrderKept
<1>8. ASSUME Accept PROVE Goal
  BY <1>1, <1>8, AcceptKeepsOrder
<1>9. ASSUME Forward PROVE Goal
  BY <1>1, <1>9, ForwardKeepsOrder
<1>10. ASSUME Disconnect PROVE Goal
  BY <1>1, <1>2, <1>10, OrderKept DEF Disconnect, agentVars
<1>11. ASSUME Reading PROVE Goal
  BY <1>1, <1>11, ReadingKeepsOrder
<1>12. ASSUME EndOfFile \/ Exit \/ GoesDown PROVE Goal
  BY <1>1, <1>12, ExitKeepsOrder
<1>13. ASSUME UNCHANGED vars \/ Writing \/ StartAgent \/ ScriptEnds \/ StartVM PROVE Goal
  <2>1. UNCHANGED <<wire, file, conn, sent, sock, client>>
    BY <1>13, WritingAre DEF vars, StartAgent, ScriptEnds, StartVM, agentVars, qemuVars,
       clientVars
  <2> QED
    BY <1>1, <2>1, OrderKept
<1> QED
  BY <1>3, <1>4, <1>5, <1>6, <1>7, <1>8, <1>9, <1>10, <1>11, <1>12, <1>13, Steps DEF Reading

\* The agent has the whole of a script when it reads the END line.
LEMMA WholeAtEnd ==
  ASSUME TypeOK, EndInOrder, Reads("END")
  PROVE  /\ Head(wire).of \in Runs /\ Head(wire) = Line("END", Head(wire).of)
         /\ file[Head(wire).of] = Chunks
<1> SUFFICES ASSUME NEW q, q = Head(wire).of
             PROVE  q \in Runs /\ Head(wire) = Line("END", q) /\ file[q] = Chunks
  OBVIOUS
<1>1. /\ wire # << >> /\ q \in Runs /\ wire[1] = Line("END", q) /\ 1 \in DOMAIN wire
      /\ Head(wire) = wire[1]
  BY WireHead, LinesAre DEF Reads, RunKinds
<1>2. InOrder(q, Chunks + 3 - 1)
  BY <1>1 DEF EndInOrder
<1>3. FileAt(Chunks + 3 - 1) = Chunks
  BY BoundsAssumption DEF FileAt
<1> QED
  BY <1>1, <1>2, <1>3 DEF InOrder

\* The agent goes only while the connected client has sent no line of a script.
LEMMA NothingLeftStep ==
  ASSUME TypeOK, ClientPlace, WaitersAreConnected, Queue, Scripts, EndInOrder, NothingLeft,
         ~ScriptReads, [Next]_vars
  PROVE  NothingLeft'
<1> USE DEF TypeOK, NothingLeft
<1>1. ASSUME conn \in Requests, agent \in {"exiting", "down"}
      PROVE  Len(out) = 0 /\ \A n \in 1..Len(out) : FALSE
  BY <1>1, RequestsAssumption
<1>2. ASSUME NEW r \in Requests, Connect(r) PROVE NothingLeft'
  <2>1. conn # r
    BY <1>2 DEF Connect, Queue, Untouched
  <2> QED
    BY <1>2, <2>1, RequestsAssumption DEF Connect, agentVars
<1>3. ASSUME NEW r \in Requests, SendLine(r) \/ SendTorn(r) PROVE NothingLeft'
  <2>1. client[r] = "sending" /\ UNCHANGED <<agent, conn>>
    BY <1>3 DEF SendLine, SendTorn, agentVars
  <2>2. conn = r /\ conn # NoRequest
    BY <2>1, Served, RequestsAssumption
  <2> QED
    BY <2>1, <2>2
<1>4. ASSUME NEW r \in Requests, NEW n \in 1..Len(out), Hears(r, n) PROVE NothingLeft'
  <2>1. conn = r /\ conn # NoRequest /\ UNCHANGED agent
    BY <1>4, HearsAre, RequestsAssumption DEF agentVars
  <2>2. agent \notin {"exiting", "down"}
    BY <1>1, <1>4, <2>1
  <2> QED
    BY <2>1, <2>2
<1>5. ASSUME NEW r \in Requests, Leaves(r) PROVE NothingLeft'
  BY <1>5 DEF Leaves, SocketClosed, Timeout, Die, agentVars, qemuVars
<1>6. ASSUME Accept PROVE NothingLeft'
  <2>1. /\ UNCHANGED <<agent, out, sent, client>> /\ conn = NoRequest
        /\ conn' \in Elems(backlog) /\ conn' \in Requests
    BY <1>6, AcceptIs DEF Queue, clientVars, agentVars
  <2> QED
    BY <2>1 DEF Queue, QueuedClients, Untouched
<1>7. ASSUME Forward PROVE NothingLeft'
  BY <1>7, ForwardIs DEF clientVars, agentVars
<1>8. ASSUME Writing PROVE NothingLeft'
  BY <1>8, WritingAre
<1>9. ASSUME Reading PROVE NothingLeft'
  <2>1. agent' \in {"exiting", "down"} => ReadEndFails
    BY <1>9 DEF Reading, ReadPing, ReadPoweroff, ReadBegin, ReadData, ReadTorn, ReadEnd,
       Reads
  <2>2. ~ReadEndFails
    BY WholeAtEnd, BoundsAssumption DEF ReadEndFails
  <2> QED
    BY <2>1, <2>2
<1>10. ASSUME EndOfFile \/ GoesDown \/ Disconnect PROVE NothingLeft'
  BY <1>10 DEF EndOfFile, GoesDown, Disconnect, qemuVars
<1>11. ASSUME Exit PROVE NothingLeft'
  BY <1>11 DEF Exit, clientVars, qemuVars
<1>12. ASSUME UNCHANGED vars \/ StartAgent \/ ScriptEnds \/ StartVM PROVE NothingLeft'
  BY <1>12 DEF vars, StartAgent, ScriptEnds, StartVM, clientVars, qemuVars, agentVars
<1> QED
  BY <1>2, <1>3, <1>4, <1>5, <1>6, <1>7, <1>8, <1>9, <1>10, <1>11, <1>12, Steps DEF Reading

\* The END line of a script that is awaited is on its way until the script starts.
LEMMA EndIsKeptStep ==
  ASSUME TypeOK, ClientPlace, WaitersAreConnected, Queue, TornLines, Scripts, EndInOrder,
         NothingLeft, EndIsKept, ~ScriptReads, [Next]_vars
  PROVE  EndIsKept'
<1> USE DEF TypeOK, EndIsKept
<1>1. Runs \subseteq Requests /\ NoRequest \notin Requests
  BY RequestsAssumption DEF Requests
<1>2. CASE UNCHANGED <<client, script, sock, wire>>
  BY <1>2
<1>3. ASSUME NEW r \in Requests, Connect(r) \/ SendTorn(r) PROVE EndIsKept'
  <2>1. /\ UNCHANGED <<script, wire>> /\ client'[r] # "waitend"
        /\ \A q \in Runs \ {r} : client'[q] = client[q] /\ sock'[q] = sock[q]
    BY <1>1, <1>3 DEF Connect, SendTorn, agentVars
  <2> QED
    BY <2>1
<1>4. ASSUME NEW r \in Requests, SendLine(r) PROVE EndIsKept'
  <2> DEFINE l == Line(KindAt(sent[r] + 2), r)
  <2>1. /\ UNCHANGED <<script, wire>> /\ r \in Runs /\ client[r] = "sending" /\ l \in Lines
        /\ client' = [client EXCEPT ![r] = IF sent[r] = Chunks + 1 THEN "waitend" ELSE "sending"]
        /\ sock' = [sock EXCEPT ![r] = Append(sock[r], l)]
    BY <1>4, SendLineIs DEF agentVars
  <2>2. sent[r] = Chunks + 1 => l = Line("END", r)
    BY <1>4, SendLineIs
  <2> HIDE DEF l
  <2>3. Elems(sock'[r]) = Elems(sock[r]) \cup {l}
    BY <2>1, ElemsAppend
  <2>4. client'[r] = "waitend" => sent[r] = Chunks + 1
    BY <2>1
  <2>5. \A q \in Runs \ {r} : client'[q] = client[q] /\ sock'[q] = sock[q]
    BY <1>1, <2>1
  <2> QED
    BY <2>1, <2>2, <2>3, <2>4, <2>5
<1>5. ASSUME NEW r \in Requests, Leaves(r) PROVE EndIsKept'
  <2>1. /\ UNCHANGED <<script, wire, sock>>
        /\ \A q \in Runs : client'[q] = "waitend" => client[q] = "waitend"
    BY <1>1, <1>5 DEF Leaves, SocketClosed, Timeout, Die, qemuVars, agentVars
  <2> QED
    BY <2>1
<1>6. ASSUME NEW r \in Requests, NEW n \in 1..Len(out), Hears(r, n) PROVE EndIsKept'
  <2>1. /\ UNCHANGED <<script, wire>>
        /\ \A q \in Runs \ {r} : client'[q] = client[q] /\ sock'[q] = sock[q]
        /\ r \in Runs => sock'[r] = sock[r]
        /\ client'[r] = "waitend" => client[r] = "waitend"
    BY <1>1, <1>6, HearsAre, RequestsAssumption DEF agentVars
  <2> QED
    BY <2>1
<1>7. ASSUME Forward PROVE EndIsKept'
  <2> DEFINE l == Head(sock[conn])
  <2>1. /\ UNCHANGED <<client, script>> /\ conn \in Requests
        /\ sock' = [sock EXCEPT ![conn] = Tail(sock[conn])]
        /\ Elems(sock[conn]) = {l} \cup Elems(Tail(sock[conn]))
        /\ Elems(wire') = Elems(wire) \cup {l}
    BY <1>7, ForwardIs DEF clientVars, agentVars
  <2> HIDE DEF l
  <2>2. \A q \in Runs : Elems(sock[q]) \cup Elems(wire) \subseteq Elems(sock'[q]) \cup Elems(wire')
    BY <1>1, <2>1
  <2> QED
    BY <2>1, <2>2
<1>8. ASSUME Reading PROVE EndIsKept'
  <2>1. /\ UNCHANGED <<client, sock>> /\ wire # << >>
        /\ Elems(wire) = {Head(wire)} \cup Elems(Tail(wire)) /\ Tail(wire) \in Seq(Lines)
    BY <1>8, ReadingAre, WireElems DEF clientVars, qemuVars
  <2>2. CASE ReadEnd
    <3> SUFFICES ASSUME NEW q, q = Head(wire).of PROVE EndIsKept'
      OBVIOUS
    <3>1. Head(wire) = Line("END", q) /\ q \in Runs
      BY <2>2, WholeAtEnd DEF ReadEnd
    <3>2. /\ wire' = Tail(wire) /\ script'[q] = "running"
          /\ \A r \in Runs \ {q} : script'[r] = script[r]
      BY <1>1, <2>2, <3>1 DEF ReadEnd
    <3>3. \A r \in Runs \ {q} : Line("END", r) # Head(wire)
      <4>1. \A r \in Runs : Line("END", r).of = r
        BY DEF Line
      <4> QED
        BY <3>1, <4>1
    <3> QED
      BY <2>1, <3>2, <3>3
  <2>3. CASE ReadTorn
    <3>1. /\ Head(wire).kind = "TORN" /\ wire' = Tail(Tail(wire)) /\ Len(wire) > 1
          /\ UNCHANGED script
      BY <2>3 DEF ReadTorn, Reads
    <3>2. Head(wire) = wire[1] /\ Tail(wire)[1] = wire[2] /\ Len(Tail(wire)) > 0 /\ Len(wire) \in Nat
      BY <2>1, <3>1, WireHead
    <3>3. wire[2].kind = "PING"
      BY <3>1, <3>2 DEF TornLines, PingAfterTorn
    <3> DEFINE t == Tail(wire)
    <3>4. t \in Seq(Lines) /\ Len(t) > 0 /\ t[1].kind = "PING" /\ wire' = Tail(t)
          /\ Elems(wire) = {Head(wire)} \cup Elems(t)
      BY <2>1, <3>1, <3>2, <3>3
    <3> HIDE DEF t
    <3>5. t # << >> /\ Elems(t) = {Head(t)} \cup Elems(Tail(t)) /\ Head(t) = t[1]
      BY <3>4, NonEmpty, ElemsTail
    <3>6. ASSUME NEW r \in Runs, Line("END", r) \in Elems(wire)
          PROVE  Line("END", r) \in Elems(wire')
      <4>1. Line("END", r) # Head(wire) /\ Line("END", r) # Head(t)
        BY <3>1, <3>4, <3>5 DEF Line
      <4> QED
        BY <3>4, <3>5, <3>6, <4>1
    <3> QED
      BY <2>1, <3>1, <3>6
  <2>4. CASE ReadPing \/ ReadPoweroff \/ ReadBegin \/ ReadData
    <3>1. /\ Head(wire).kind # "END" /\ wire' = Tail(wire) /\ UNCHANGED script
      BY <2>4 DEF ReadPing, ReadPoweroff, ReadBegin, ReadData, Reads
    <3>2. \A r \in Runs : Line("END", r) # Head(wire)
      <4>1. \A r \in Runs : Line("END", r).kind = "END"
        BY DEF Line
      <4> QED
        BY <3>1, <4>1
    <3> QED
      BY <2>1, <3>1, <3>2
  <2>5. ~ReadEndFails
    BY WholeAtEnd, BoundsAssumption DEF ReadEndFails
  <2> QED
    BY <1>8, <2>2, <2>3, <2>4, <2>5 DEF Reading
<1>9. ASSUME ScriptEnds PROVE EndIsKept'
  <2>1. /\ UNCHANGED <<client, sock, wire>> /\ current \in Runs
        /\ \A r \in Runs : script'[r] = "new" => script[r] = "new"
    BY <1>1, <1>9 DEF ScriptEnds, Scripts, clientVars, qemuVars
  <2> QED
    BY <2>1
<1>10. ASSUME EndOfFile \/ Exit PROVE EndIsKept'
  <2>1. UNCHANGED <<client, sock, script, conn>>
    BY <1>10 DEF EndOfFile, Exit, clientVars, qemuVars
  <2>2. ASSUME NEW r \in Runs, client[r] = "waitend"
        PROVE  FALSE
    <3>1. conn = r
      BY <1>1, <2>2, Served
    <3>2. ~EndOfFile
      BY <1>1, <3>1 DEF EndOfFile
    <3>3. ~Exit
      BY <1>1, <2>2, <3>1 DEF Exit, NothingLeft
    <3> QED
      BY <1>10, <3>2, <3>3
  <2> QED
    BY <2>1, <2>2
<1>11. ASSUME GoesDown PROVE EndIsKept'
  BY <1>1, <1>11 DEF GoesDown, Active, Waiting
<1>12. ASSUME UNCHANGED vars \/ Accept \/ Disconnect \/ Writing \/ StartAgent \/ StartVM
       PROVE  UNCHANGED <<client, script, sock, wire>>
  BY <1>12, WritingAre DEF vars, Accept, Disconnect, StartAgent, StartVM, clientVars,
     qemuVars, agentVars
<1> QED
  BY <1>2, <1>3, <1>4, <1>5, <1>6, <1>7, <1>8, <1>9, <1>10, <1>11, <1>12, Steps DEF Reading

\* While no script takes lines from the agent's input, it gets all of them.
LEMMA AgentKeepsLinesStep ==
  ASSUME TypeOK, ClientPlace, WaitersAreConnected, Queue, TornLines, Scripts, WireInOrder,
         AgentKeepsLines, [Next]_vars
  PROVE  AgentKeepsLines'
<1> SUFFICES ASSUME Intact' PROVE NothingLeft' /\ EndIsKept'
  BY DEF AgentKeepsLines
<1>1. ~ScriptReads /\ EndInOrder /\ NothingLeft /\ EndIsKept
  BY IntactStep DEF WireInOrder, AgentKeepsLines
<1> QED
  BY <1>1, NothingLeftStep, EndIsKeptStep

\* A run whose lines nobody takes finds them all, as long as it is new itself.
LEMMA NobodyTakes ==
  ASSUME NEW r \in Runs, script[r] = "new", ~MayLoseLines(r)
  PROVE  Intact
  BY DEF MayLoseLines, Intact

\* A script is started when its file is whole.
LEMMA WholeScriptsStep ==
  ASSUME TypeOK, OneEnd, WireInOrder, OnlyWholeScriptsRun, [Next]_vars
  PROVE  OnlyWholeScriptsRun'
<1>1. CASE ReadEnd
  <2> SUFFICES ASSUME NEW q, q = Head(wire).of PROVE OnlyWholeScriptsRun'
    OBVIOUS
  <2>1. q \in Runs /\ Line("END", q) \in Elems(wire)
    BY <1>1, WireHead, WireElems, LinesAre DEF ReadEnd, Reads, RunKinds
  <2>2. script[q] = "new"
    BY <2>1 DEF OneEnd, EndIsFirst
  <2>3. truncated' = IF file[q] = Chunks THEN truncated ELSE truncated \cup {q}
    BY <1>1 DEF ReadEnd
  <2>4. ~MayLoseLines(q) => file[q] = Chunks
    BY <1>1, <2>1, <2>2, NobodyTakes, WholeAtEnd DEF WireInOrder, ReadEnd
  <2> QED
    BY <2>3, <2>4 DEF OnlyWholeScriptsRun
<1>2. CASE UNCHANGED truncated
  BY <1>2 DEF OnlyWholeScriptsRun
<1>3. ReadEnd \/ UNCHANGED truncated
  <2>1. ASSUME NEW r \in Requests, ClientStep(r) \/ Timeout(r) \/ SendTorn(r) \/ Die(r)
        PROVE  UNCHANGED truncated
    BY <2>1 DEF ClientStep, Connect, SendLine, SocketClosed, ReceiveReady, ReceiveEnd,
       ReceiveBye, Timeout, SendTorn, Die, agentVars
  <2>2. CASE QemuStep \/ ScriptReads \/ PowerDown \/ Crash \/ StartVM \/ UNCHANGED vars
    BY <2>2 DEF QemuStep, Accept, Forward, Disconnect, ScriptReads, PowerDown, Crash,
       GoesDown, StartVM, agentVars, vars
  <2>3. CASE AgentStep
    BY <2>3 DEF AgentStep, StartAgent, WriteReady, ReadPing, ReadBegin, ReadData, ReadTorn,
       ReadEndFails, ReadPoweroff, WriteBye, ScriptEnds, WriteEnd, EndOfFile, Exit,
       agentVars
  <2> QED
    BY <2>1, <2>2, <2>3 DEF Next
<1> QED
  BY <1>1, <1>2, <1>3
-----------------------------------------------------------------------------
(***************************************************************************)
(* The inductive invariant, and what follows from it.                      *)
(***************************************************************************)
\* The strengthening holds before the first call.
LEMMA IInvInit == Init => IInv
<1> SUFFICES ASSUME Init PROVE IInv
  OBVIOUS
<1>1. /\ Runs \subseteq Requests /\ NoRequest \notin Requests
      /\ \A S : << >> \in Seq(S)
      /\ Len(<< >>) = 0 /\ \A i \in DOMAIN << >> : FALSE
  BY RequestsAssumption DEF Requests
<1>2. TypeOK
  BY <1>1 DEF Init, TypeOK
<1>3. ClientPlace
  BY BoundsAssumption DEF Init, ClientPlace
<1>4. WaitersAreConnected
  BY DEF Init, WaitersAreConnected, Active, Waiting
<1>5. Queue
  BY <1>1, ElemsEmpty
     DEF Init, Queue, BacklogOnce, QueuedClients, IdleClients, Untouched
<1>6. TornLines
  BY <1>1, ElemsEmpty DEF Init, TornLines, TornInSock, TornInWire, PingFirst, PingAfterTorn
<1>7. OneEnd
  BY <1>1, ElemsEmpty DEF Init, OneEnd, EndIsFirst, EndIsOnce
<1>8. Scripts
  BY <1>1 DEF Init, Scripts
<1>9. Ends
  BY <1>1, ElemsEmpty DEF Init, Ends
<1>10. SockInOrder
  BY <1>1 DEF Init, SockInOrder, Orderly
<1>11. WireInOrder
  BY <1>1 DEF Init, WireInOrder, ConnInOrder, EndInOrder
<1>12. AgentKeepsLines
  BY <1>1 DEF Init, AgentKeepsLines, NothingLeft, EndIsKept
<1>13. OnlyWholeScriptsRun
  BY DEF Init, OnlyWholeScriptsRun
<1> QED
  BY <1>2, <1>3, <1>4, <1>5, <1>6, <1>7, <1>8, <1>9, <1>10, <1>11, <1>12, <1>13 DEF IInv

\* Every step of a client, of qemu or of the agent keeps the strengthening.
LEMMA IInvStep == IInv /\ [Next]_vars => IInv'
<1> SUFFICES ASSUME IInv, [Next]_vars PROVE IInv'
  OBVIOUS
<1>1. /\ TypeOK /\ ClientPlace /\ WaitersAreConnected /\ Queue /\ TornLines /\ OneEnd /\ Scripts
      /\ Ends /\ SockInOrder /\ WireInOrder /\ AgentKeepsLines /\ OnlyWholeScriptsRun
      /\ BacklogOnce /\ TornInSock /\ TornInWire /\ PingFirst
  BY DEF IInv, Queue, TornLines
<1>2. TypeOK' /\ ClientPlace' /\ WaitersAreConnected'
  BY <1>1, TypeStep, PlaceStep, WaitersStep
<1>3. Queue'
  BY <1>1, QueueStep, UntouchedStep DEF Queue
<1>4. TornLines'
  BY <1>1, TornInSockStep, TornInWireStep, PingFirstStep, PingAfterTornStep DEF TornLines
<1>5. OneEnd'
  BY <1>1, EndIsFirstStep, EndIsOnceStep DEF OneEnd
<1>6. Scripts' /\ Ends'
  BY <1>1, ScriptsStep, EndsStep
<1>7. SockInOrder' /\ WireInOrder' /\ AgentKeepsLines' /\ OnlyWholeScriptsRun'
  BY <1>1, SockInOrderStep, WireInOrderStep, AgentKeepsLinesStep, WholeScriptsStep
<1> QED
  BY <1>2, <1>3, <1>4, <1>5, <1>6, <1>7 DEF IInv

\* The strengthening is an invariant.
LEMMA Invariant == Spec => []IInv
  BY IInvInit, IInvStep, PTL DEF Spec

\* A client that waits is the one qemu serves or in its queue: no connection is
\* forgotten when one before it leaves, dies or the VM goes down (_connect).
THEOREM Connected == Spec => []WaitersAreConnected
  BY Invariant, PTL DEF IInv

\* A script is started with all its lines, unless the script of another request
\* reads its stdin (_send_payload, run_b64_command): sends that fail half way,
\* clients that die and agents that exit never cut one short.
THEOREM WholeScripts == Spec => []OnlyWholeScriptsRun
  BY Invariant, PTL DEF IInv

\* The wait of _run_agent_script, which has no timeout, is for something: the
\* END line is under way, the script runs, or its end marker can be received.
THEOREM EndIsUnderWay == Spec => []EndIsComing
<1>1. ASSUME IInv, NEW r \in Runs, client[r] = "waitend", ~MayLoseLines(r)
      PROVE  \/ Line("END", r) \in Elems(sock[r]) \cup Elems(wire)
             \/ current = r
             \/ EndMarker(r) \in Elems(out)
  <2>1. CASE script[r] = "new"
    BY <1>1, <2>1, NobodyTakes DEF IInv, AgentKeepsLines, EndIsKept
  <2>2. CASE script[r] # "new"
    BY <1>1, <2>2 DEF IInv, Ends
  <2> QED
    BY <2>1, <2>2
<1>2. IInv => EndIsComing
  BY <1>1 DEF EndIsComing
<1> QED
  BY <1>2, Invariant, PTL

\* Whatever fails, a client that waits is connected, and waits for something.
THEOREM NoVainWait == Spec => []NobodyWaitsInVain
  BY Connected, EndIsUnderWay, PTL DEF NobodyWaitsInVain
-----------------------------------------------------------------------------
(***************************************************************************)
(* The channel implements the call.                                        *)
(***************************************************************************)
Told(r) == IF client[r] \in {"success", "failure"} THEN client[r] ELSE "none"

\* What the caller sees of a step that leaves scripts and answers alone.
LEMMA NothingSeen ==
  ASSUME \A r \in Runs : script'[r] = script[r] /\ Told(r)' = Told(r)
  PROVE  UNCHANGED RPC!vars
  BY DEF RPC!vars, Told

\* An answer to a client is a step of AgentRPC.
LEMMA AnswerSeen ==
  ASSUME NEW r \in Runs, Told(r) = "none",
         \A q \in Runs : script'[q] = script[q],
         \A q \in Runs \ {r} : Told(q)' = Told(q),
         \/ Told(r)' = "success" /\ script[r] = "zero"
         \/ Told(r)' = "failure" /\ script[r] # "running"
  PROVE  RPC!Next
  BY DEF RPC!Next, RPC!Succeed, RPC!Fail, Told

\* The start and the end of a script are steps of AgentRPC.
LEMMA ScriptSeen ==
  ASSUME NEW r \in Runs,
         \A q \in Runs \ {r} : script'[q] = script[q],
         \A q \in Runs : Told(q)' = Told(q),
         \/ Told(r) = "none" /\ script[r] = "new" /\ script'[r] = "running"
         \/ script[r] = "running" /\ script'[r] \in {"zero", "nonzero", "lost"}
  PROVE  RPC!Next
<1> DEFINE S == [q \in Runs |-> script[q]]
           A == [q \in Runs |-> Told(q)]
<1>1. A' = A /\ S[r] = script[r] /\ A[r] = Told(r)
  OBVIOUS
<1>2. S' = [S EXCEPT ![r] = script'[r]]
  OBVIOUS
<1>3. CASE Told(r) = "none" /\ script[r] = "new" /\ script'[r] = "running"
  BY <1>1, <1>2, <1>3 DEF RPC!Next, RPC!Start, Told
<1>4. CASE script[r] = "running" /\ script'[r] \in {"zero", "nonzero"}
  BY <1>1, <1>2, <1>4 DEF RPC!Next, RPC!Finish, Told
<1>5. CASE script[r] = "running" /\ script'[r] = "lost"
  BY <1>1, <1>2, <1>5 DEF RPC!Next, RPC!Lose, Told
<1> QED
  BY <1>3, <1>4, <1>5

\* Every step is a step of AgentRPC, or is not seen there.
LEMMA RPCStep ==
  ASSUME IInv, [Next]_vars
  PROVE  [RPC!Next]_(RPC!vars)
<1>1. /\ TypeOK /\ ClientPlace /\ WaitersAreConnected /\ Queue /\ OneEnd /\ Scripts /\ Ends
      /\ Runs \subseteq Requests /\ NoRequest \notin Requests /\ Runs \cap Stops = {}
  BY RequestsAssumption DEF IInv, Requests
<1> USE DEF TypeOK
<1> DEFINE Goal == [RPC!Next]_(RPC!vars)
<1>2. ASSUME NEW r \in Requests, Connect(r) \/ SendLine(r) PROVE Goal
  <2>1. script' = script /\ \A q \in Runs : Told(q)' = Told(q)
    BY <1>1, <1>2, SendLineIs DEF Connect, agentVars, Told
  <2> QED
    BY <2>1, NothingSeen
<1>3. ASSUME NEW r \in Requests, SendTorn(r) PROVE Goal
  <2>1. /\ r \in Runs /\ script' = script /\ script[r] = "new"
        /\ Told(r) = "none" /\ Told(r)' = "failure" /\ \A q \in Runs \ {r} : Told(q)' = Told(q)
    BY <1>1, <1>3 DEF SendTorn, ClientPlace, Scripts, agentVars, Told
  <2> QED
    BY <2>1, AnswerSeen
<1>4. ASSUME NEW r \in Requests, Leaves(r) PROVE Goal
  <2>1. /\ script' = script /\ \A q \in Runs \ {r} : Told(q)' = Told(q)
        /\ r \in Runs => Told(r) = "none" /\ Told(r)' \in {"none", "failure"}
    BY <1>1, <1>4 DEF Leaves, SocketClosed, Timeout, Die, Active, Waiting, agentVars, Told
  <2>2. r \in Runs /\ Told(r)' = "failure" => script[r] # "running"
    BY <1>1, <1>4 DEF Leaves, SocketClosed, Timeout, Die, ClientPlace, Scripts, Ends, Told
  <2>3. CASE r \in Runs /\ Told(r)' = "failure"
    BY <2>1, <2>2, <2>3, AnswerSeen
  <2>4. CASE ~(r \in Runs /\ Told(r)' = "failure")
    BY <2>1, <2>4, NothingSeen
  <2> QED
    BY <2>3, <2>4
<1>5. ASSUME NEW r \in Requests, NEW n \in 1..Len(out), Hears(r, n) PROVE Goal
  <2>1. /\ script' = script /\ \A q \in Runs \ {r} : Told(q)' = Told(q)
        /\ Elems(Chunk(n)) \subseteq Elems(out)
    BY <1>1, <1>5, HearsAre DEF agentVars, Told
  <2>2. CASE client[r] = "waitend" /\ r \in Runs
    <3>1. Told(r) = "none" /\ client'[r] = Answer(r, Chunk(n))
      BY <1>1, <1>5, <2>2, HearsAre DEF Told
    <3>2. CASE client'[r] = "success"
      <4>1. Status(r, "zero") \in Elems(out)
        BY <2>1, <3>1, <3>2 DEF Answer
      <4> QED
        BY <1>1, <2>1, <2>2, <3>1, <3>2, <4>1, AnswerSeen DEF Ends, Told
    <3>3. CASE client'[r] = "failure"
      <4>1. EndMarker(r) \in Elems(out)
        BY <2>1, <3>1, <3>3 DEF Answer
      <4> QED
        BY <1>1, <2>1, <2>2, <3>1, <3>3, <4>1, AnswerSeen DEF Ends, Told
    <3>4. CASE client'[r] = "waitend"
      BY <2>1, <3>1, <3>4, NothingSeen DEF Told
    <3> QED
      BY <3>1, <3>2, <3>3, <3>4 DEF Answer
  <2>3. CASE ~(client[r] = "waitend" /\ r \in Runs)
    <3>1. r \in Runs => client[r] = "waitready" /\ client'[r] \in {"waitready", "sending"}
      BY <1>1, <1>5, <2>3, HearsAre DEF ClientPlace
    <3> QED
      BY <2>1, <3>1, NothingSeen DEF Told
  <2> QED
    BY <2>2, <2>3
<1>6. ASSUME ReadEnd PROVE Goal
  <2> SUFFICES ASSUME NEW q, q = Head(wire).of PROVE Goal
    OBVIOUS
  <2>1. /\ q \in Runs /\ Line("END", q) \in Elems(wire) /\ client' = client
        /\ script' = [script EXCEPT ![q] = "running"]
    BY <1>1, <1>6, WireHead, WireElems, LinesAre DEF ReadEnd, Reads, RunKinds, clientVars
  <2>2. script[q] = "new" /\ client[q] \in {"waitend", "dead"}
    BY <1>1, <2>1 DEF OneEnd, EndIsFirst
  <2>3. script'[q] = "running" /\ \A r \in Runs \ {q} : script'[r] = script[r]
    BY <1>1, <2>1
  <2> QED
    BY <2>1, <2>2, <2>3, ScriptSeen DEF Told
<1>7. ASSUME ScriptEnds PROVE Goal
  <2>1. current \in Runs /\ script[current] = "running" /\ client' = client
    BY <1>1, <1>7 DEF ScriptEnds, Scripts, clientVars
  <2>2. /\ script'[current] \in {"zero", "nonzero"}
        /\ \A r \in Runs \ {current} : script'[r] = script[r]
    BY <1>1, <1>7, <2>1 DEF ScriptEnds
  <2> QED
    BY <2>1, <2>2, ScriptSeen DEF Told
<1>8. ASSUME GoesDown PROVE Goal
  <2>1. \A r \in Runs : Told(r)' = Told(r)
    BY <1>1, <1>8 DEF GoesDown, Active, Waiting, Told
  <2>2. \A r \in Runs : script'[r] = IF script[r] = "running" THEN "lost" ELSE script[r]
    BY <1>1, <1>8 DEF GoesDown
  <2>3. CASE \E r \in Runs : script[r] = "running"
    <3>1. PICK r \in Runs : script[r] = "running"
      BY <2>3
    <3>2. \A q \in Runs \ {r} : script[q] # "running"
      BY <1>1, <3>1 DEF Scripts
    <3> QED
      BY <2>1, <2>2, <3>1, <3>2, ScriptSeen
  <2>4. CASE ~\E r \in Runs : script[r] = "running"
    BY <2>1, <2>2, <2>4, NothingSeen
  <2> QED
    BY <2>3, <2>4
<1>9. ASSUME \/ UNCHANGED vars \/ Accept \/ Forward \/ Disconnect \/ Writing
             \/ StartAgent \/ EndOfFile \/ Exit \/ StartVM
      PROVE  Goal
  <2>1. UNCHANGED <<script, client>>
    BY <1>1, <1>9, WritingAre DEF vars, Accept, Forward, Disconnect, StartAgent, EndOfFile,
       Exit, StartVM, clientVars, agentVars
  <2> QED
    BY <2>1, NothingSeen DEF Told
<1>10. ASSUME Reading, ~ReadEnd PROVE Goal
  <2>1. UNCHANGED <<script, client>>
    BY <1>10 DEF Reading, ReadPing, ReadPoweroff, ReadEndFails, ReadBegin, ReadData,
       ReadTorn, ScriptReads, clientVars, agentVars
  <2> QED
    BY <2>1, NothingSeen DEF Told
<1> QED
  BY <1>2, <1>3, <1>4, <1>5, <1>6, <1>7, <1>8, <1>9, <1>10, Steps DEF Reading

\* Whatever VM, agent, qemu and the other clients do, a call of run_script() is
\* that of AgentRPC: its script is started at most once, success means exit
\* status 0, and what was answered does not run, then or later.
THEOREM Implementation == Spec => ImplementsRPC
<1>1. Init => RPC!Init
  BY DEF Init, RPC!Init, Requests
<1> QED
  BY <1>1, RPCStep, Invariant, PTL DEF Spec, ImplementsRPC, RPC!Spec
=============================================================================
