------------------------------- MODULE CtfGod -------------------------------
(***************************************************************************)
(* god.ctf, the control program of libctf (god.c and the CTF_SERVER half   *)
(* of libctf.c).  A run of it parses the configuration into linked lists,  *)
(* walks over the daemons its command line selects, one TCP connection     *)
(* after the other, and returns iLastError as its exit status.             *)
(*                                                                         *)
(* The network and the daemons are the environment here: every outcome of  *)
(* connect_time(), write() and read() that the code tells apart may occur. *)
(* CtfSystem replaces them by a daemon.                                    *)
(*                                                                         *)
(* Data: addresses, ports, flags and checksums are numbers; 0 selects all  *)
(* addresses or ports, as on the command line.  Team names and keys, which *)
(* decide nothing, are left out.                                           *)
(***************************************************************************)
EXTENDS Lists

CONSTANTS
  KeyLines,    \* the addresses of the lines of ctf_keys.txt, in order
  FlagFiles,   \* contents that ctf_svrflags.txt may be given: sequences of lines
  CsumLines,   \* lines [port, mem, file] of ctf_checksum.txt, in order
  Commands,    \* command lines: [op, ip, port, tries, path]
  Msgs,        \* what the text of a reply may be
  LongFlags,   \* flags that do not fit a packet (over 239 characters)
  MaxFds,      \* descriptors that a run may have open
  MaxRuns      \* bound: runs of the program

SUCCESS == 0         \* CTF_ERROR_SUCCESS
FAIL    == -1        \* CTF_ERROR_FAIL
KILLED  == 13        \* exit status of a run that a signal ended

PACKET_CHECKSUM_FILE == 1
PACKET_CHECKSUM_MEM  == 2
PACKET_GETFLAG       == 3
PACKET_SETFLAG       == 4
Packets == 1 .. 4
HashPackets == {PACKET_CHECKSUM_FILE, PACKET_CHECKSUM_MEM}

Ops    == {"propagate", "generate", "checkflag", "checkfile", "checkmem",
           "getflag", "getfile", "getmem", "setflag"}
SetOps == {"propagate", "setflag"}
Checks == {"checkflag", "checkfile", "checkmem"}
Paths  == {"ctf_svrflags.txt", "elsewhere"}

Line    == [ip : Nat \ {0}, port : Nat \ {0}, flag : Nat]
Reply   == [kind : {"none", "junk", "packet"}, id : Packets, msg : Nat]
NoReply == [kind |-> "none", id |-> PACKET_GETFLAG, msg |-> 0]

ASSUME GodAssumption ==
  /\ KeyLines \in Seq(Nat \ {0})
  /\ FlagFiles \subseteq Seq(Line)
  /\ CsumLines \in Seq([port : Nat \ {0}, mem : Nat, file : Nat])
  /\ Commands \subseteq [op : Ops, ip : Nat, port : Nat, tries : Nat, path : Paths]
  /\ Msgs \subseteq Nat
  /\ MaxFds \in Nat \ {0}
  /\ MaxRuns \in Nat

VARIABLES
  pc,         \* "off" (not running), "visit", "send", "recv", "gen", "write"
  cmd,        \* the command of this run, or of the last one
  calls,      \* daemons still to visit, one sequence per SvrEnumClients2 call
  lastError,  \* iLastError
  fds,        \* open sockets, those that nothing will close included
  status,     \* exit status of the last run
  files,      \* flag files by path, those that exist
  unwritten,  \* new flags of the generator that are not in its file yet
  runs,       \* runs so far
  \* What follows is history, read by the properties only.
  visited,    \* the last daemon of this run that a socket was had for, what came of it
  trouble,    \* what went wrong: "down", "failed"; no socket was had since the run
              \* itself used them up ("exhausted") or the system refused ("refused")
  sent        \* the last flag written in this run, by <<ip, port>>

vars == <<pc, cmd, calls, lastError, fds, status, files, unwritten, runs, visited, trouble, sent>>
history == <<visited, trouble, sent>>

-----------------------------------------------------------------------------
(* The lists that SvrParseConfigs builds.                                  *)

\* llck_head: every line of ctf_keys.txt is inserted at the head.
Teams == Reverse(KeyLines)

\* A line of ctf_svrflags.txt goes to the first team with its address only:
\* the pass over the list loses the address once it has matched.
IsFirst(t) == \A s \in 1 .. t - 1 : Teams[s] # Teams[t]

OfTeam(ip) == {l \in Line : l.ip = ip}

\* Mutant of FlagsOf: lines are appended.
FlagsOfAppend(t) ==
  IF IsFirst(t) THEN Keep(files["ctf_svrflags.txt"], OfTeam(Teams[t])) ELSE <<>>

\* llck->flags: inserted at the head as well.
FlagsOf(t) ==
  IF IsFirst(t) THEN Reverse(Keep(files["ctf_svrflags.txt"], OfTeam(Teams[t]))) ELSE <<>>

\* SvrParseConfigs succeeds: the address of every flag line is some team's and
\* no port has two checksums.
Parses ==
  /\ "ctf_svrflags.txt" \in DOMAIN files
  /\ \A i \in DOMAIN files["ctf_svrflags.txt"] :
       \E t \in DOMAIN Teams : Teams[t] = files["ctf_svrflags.txt"][i].ip
  /\ \A i, j \in DOMAIN CsumLines : CsumLines[i].port = CsumLines[j].port => i = j

OnPort(port) == {l \in Line : port = 0 \/ l.port = port}
NonEmpty == Seq(Line) \ {<<>>}

\* SvrEnumClients(ip, port, ..): one call of SvrEnumClients2 per team selected.
EnumClients(ip, port) ==
  LET Selected(t) == ip = 0 \/ Teams[t] = ip
  IN Keep([t \in DOMAIN Teams |->
             IF Selected(t) THEN Keep(FlagsOf(t), OnPort(port)) ELSE <<>>],
          NonEmpty)

\* SvrPropogateFlags: in every round, SvrEnumClients of every team's address.
Propogate(tries) ==
  LET round == FlattenSeq([t \in DOMAIN Teams |-> EnumClients(Teams[t], 0)])
  IN FlattenSeq([i \in 1 .. tries |-> round])

Work(c) == IF c.op = "propagate" THEN Propogate(c.tries) ELSE EnumClients(c.ip, c.port)

\* SvrGenNewFlags: the lists are written out with fresh random flags.
NewFlags ==
  LET lines == FlattenSeq([t \in DOMAIN Teams |-> FlagsOf(t)])
  IN [i \in DOMAIN lines |-> [lines[i] EXCEPT !.flag = 100 * (runs + 1) + i]]

-----------------------------------------------------------------------------
Node == calls[1][1]

\* llcf_curr = llcf_curr->next
Advance == IF Len(calls[1]) = 1 THEN Tail(calls) ELSE <<Tail(calls[1])>> \o Tail(calls)

Entry(port) == {i \in DOMAIN CsumLines : CsumLines[i].port = port}

FlagOps == {"checkflag", "getflag"}
MemOk(port, sum)  == \A i \in Entry(port) : CsumLines[i].mem = sum
FileOk(port, sum) == \A i \in Entry(port) : CsumLines[i].file = sum

\* Mutant of Verdict: a flag reply's type is not looked at.
VerdictAnyType(n, r) ==
  IF /\ r.kind = "packet"
     /\ cmd.op = "checkflag" => r.msg = n.flag
     /\ cmd.op \notin FlagOps => r.id \in HashPackets
     /\ cmd.op = "checkmem" => MemOk(n.port, r.msg)
     /\ cmd.op = "checkfile" => FileOk(n.port, r.msg)
  THEN SUCCESS ELSE FAIL

\* iLastError after the reply of n: SvrRecvPacket and the tests that follow it.
\* A hash whose port has no entry keeps the SUCCESS of TransformBlock, for the
\* test of iFound is an assignment.
Verdict(n, r) ==
  IF /\ r.kind = "packet"
     /\ cmd.op \in FlagOps => r.id = PACKET_GETFLAG
     /\ cmd.op = "checkflag" => r.msg = n.flag
     /\ cmd.op \notin FlagOps => r.id \in HashPackets
     /\ cmd.op = "checkmem" => MemOk(n.port, r.msg)
     /\ cmd.op = "checkfile" => FileOk(n.port, r.msg)
  THEN SUCCESS ELSE FAIL

NoVisit == [what |-> "nothing", node |-> [ip |-> 1, port |-> 1, flag |-> 0], reply |-> NoReply]

\* How a run begins; error is what CtfLib_Init returns.
Begin(c, error) ==
  /\ cmd' = c /\ lastError' = error /\ runs' = runs + 1
  /\ visited' = NoVisit /\ trouble' = {} /\ sent' = [x \in {} |-> 0]

\* The process is over: the system closes its sockets.
End(result) ==
  pc' = "off" /\ status' = result /\ fds' = 0 /\ calls' = <<>> /\ unwritten' = <<>>

Init ==
  /\ pc = "off" /\ calls = <<>> /\ lastError = SUCCESS /\ fds = 0 /\ status = SUCCESS
  /\ cmd \in Commands
  /\ \E f \in FlagFiles : files = [p \in {"ctf_svrflags.txt"} |-> f]
  /\ runs = 0 /\ unwritten = <<>>
  /\ visited = NoVisit /\ trouble = {} /\ sent = [x \in {} |-> 0]

\* The operator puts another flag file in place, between two runs.
Edit(f) ==
  /\ pc = "off"
  /\ files' = [files EXCEPT !["ctf_svrflags.txt"] = f]
  /\ UNCHANGED <<pc, cmd, calls, lastError, fds, status, unwritten, runs, history>>

\* main: CtfLib_Init reads the configuration, then the command is dispatched.
Start(c) ==
  /\ pc = "off" /\ runs < MaxRuns /\ Parses
  /\ Begin(c, SUCCESS)
  /\ fds' = 0
  /\ pc' = IF c.op = "generate" THEN "gen" ELSE "visit"
  /\ calls' = IF c.op = "generate" THEN <<>> ELSE Work(c)
  /\ UNCHANGED <<status, files, unwritten>>

\* main: CtfLib_Init fails, error() leaves with exit(-1).
InitFails(c) ==
  /\ pc = "off" /\ runs < MaxRuns /\ ~Parses
  /\ Begin(c, FAIL)
  /\ End(FAIL)
  /\ UNCHANGED files

\* SvrGenNewFlags: access() finds the configuration, which Init has just read,
\* so the file named on the command line is opened whatever it holds, which
\* empties it.
OpenFlags ==
  /\ pc = "gen"
  /\ pc' = "write" /\ unwritten' = NewFlags
  /\ files' = [p \in DOMAIN files \cup {cmd.path} |-> IF p = cmd.path THEN <<>> ELSE files[p]]
  /\ UNCHANGED <<cmd, calls, lastError, fds, status, runs, history>>

\* fopen() fails.
OpenFails ==
  /\ pc = "gen"
  /\ lastError' = FAIL
  /\ End(FAIL)
  /\ UNCHANGED <<cmd, files, runs, history>>

\* The first n of the new lines are in the file.
Written(n) == files' = [files EXCEPT ![cmd.path] = SubSeq(unwritten, 1, n)]

\* fprintf() of every line and fclose(), whose results are not looked at: on a
\* full disk a beginning is written.  (A line that is cut counts as not written.)
WriteFlags(n) ==
  /\ pc = "write" /\ n <= Len(unwritten)
  /\ Written(n)
  /\ End(lastError)
  /\ UNCHANGED <<cmd, lastError, runs, history>>

\* The operator interrupts the run, or the machine goes down: what stdio has not
\* written by then is lost.
Kill(n) ==
  /\ pc # "off" /\ n <= Len(unwritten)
  /\ IF pc = "write" THEN Written(n) ELSE files' = files
  /\ End(KILLED)
  /\ UNCHANGED <<cmd, lastError, runs, history>>

\* socket() fails, because the run holds every descriptor it may have or because
\* the system has none to give: SvrEnumClients2 returns, so the rest of its team
\* is passed over, and leaves iLastError alone.
NoSocket ==
  /\ pc = "visit" /\ calls # <<>>
  /\ calls' = Tail(calls)
  /\ trouble' = trouble \cup {IF fds = MaxFds THEN "exhausted" ELSE "refused"}
  /\ UNCHANGED <<pc, cmd, lastError, fds, status, files, unwritten, runs, visited, sent>>

\* Mutant of Down: the error is set only where connect_time() does it, which
\* the branch that times out is taken to forget.
DownSilent(why) ==
  /\ pc = "visit" /\ calls # <<>> /\ fds < MaxFds
  /\ calls' = Advance
  /\ lastError' = IF why = "unreachable" THEN lastError ELSE FAIL
  /\ fds' = IF why = "unreachable" THEN fds + 1 ELSE fds
  /\ visited' = [what |-> "down", node |-> Node, reply |-> NoReply]
  /\ trouble' = trouble \cup {"down"}
  /\ UNCHANGED <<pc, cmd, status, files, unwritten, runs, sent>>

\* connect_time() fails: DOWN, next daemon.  It closes the socket when the
\* connection is refused or times out; when connect() fails at once (no route,
\* a refusal on the same host) the socket stays open until the program ends.
Down(why) ==
  /\ pc = "visit" /\ calls # <<>> /\ fds < MaxFds
  /\ calls' = Advance
  /\ lastError' = FAIL
  /\ fds' = IF why = "unreachable" THEN fds + 1 ELSE fds
  /\ visited' = [what |-> "down", node |-> Node, reply |-> NoReply]
  /\ trouble' = trouble \cup {"down"}
  /\ UNCHANGED <<pc, cmd, status, files, unwritten, runs, sent>>

\* Mutant of Connect: the result of socket() is not looked at.
ConnectUnchecked ==
  /\ pc = "visit" /\ calls # <<>>
  /\ pc' = "send" /\ fds' = fds + 1 /\ lastError' = SUCCESS
  /\ visited' = [what |-> "connected", node |-> Node, reply |-> NoReply]
  /\ UNCHANGED <<cmd, calls, status, files, unwritten, runs, trouble, sent>>

\* connect_time() succeeds.
Connect ==
  /\ pc = "visit" /\ calls # <<>> /\ fds < MaxFds
  /\ pc' = "send" /\ fds' = fds + 1 /\ lastError' = SUCCESS
  /\ visited' = [what |-> "connected", node |-> Node, reply |-> NoReply]
  /\ UNCHANGED <<cmd, calls, status, files, unwritten, runs, trouble, sent>>

\* SvrSendPacket of a request: its result is not looked at, the reply is awaited.
SendRequest(ok) ==
  /\ pc = "send" /\ cmd.op \notin SetOps
  /\ pc' = "recv"
  /\ lastError' = IF ok THEN SUCCESS ELSE FAIL
  /\ UNCHANGED <<cmd, calls, fds, status, files, unwritten, runs, history>>

\* SvrSendPacket of a SETFLAG: nothing is awaited, the connection is closed.  A
\* flag that does not fit is not written.
SendFlag(ok) ==
  /\ pc = "send" /\ cmd.op \in SetOps
  /\ ok => Node.flag \notin LongFlags
  /\ pc' = "visit" /\ calls' = Advance /\ fds' = fds - 1
  /\ lastError' = IF ok THEN SUCCESS ELSE FAIL
  /\ visited' = [visited EXCEPT !.what = IF ok THEN "sent" ELSE "failed"]
  /\ trouble' = IF ok THEN trouble ELSE trouble \cup {"failed"}
  /\ sent' = IF ok THEN [x \in DOMAIN sent \cup {<<Node.ip, Node.port>>} |->
                           IF x = <<Node.ip, Node.port>> THEN Node.flag ELSE sent[x]]
                   ELSE sent
  /\ UNCHANGED <<cmd, status, files, unwritten, runs>>

\* write() to a connection that was reset: SIGPIPE has its default action.
SigPipe ==
  /\ pc = "send"
  /\ End(KILLED)
  /\ UNCHANGED <<cmd, lastError, files, runs, history>>

\* Mutant of Receive: the walk stays at this daemon after its reply.
ReceiveStays(r) ==
  /\ pc = "recv"
  /\ pc' = "visit" /\ fds' = fds - 1
  /\ lastError' = Verdict(Node, r)
  /\ visited' = [what |-> "reply", node |-> Node, reply |-> r]
  /\ UNCHANGED <<cmd, calls, status, files, unwritten, runs, trouble, sent>>

\* SvrRecvPacket, the tests of the reply, close, next daemon.  Every branch
\* taken ends there: a packet that would overflow is junk to SvrRecvPacket.
Receive(r) ==
  /\ pc = "recv"
  /\ pc' = "visit" /\ calls' = Advance /\ fds' = fds - 1
  /\ lastError' = Verdict(Node, r)
  /\ visited' = [what |-> "reply", node |-> Node, reply |-> r]
  /\ UNCHANGED <<cmd, status, files, unwritten, runs, trouble, sent>>

\* SvrCleanup frees the lists; main returns iLastError.
Exit ==
  /\ pc = "visit" /\ calls = <<>>
  /\ End(lastError)
  /\ UNCHANGED <<cmd, lastError, files, runs, history>>

Replies == {NoReply, [NoReply EXCEPT !.kind = "junk"]}
             \cup [kind : {"packet"}, id : Packets, msg : Msgs]

Progress ==
  \/ OpenFlags \/ OpenFails
  \/ \E n \in 0 .. Len(unwritten) : WriteFlags(n)
  \/ NoSocket
  \/ \E why \in {"refused", "timeout", "unreachable"} : Down(why)
  \/ Connect
  \/ \E ok \in BOOLEAN : SendRequest(ok) \/ SendFlag(ok)
  \/ SigPipe
  \/ \E r \in Replies : Receive(r)
  \/ Exit

Next ==
  \/ \E c \in Commands : Start(c) \/ InitFails(c)
  \/ \E f \in FlagFiles : Edit(f)
  \/ \E n \in 0 .. Len(unwritten) : Kill(n)
  \/ Progress

Spec == Init /\ [][Next]_vars

\* Nothing the program waits for can keep it: connect 5 s, write and read 10 s.
\* Nobody has to kill it.
FairSpec == Spec /\ WF_vars(Progress)

-----------------------------------------------------------------------------
\* The values of the variables of libctf.c.
TypeOK ==
  /\ pc \in {"off", "visit", "send", "recv", "gen", "write"}
  /\ cmd \in Commands
  /\ lastError \in {SUCCESS, FAIL}
  /\ fds \in 0 .. MaxFds
  /\ status \in {SUCCESS, FAIL, KILLED}
  /\ runs \in 0 .. MaxRuns
  /\ pc # "write" => unwritten = <<>>
  /\ trouble \subseteq {"down", "failed", "exhausted", "refused"}
  /\ pc \in {"send", "recv"} => calls # <<>> /\ fds > 0

\* A run that passed over daemons because it had used up its own descriptors cannot
\* leave with SUCCESS, although SvrEnumClients2 returns without setting the error:
\* they only run out by a failed connect, whose FAIL no later daemon can replace.
\* (Where the system refuses the socket, the run may well leave with SUCCESS.)
ExhaustionIsReported ==
  pc = "off" /\ "exhausted" \in trouble /\ status # KILLED => status = FAIL

\* The reply is what the check at hand wants of the daemon.
Confirms(n, r) ==
  /\ r.kind = "packet"
  /\ \/ cmd.op = "checkflag" /\ r.id = PACKET_GETFLAG /\ r.msg = n.flag
     \/ cmd.op = "checkmem" /\ r.id \in HashPackets /\ MemOk(n.port, r.msg)
     \/ cmd.op = "checkfile" /\ r.id \in HashPackets /\ FileOk(n.port, r.msg)

\* The exit status of a check command that came to an end is the verdict on ONE
\* daemon: the last of the walk that a socket was had for.  It is SUCCESS exactly
\* when that one was reached and gave the reply expected of it; what became of the
\* daemons before it, and that one without a socket was passed over, is not in it.
VerdictOfLast ==
  pc = "off" /\ runs > 0 /\ status # KILLED /\ cmd.op \in Checks /\ visited.what # "nothing" =>
    (status = SUCCESS <=> visited.what = "reply" /\ Confirms(visited.node, visited.reply))

\* When a run that sets flags ends without trouble, every daemon was last sent
\* the flag of its FIRST line in the file, also when it has several: two head
\* insertions and the walk over the lists reverse the lines, in every round.
FirstLineWins ==
  pc = "visit" /\ calls = <<>> /\ cmd.op \in SetOps /\ trouble = {} =>
    LET lines == files["ctf_svrflags.txt"]
        Of(x) == {i \in DOMAIN lines : <<lines[i].ip, lines[i].port>> = x}
    IN \A x \in DOMAIN sent :
         \E i \in Of(x) : lines[i].flag = sent[x] /\ \A j \in Of(x) : i <= j

\* Every run of the program ends, whatever the daemons do.
GodTerminates == pc # "off" ~> pc = "off"

\* "!!! No entry found for port %d!!!", CTF_ERROR_FAIL: a hash check of a daemon
\* whose port is missing in ctf_checksum.txt fails.
NoEntryFails ==
  pc = "off" /\ runs > 0 /\ cmd.op \in {"checkmem", "checkfile"} /\ status # KILLED =>
    (visited.what = "reply" /\ Entry(visited.node.port) = {} => status = FAIL)

\* "Fail if cFlagPath exists": the generator leaves an existing file alone.
GenFailsIfExists == [][pc = "gen" /\ cmd.path \in DOMAIN files => files' = files]_vars
=============================================================================
