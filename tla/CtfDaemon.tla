----------------------------- MODULE CtfDaemon -----------------------------
(***************************************************************************)
(* A daemon that serves libctf (the CTF_CLIENT half of libctf.c): its flag *)
(* file, its connections and the two loops that feed CtfLib_ClientProcess, *)
(*   "accept"  client-daemon.c and daemon2.c: accept, one blocking read,   *)
(*             close, one connection after the other;                      *)
(*   "select"  CtfLib_StandAloneSocket: select over every connection, the  *)
(*             readable ones in the order of their descriptors.            *)
(*                                                                         *)
(* A connection is a record; what its peer does to it (data that arrives,  *)
(* its end) is up to the module that composes the daemon with its peers.   *)
(* Flags and hashes are numbers.  Only the control program can build a     *)
(* packet that decrypts, so data of strangers is as no data.               *)
(***************************************************************************)
EXTENDS Integers, Sequences, FiniteSets

CONSTANTS
  Loop,      \* "accept" or "select"
  Fds,       \* 1..n, descriptors left for connections and for the flag file
  Backlog,   \* connections that wait to be accepted (listen)
  Timeout,   \* PACKET_TIMEOUT, in ticks
  Skew,      \* the daemon's clock minus that of the control program
  Hash       \* the checksum of the binary

ASSUME DaemonAssumption ==
  /\ Loop \in {"accept", "select"}
  /\ Cardinality(Fds) \in Nat \ {0} /\ Fds = 1 .. Cardinality(Fds)
  /\ Backlog \in Nat \ {0} /\ Timeout \in Nat /\ Skew \in Int /\ Hash \in Nat

MISSING == -1      \* contents of the flag file when there is none
EMPTY   == 0       \* and when it was opened for writing and nothing else

\* Packets: the type of PACKET_BLOCK, what the model keeps of it.  Type 0: none.
NoPacket == [id |-> 0, msg |-> 0, ts |-> 0]

\* A connection.  here: its packet has arrived.  eof: how the peer ended it.
\* live: the control program is still at the other end.
NoConn   == [who |-> "none", packet |-> NoPacket, here |-> FALSE, eof |-> "no", live |-> FALSE]
NewConn(who) == [NoConn EXCEPT !.who = who, !.live = (who = "god")]

VARIABLES
  dpc,       \* "down", "accept", "read", "pass", "write"
  inited,    \* iLibInitialized, and the public key is loaded
  file,      \* what cFlagPath holds
  backlog,   \* connections not accepted yet, in order
  conn,      \* the connection of every descriptor
  ready,     \* read_fds of this pass, 0 for the listening socket
  serving,   \* the descriptor whose packet is being processed
  reply,     \* the packet sent to the control program, if any
  now,       \* time of the control program's clock
  applied,   \* history: the last flag that was written
  ended,     \* history: what ended the daemon, "no" while it lives
  unread,    \* history: since the last flag was sent the file could not be read
  disturbed  \* history: since the last flag was sent the daemon died, dropped a stale
             \* flag or one it could not write, or somebody else wrote the file

daemonVars == <<dpc, inited, file, backlog, conn, ready, serving, reply,
                applied, ended, unread, disturbed>>

Free == {fd \in Fds : conn[fd] = NoConn}
NewFd == CHOOSE fd \in Free : \A x \in Free : fd <= x
First == CHOOSE fd \in ready : \A x \in ready : fd <= x

\* read() would return: the packet, or 0 or an error behind it.
Readable(c) == c.here \/ (c.packet = NoPacket /\ c.eof # "no")

DaemonInit ==
  /\ dpc = "down" /\ inited = FALSE
  /\ file \in {EMPTY, MISSING}
  /\ backlog = <<>> /\ conn = [fd \in Fds |-> NoConn] /\ ready = {} /\ serving = 0
  /\ reply = NoPacket /\ now = 0 /\ applied = 0 /\ ended = "no"
  /\ unread = FALSE /\ disturbed = FALSE

-----------------------------------------------------------------------------
(* The life of the process.                                                *)

\* The process ends: the system closes its connections, and what came in on them
\* and was not read is lost.
Die(why) ==
  /\ dpc' = "down" /\ inited' = FALSE /\ ended' = why
  /\ backlog' = <<>> /\ conn' = [fd \in Fds |-> NoConn] /\ ready' = {} /\ serving' = 0
  /\ disturbed' = TRUE

\* It is killed, or a call fails that it leaves for, as select().
Crash ==
  /\ dpc # "down"
  /\ Die("crash")
  /\ UNCHANGED <<file, reply, now, applied, unread>>

\* main: CtfLib_Init fails without a flag file; keyOk is whether that file and the
\* public key could be read.
\* The two results are ignored before the accept loop; a daemon with the select
\* loop leaves.  A library that is not initialised drops every packet.
Boot(keyOk) ==
  /\ dpc = "down"
  /\ LET ok == file # MISSING /\ keyOk
     IN /\ ok \/ Loop = "accept"
        /\ inited' = ok
  /\ dpc' = "accept" /\ ended' = "no"
  /\ UNCHANGED <<file, backlog, conn, ready, serving, reply, now, applied, unread, disturbed>>

\* Whoever plays on the machine changes the file.  Writes of others that mix with
\* the daemon's own write are left out.
Tamper(contents) ==
  /\ dpc # "write"
  /\ file' = contents
  /\ disturbed' = TRUE
  /\ UNCHANGED <<dpc, inited, backlog, conn, ready, serving, reply, now, applied, ended, unread>>

-----------------------------------------------------------------------------
(* CtfLib_ClientProcess.                                                   *)

\* Mutant of Fresh: the time stamp is not looked at.
FreshAlways(p) == p.id # 0

\* difftime(now, dwTimeStamp) >= PACKET_TIMEOUT rejects; a stamp ahead is fine.
Fresh(p) == now + Skew - p.ts < Timeout

\* What follows the packet of descriptor fd: the accept loop closes at once, the
\* select loop keeps the connection until it reads its end.
Done(fd) ==
  /\ serving' = 0
  /\ IF Loop = "accept"
     THEN dpc' = "accept" /\ conn' = [conn EXCEPT ![fd] = NoConn]
     ELSE /\ dpc' = "pass"
          /\ conn' = [conn EXCEPT ![fd].packet = NoPacket, ![fd].here = FALSE]

\* SendPacket of a reply, which reaches the control program if it still waits.
Answer(fd, id, msg) ==
  reply' = IF conn[fd].live THEN [id |-> id, msg |-> msg, ts |-> now] ELSE reply

\* LoadFlag and SendPacket.  A file that is missing or empty makes an empty reply,
\* and so does one that cannot be opened, for want of a descriptor or otherwise.
GetFlag(fd) ==
  /\ \/ Free # {} /\ Answer(fd, 3, IF file = MISSING THEN EMPTY ELSE file) /\ unread' = unread
     \/ Answer(fd, 3, EMPTY) /\ unread' = TRUE
  /\ Done(fd)
  /\ UNCHANGED <<file, disturbed>>

\* SetFlag: fopen(.., "wb") truncates; the flag is written in a step of its own.
\* The file takes a descriptor of the pool that the connections use up.  When
\* fopen() fails, for want of one or otherwise, the flag is dropped.
OpenFlag(fd) ==
  /\ \/ /\ Free # {}
        /\ file' = EMPTY
        /\ dpc' = "write" /\ serving' = fd
        /\ UNCHANGED <<conn, disturbed>>
     \/ Done(fd) /\ disturbed' = TRUE /\ file' = file
  /\ UNCHANGED <<reply, unread>>

\* Mutant of WriteFlag: without fclose() the flag stays in the buffer of stdio.
WriteFlagUnflushed ==
  /\ dpc = "write"
  /\ applied' = conn[serving].packet.msg
  /\ Done(serving)
  /\ UNCHANGED <<inited, file, backlog, ready, reply, now, ended, unread, disturbed>>

\* fwrite and fclose, which fail on a full disk: the file stays empty.
WriteFlag ==
  /\ dpc = "write"
  /\ \/ /\ file' = conn[serving].packet.msg /\ applied' = file'
        /\ disturbed' = disturbed
     \/ disturbed' = TRUE /\ UNCHANGED <<file, applied>>
  /\ Done(serving)
  /\ UNCHANGED <<inited, backlog, ready, reply, now, ended, unread>>

\* The dispatch on dwPACKET_ID, behind the tests that drop a packet.  The hash of
\* a binary that cannot be read is empty.
ClientProcess(fd) ==
  LET p == conn[fd].packet
  IN \/ /\ ~(inited /\ Fresh(p))
        /\ Done(fd)
        /\ disturbed' = (disturbed \/ (inited /\ p.id = 4))
        /\ UNCHANGED <<file, reply, unread>>
     \/ inited /\ Fresh(p) /\ p.id = 3 /\ GetFlag(fd)
     \/ inited /\ Fresh(p) /\ p.id = 4 /\ OpenFlag(fd)
     \/ /\ inited /\ Fresh(p) /\ p.id \in {1, 2}
        /\ \E sum \in {Hash, EMPTY} : Answer(fd, p.id, sum)
        /\ Done(fd)
        /\ UNCHANGED <<file, unread, disturbed>>

-----------------------------------------------------------------------------
(* The accept loop.  The connection it serves has descriptor 1.            *)

\* Mutant of Accept: the newest connection comes first.
AcceptNewest ==
  /\ Loop = "accept" /\ dpc = "accept" /\ backlog # <<>>
  /\ conn' = [conn EXCEPT ![1] = backlog[Len(backlog)]]
  /\ backlog' = SubSeq(backlog, 1, Len(backlog) - 1)
  /\ dpc' = "read"
  /\ UNCHANGED <<inited, file, ready, serving, reply, now, applied, ended, unread, disturbed>>

\* accept() takes the oldest connection.
Accept ==
  /\ Loop = "accept" /\ dpc = "accept" /\ backlog # <<>>
  /\ conn' = [conn EXCEPT ![1] = Head(backlog)]
  /\ backlog' = Tail(backlog)
  /\ dpc' = "read"
  /\ UNCHANGED <<inited, file, ready, serving, reply, now, applied, ended, unread, disturbed>>

\* accept() fails: error() leaves with exit(1).
AcceptError ==
  /\ Loop = "accept" /\ dpc = "accept" /\ backlog # <<>>
  /\ Die("accept")
  /\ UNCHANGED <<file, reply, now, applied, unread>>

\* read() blocks, without a timeout, until the peer sends or ends.
Read ==
  /\ dpc = "read" /\ conn[1].here
  /\ ClientProcess(1)
  /\ UNCHANGED <<inited, backlog, ready, now, applied, ended>>

\* Mutant of ReadEnd: a result of 0 is taken as "not yet" and read() called again.
ReadEndRetries ==
  /\ dpc = "read" /\ ~conn[1].here /\ Readable(conn[1]) /\ conn[1].eof = "fin"
  /\ UNCHANGED <<daemonVars, now>>

\* read() gives 0: ClientProcess drops the empty packet.
ReadEnd ==
  /\ dpc = "read" /\ ~conn[1].here /\ Readable(conn[1]) /\ conn[1].eof = "fin"
  /\ Done(1)
  /\ UNCHANGED <<inited, file, backlog, ready, reply, now, applied, ended, unread, disturbed>>

\* read() fails: error() leaves with exit(1).
ReadError ==
  /\ dpc = "read" /\ ~conn[1].here /\ Readable(conn[1]) /\ conn[1].eof = "rst"
  /\ Die("reset")
  /\ UNCHANGED <<file, reply, now, applied, unread>>

-----------------------------------------------------------------------------
(* CtfLib_StandAloneSocket.                                                *)

\* Mutant of Select: fdmax instead of fdmax+1, the highest socket is left out.
SelectBelowMax ==
  /\ Loop = "select" /\ dpc = "accept"
  /\ ready' = {fd \in Fds : Readable(conn[fd]) /\ \E x \in Fds : x > fd /\ conn[x] # NoConn}
                \cup (IF backlog = <<>> THEN {} ELSE {0})
  /\ ready' # {}
  /\ dpc' = "pass"
  /\ UNCHANGED <<inited, file, backlog, conn, serving, reply, now, applied, ended, unread, disturbed>>

\* select() returns the sockets that are readable now.
Select ==
  /\ Loop = "select" /\ dpc = "accept"
  /\ ready' = {fd \in Fds : Readable(conn[fd])} \cup (IF backlog = <<>> THEN {} ELSE {0})
  /\ ready' # {}
  /\ dpc' = "pass"
  /\ UNCHANGED <<inited, file, backlog, conn, serving, reply, now, applied, ended, unread, disturbed>>

\* The listening socket is the lowest one: one connection is accepted, on the
\* lowest free descriptor; it waits for the next pass.
PassAccept ==
  /\ dpc = "pass" /\ ready # {} /\ First = 0 /\ Free # {}
  /\ conn' = [conn EXCEPT ![NewFd] = Head(backlog)]
  /\ backlog' = Tail(backlog)
  /\ ready' = ready \ {0}
  /\ UNCHANGED <<dpc, inited, file, serving, reply, now, applied, ended, unread, disturbed>>

\* accept() fails for want of a descriptor, and may fail otherwise: CtfLib_ClientError
\* leaves.
PassAcceptError ==
  /\ dpc = "pass" /\ ready # {} /\ First = 0
  /\ Die("accept")
  /\ UNCHANGED <<file, reply, now, applied, unread>>

\* recv() gives a packet.
PassRead ==
  /\ dpc = "pass" /\ ready # {} /\ First # 0 /\ conn[First].here
  /\ ready' = ready \ {First}
  /\ ClientProcess(First)
  /\ UNCHANGED <<inited, backlog, now, applied, ended>>

\* recv() gives 0 or fails: the connection is closed.
PassEnd ==
  /\ dpc = "pass" /\ ready # {} /\ First # 0 /\ ~conn[First].here
  /\ ready' = ready \ {First}
  /\ conn' = [conn EXCEPT ![First] = NoConn]
  /\ UNCHANGED <<dpc, inited, file, backlog, serving, reply, now, applied, ended, unread, disturbed>>

PassOver ==
  /\ dpc = "pass" /\ ready = {}
  /\ dpc' = "accept"
  /\ UNCHANGED <<inited, file, backlog, conn, ready, serving, reply, now, applied, ended, unread, disturbed>>

DaemonStep ==
  \/ WriteFlag
  \/ Accept \/ AcceptError \/ Read \/ ReadEnd \/ ReadError
  \/ Select \/ PassAccept \/ PassAcceptError \/ PassRead \/ PassEnd \/ PassOver
=============================================================================
