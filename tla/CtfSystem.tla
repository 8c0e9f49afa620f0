----------------------------- MODULE CtfSystem -----------------------------
(***************************************************************************)
(* The control program (CtfGod) and one daemon (CtfDaemon) with a network  *)
(* between them that may hold back the data of a connection, strangers who *)
(* open connections and send nothing, crashes, and changes of the flag     *)
(* file behind the daemon's back.                                          *)
(*                                                                         *)
(* The operator propagates the flags, has new ones generated in place, and *)
(* checks, in any order; new flags are larger numbers.                     *)
(***************************************************************************)
EXTENDS CtfDaemon

CONSTANTS
  Commands, MaxRuns,   \* as in CtfGod
  MaxTime,             \* bound: ticks
  MaxFaults,           \* bound: crashes, and changes of the file by others
  MaxStrangers         \* bound: connections of strangers

VARIABLES
  \* CtfGod
  pc, cmd, calls, lastError, fds, status, files, unwritten, runs, visited, trouble, sent,
  issued,     \* history: the last flag written to the daemon's connection, and when
  hurried,    \* history: a new flag was issued while the one before could be fresh
  faults, strangers

FOREIGN == 9   \* a flag that the control program never issued

God == INSTANCE CtfGod WITH
  KeyLines <- <<1>>,
  FlagFiles <- {<<[ip |-> 1, port |-> 1, flag |-> 10]>>},
  CsumLines <- <<[port |-> 1, mem |-> Hash, file |-> Hash]>>,
  Msgs <- {}, LongFlags <- {}, MaxFds <- 1

godVars == <<pc, cmd, calls, lastError, fds, status, files, unwritten, runs, visited, trouble, sent>>
counters == <<faults, strangers>>
vars == <<daemonVars, now, godVars, issued, hurried, counters>>

ASSUME SystemAssumption ==
  /\ Commands \subseteq [op : God!Ops, ip : Nat, port : Nat, tries : Nat, path : God!Paths]
  /\ {MaxRuns, MaxTime, MaxFaults, MaxStrangers} \subseteq Nat

Init ==
  /\ DaemonInit /\ God!Init
  /\ issued = [flag |-> 0, ts |-> 0] /\ hurried = FALSE
  /\ faults = 0 /\ strangers = 0

-----------------------------------------------------------------------------
(* Both ends of a connection.                                              *)

ToSet(s) == {s[i] : i \in DOMAIN s}
Connections == ToSet(backlog) \cup {conn[fd] : fd \in Fds}
Live == \E c \in Connections : c.live

\* Every connection of the control program that is still open changes by F.
OnLive(F(_)) ==
  /\ backlog' = [i \in DOMAIN backlog |-> IF backlog[i].live THEN F(backlog[i]) ELSE backlog[i]]
  /\ conn' = [fd \in Fds |-> IF conn[fd].live THEN F(conn[fd]) ELSE conn[fd]]

Closed(c) == [c EXCEPT !.live = FALSE, !.eof = "fin"]

Rest == <<dpc, inited, file, ready, serving, applied, ended, now, counters>>

\* connect_time() succeeds as soon as the kernel of the daemon's machine queues
\* the connection, whatever the daemon does.
GodConnect ==
  /\ dpc # "down" /\ Len(backlog) < Backlog
  /\ God!Connect
  /\ backlog' = Append(backlog, NewConn("god")) /\ reply' = NoPacket
  /\ UNCHANGED <<conn, unread, disturbed, issued, hurried, Rest>>

\* Nobody listens, or the queue is full and connect_time() gives up.
GodDown ==
  /\ \/ dpc = "down" /\ God!Down("refused")
     \/ dpc # "down" /\ Len(backlog) >= Backlog /\ God!Down("timeout")
  /\ UNCHANGED <<backlog, conn, reply, unread, disturbed, issued, hurried, Rest>>

PacketId == CASE cmd.op \in {"checkflag", "getflag"} -> 3
              [] cmd.op \in {"checkmem", "getmem"} -> 2
              [] cmd.op \in {"checkfile", "getfile"} -> 1
              [] OTHER -> 4

\* write() works on an open connection; on one whose daemon is gone it fails, or
\* works and nobody reads the data.
WriteOutcome(ok) == Live => ok

GodSendRequest(ok) ==
  /\ WriteOutcome(ok)
  /\ God!SendRequest(ok)
  /\ LET Write(c) == [c EXCEPT !.packet = [id |-> PacketId, msg |-> 0, ts |-> now]]
     IN OnLive(Write)
  /\ UNCHANGED <<reply, unread, disturbed, issued, hurried, Rest>>

\* The connection is closed behind the packet.
GodSendFlag(ok) ==
  /\ WriteOutcome(ok)
  /\ God!SendFlag(ok)
  /\ LET flag == God!Node.flag
         Write(c) == Closed([c EXCEPT !.packet = [id |-> 4, msg |-> flag, ts |-> now]])
     IN /\ OnLive(Write)
        /\ issued' = IF ok THEN [flag |-> flag, ts |-> now] ELSE issued
        /\ unread' = (unread /\ ~(ok /\ Live))
        /\ disturbed' = (disturbed /\ ~(ok /\ Live))
        /\ hurried' = (hurried \/ (ok /\ issued.flag \notin {0, flag} /\ now - issued.ts < Timeout - Skew))
  /\ UNCHANGED <<reply, Rest>>

\* Mutant of GodReceive: the socket is not closed before the next daemon.
GodReceiveNoClose ==
  /\ \/ God!Receive(God!NoReply)
     \/ /\ reply # NoPacket
        /\ God!Receive([kind |-> "packet", id |-> reply.id, msg |-> reply.msg])
  /\ reply' = NoPacket
  /\ UNCHANGED <<backlog, conn, unread, disturbed, issued, hurried, Rest>>

\* The reply is read, or the ten seconds are over or the connection has ended.
GodReceive ==
  /\ \/ God!Receive(God!NoReply)
     \/ /\ reply # NoPacket
        /\ God!Receive([kind |-> "packet", id |-> reply.id, msg |-> reply.msg])
  /\ OnLive(Closed)
  /\ reply' = NoPacket
  /\ UNCHANGED <<unread, disturbed, issued, hurried, Rest>>

\* Here the generator can open and write its file, and nobody kills the program.
GodLocal ==
  /\ God!OpenFlags \/ God!WriteFlags(Len(unwritten)) \/ God!Exit
  /\ UNCHANGED <<daemonVars, now, issued, hurried, counters>>

GodStart ==
  /\ \E c \in Commands : God!Start(c)
  /\ UNCHANGED <<daemonVars, now, issued, hurried, counters>>

GodStep ==
  \/ GodConnect \/ GodDown
  \/ \E ok \in BOOLEAN : GodSendRequest(ok) \/ GodSendFlag(ok)
  \/ GodReceive \/ GodLocal

-----------------------------------------------------------------------------
(* The daemon and its surroundings.                                        *)

System == <<godVars, issued, hurried>>

Daemon == DaemonStep /\ UNCHANGED <<System, counters>>

DaemonBoot == (\E keyOk \in BOOLEAN : Boot(keyOk)) /\ UNCHANGED <<System, counters>>

DaemonCrash ==
  /\ faults < MaxFaults /\ faults' = faults + 1
  /\ Crash
  /\ UNCHANGED <<System, strangers>>

Interfere ==
  /\ faults < MaxFaults /\ faults' = faults + 1
  /\ \E c \in {MISSING, FOREIGN} : Tamper(c)
  /\ UNCHANGED <<System, strangers>>

\* The data of one connection arrives; TCP may take its time for that.
InFlight(c) == c.packet # NoPacket /\ ~c.here
Others == <<dpc, inited, file, ready, serving, reply, applied, ended, unread, disturbed>>

Deliver ==
  /\ \/ \E i \in DOMAIN backlog :
          InFlight(backlog[i]) /\ backlog' = [backlog EXCEPT ![i].here = TRUE] /\ conn' = conn
     \/ \E fd \in Fds :
          InFlight(conn[fd]) /\ conn' = [conn EXCEPT ![fd].here = TRUE] /\ backlog' = backlog
  /\ UNCHANGED <<Others, now, System, counters>>

StrangerConnects ==
  /\ strangers < MaxStrangers /\ strangers' = strangers + 1
  /\ dpc # "down" /\ Len(backlog) < Backlog
  /\ backlog' = Append(backlog, NewConn("stranger"))
  /\ UNCHANGED <<conn, Others, now, System, faults>>

Idle(c) == c.who = "stranger" /\ c.eof = "no"

StrangerLeaves(how) ==
  /\ \/ \E i \in DOMAIN backlog :
          Idle(backlog[i]) /\ backlog' = [backlog EXCEPT ![i].eof = how] /\ conn' = conn
     \/ \E fd \in Fds :
          Idle(conn[fd]) /\ conn' = [conn EXCEPT ![fd].eof = how] /\ backlog' = backlog
  /\ UNCHANGED <<Others, now, System, counters>>

\* A tick is longer than the ten seconds that a send or a receive may take.
Tick ==
  /\ now < MaxTime /\ pc \notin {"send", "recv"}
  /\ now' = now + 1
  /\ UNCHANGED <<daemonVars, System, counters>>

Next ==
  \/ GodStart \/ GodStep
  \/ Daemon \/ DaemonBoot \/ DaemonCrash
  \/ Interfere \/ Deliver
  \/ StrangerConnects \/ \E how \in {"fin", "rst"} : StrangerLeaves(how)
  \/ Tick

Spec == Init /\ [][Next]_vars

\* The control program and the daemon run on, and TCP delivers what it accepted;
\* nobody must start them, and strangers need not leave.
FairSpec == Spec /\ WF_vars(GodStep) /\ WF_vars(Daemon) /\ WF_vars(Deliver)

\* The same without the control program: it may stop where it is.
DaemonFairSpec == Spec /\ WF_vars(Daemon) /\ WF_vars(Deliver)

-----------------------------------------------------------------------------
\* The values of the variables that tie the two programs together.
TypeOK ==
  /\ God!TypeOK
  /\ dpc \in {"down", "accept", "read", "pass", "write"}
  /\ file \in Nat \cup {MISSING}
  /\ Len(backlog) <= Backlog
  /\ ready \subseteq {0} \cup Fds
  /\ dpc = "write" <=> serving # 0
  /\ Cardinality({fd \in Fds : conn[fd].live}) + Cardinality({i \in DOMAIN backlog : backlog[i].live}) <= 1

\* Nothing the control program sent is on its way or being processed.
Quiet == dpc = "accept" /\ \A c \in Connections : c.packet = NoPacket

\* When everything sent has been read, the file holds the flag issued last, if
\* since then the daemon lived, could open and write the file, and nobody else wrote
\* it.  SETFLAG has no reply, so this is all that can be known of it.  The accept
\* loop takes the connections in order.  The select loop may apply an older flag
\* last, but only one still fresh, so not when PACKET_TIMEOUT has passed between two
\* flags.
Settled ==
  Quiet /\ inited /\ issued.flag # 0 /\ ~disturbed /\ (Loop = "select" => ~hurried)
    => file = issued.flag

\* A check that follows a propagation that was sent never reports a flag as lost
\* ("PWNED") when the daemon lived, could open its file for the one and for the
\* other, and nobody else wrote it: the check cannot overtake the SETFLAG.
NoFalsePwned ==
  /\ visited.what = "reply" /\ visited.reply.kind = "packet" /\ cmd.op = "checkflag"
  /\ issued.flag = visited.node.flag /\ ~disturbed /\ ~unread
  => visited.reply.msg = visited.node.flag

\* The accept loop never puts an older flag after a newer one, whatever is
\* delayed, blocked or restarted in between.
NoRegress == [][applied' >= applied]_vars

AllRead == \A c \in Connections : c.packet = NoPacket

\* The daemon was never started, or ended for one of these reasons, and what it had
\* not read is lost.
EndedBy(reasons) == dpc = "down" /\ (ended \in reasons \/ ended = "no")

\* The select loop reads whatever the control program sent, also when strangers hold
\* their connections open for ever, or break them off.  Only its end keeps it from
\* that, by a crash or since accept() fails, for strangers may take every descriptor
\* (libctf.c:1016); the end of a connection does not end it.
Served == []<>(\/ dpc # "down" /\ AllRead
               \/ EndedBy({"crash", "accept"}))

\* The accept loop too reads whatever was sent, behind any number of connections and
\* though the control program may hang, with three exceptions: it waits in read() for
\* a stranger who neither sends nor leaves; it crashed or accept() failed; a stranger's
\* connection was reset, whose read() fails, which ends the daemon with whatever was
\* sent behind (client-daemon.c:92).
HeldByStrangerOnly ==
  []<>(\/ dpc # "down" /\ AllRead
       \/ dpc = "read" /\ Idle(conn[1])
       \/ EndedBy({"crash", "accept", "reset"}))
=============================================================================
