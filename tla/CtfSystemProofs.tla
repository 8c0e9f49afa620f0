-------------------------- MODULE CtfSystemProofs --------------------------
(* What holds of the control program and a daemon together, for both loops,*)
(* every number of connections, crashes and strangers, every delay of the  *)
(* network and every skew of the clocks.                                   *)
EXTENDS CtfSystem, FiniteSetTheorems, TLAPS

\* The control program's own module, with the theorems about it.  Whatever a
\* daemon may send is a reply there.
GP == INSTANCE CtfGodProofs WITH
  KeyLines <- <<1>>,
  FlagFiles <- {<<[ip |-> 1, port |-> 1, flag |-> 10]>>},
  CsumLines <- <<[port |-> 1, mem |-> Hash, file |-> Hash]>>,
  Msgs <- Nat, LongFlags <- {}, MaxFds <- 1

LEMMA GodAssumptions == GP!GodAssumption
BY SystemAssumption, DaemonAssumption
DEF GP!GodAssumption, God!Ops, GP!Ops, GP!Paths, God!Paths, GP!Line

-----------------------------------------------------------------------------
(* The control program.                                                    *)

\* A packet; type 0 is none.
Packet == [id : 0 .. 4, msg : Nat, ts : Nat]
ReplyOK == reply = NoPacket \/ (reply \in Packet /\ reply.id # 0)

\* What neither program does.
Alone ==
  \/ DaemonBoot \/ DaemonCrash \/ Interfere \/ Deliver \/ StrangerConnects
  \/ (\E how \in {"fin", "rst"} : StrangerLeaves(how)) \/ Tick \/ UNCHANGED vars

\* A step is the control program's, or leaves it alone.
LEMMA OtherSteps ==
  ASSUME [Next]_vars
  PROVE  \/ GodStart \/ GodStep
         \/ UNCHANGED <<godVars, issued, hurried>> /\ (Daemon \/ Alone)
<1>1. ASSUME NEW how, StrangerLeaves(how) PROVE UNCHANGED <<godVars, issued, hurried>>
  BY <1>1 DEF StrangerLeaves, System
<1> QED
  BY <1>1 DEF Next, Alone, vars, Daemon, DaemonBoot, DaemonCrash, Interfere, Deliver,
     StrangerConnects, Tick, System

\* In the system the control program does nothing that its module does not allow.
LEMMA GodNext == ASSUME ReplyOK, GP!FirstInv, [Next]_vars PROVE [GP!Next]_(GP!vars)
<1> USE DEF GP!Next, GP!Progress
<1>1. CASE GodStart
  <2>1. PICK c \in Commands : God!Start(c)
    BY <1>1 DEF GodStart
  <2>2. GP!Start(c)
    <3>1. God!Work(c) = GP!Work(c)
      BY DEF God!Work, God!Propogate, God!EnumClients, God!FlagsOf,
         God!Teams, God!IsFirst, God!OfTeam, God!OnPort, God!NonEmpty, God!Line, God!Keep,
         God!FlattenSeq, GP!Work, GP!Propogate, GP!EnumClients, GP!FlagsOf, GP!Teams, GP!IsFirst,
         GP!OfTeam, GP!OnPort, GP!NonEmpty, GP!Line, GP!Keep, GP!FlattenSeq, God!Reverse, GP!Reverse
    <3>2. God!Parses <=> GP!Parses
      BY DEF God!Parses, GP!Parses, God!Teams, GP!Teams, God!Reverse, GP!Reverse
    <3>3. God!Begin(c, God!SUCCESS) <=> GP!Begin(c, GP!SUCCESS)
      BY DEF God!Begin, GP!Begin, God!SUCCESS, GP!SUCCESS, God!NoVisit, GP!NoVisit,
         God!NoReply, GP!NoReply, God!PACKET_GETFLAG, GP!PACKET_GETFLAG
    <3> QED BY <2>1, <3>1, <3>2, <3>3 DEF God!Start, GP!Start
  <2> QED BY <2>2
<1>2. CASE GodConnect
  <2>1. GP!Connect
    BY <1>2 DEF GodConnect, God!Connect, GP!Connect, God!SUCCESS, GP!SUCCESS, God!Node, GP!Node,
       God!NoReply, GP!NoReply, God!PACKET_GETFLAG, GP!PACKET_GETFLAG
  <2> QED BY <2>1
<1>3. CASE GodDown
  <2>1. PICK why \in {"refused", "timeout"} : God!Down(why)
    BY <1>3 DEF GodDown
  <2>2. GP!Down(why)
    BY <2>1 DEF God!Down, GP!Down, God!FAIL, GP!FAIL, God!Node, GP!Node, God!Advance, GP!Advance,
       God!NoReply, GP!NoReply, God!PACKET_GETFLAG, GP!PACKET_GETFLAG
  <2> QED BY <2>2
<1>4. ASSUME NEW ok \in BOOLEAN, GodSendRequest(ok) PROVE GP!Next
  <2>1. GP!SendRequest(ok)
    BY <1>4 DEF GodSendRequest, God!SendRequest, GP!SendRequest, God!SUCCESS, GP!SUCCESS,
       God!FAIL, GP!FAIL, God!SetOps, GP!SetOps, God!history, GP!history
  <2> QED BY <2>1
<1>5. ASSUME NEW ok \in BOOLEAN, GodSendFlag(ok) PROVE GP!Next
  <2>1. GP!SendFlag(ok)
    BY <1>5 DEF GodSendFlag, God!SendFlag, GP!SendFlag, God!SUCCESS, GP!SUCCESS,
       God!FAIL, GP!FAIL, God!SetOps, GP!SetOps, God!Node, GP!Node, God!Advance, GP!Advance
  <2> QED BY <2>1
<1>6. CASE GodReceive
  <2>1. PICK r \in GP!Replies : God!Receive(r)
    <3>1. God!NoReply \in GP!Replies
      BY DEF GP!Replies, GP!NoReply, God!NoReply, GP!PACKET_GETFLAG, God!PACKET_GETFLAG
    <3>2. reply # NoPacket =>
            [kind |-> "packet", id |-> reply.id, msg |-> reply.msg] \in GP!Replies
      BY DEF ReplyOK, Packet, GP!Replies, GP!Packets
    <3> QED BY <1>6, <3>1, <3>2 DEF GodReceive
  <2>2. GP!Receive(r)
    BY <2>1 DEF God!Receive, GP!Receive, God!Verdict, GP!Verdict, God!SUCCESS, GP!SUCCESS,
       God!FAIL, GP!FAIL, God!Node, GP!Node, God!Advance, GP!Advance, God!FlagOps, GP!FlagOps,
       God!PACKET_GETFLAG, GP!PACKET_GETFLAG, God!HashPackets, GP!HashPackets,
       God!PACKET_CHECKSUM_FILE, GP!PACKET_CHECKSUM_FILE, God!PACKET_CHECKSUM_MEM,
       GP!PACKET_CHECKSUM_MEM, God!MemOk, GP!MemOk, God!FileOk, GP!FileOk, God!Entry, GP!Entry
  <2> QED BY <2>2
<1>7. CASE GodLocal
  <2>1. CASE God!OpenFlags
    <3>1. God!NewFlags = GP!NewFlags
      BY DEF God!NewFlags, GP!NewFlags, God!FlagsOf, GP!FlagsOf, God!Teams, GP!Teams,
         God!IsFirst, GP!IsFirst, God!OfTeam, GP!OfTeam, God!Line, GP!Line, God!Keep, GP!Keep,
         God!FlattenSeq, GP!FlattenSeq, God!Reverse, GP!Reverse
    <3>2. GP!OpenFlags
      BY <2>1, <3>1 DEF God!OpenFlags, GP!OpenFlags, God!history, GP!history
    <3> QED BY <3>2
  <2>3. CASE God!WriteFlags(Len(unwritten))
    <3>1. GP!WriteFlags(Len(unwritten))
      BY <2>3 DEF God!WriteFlags, GP!WriteFlags, God!Written, GP!Written, God!End, GP!End,
         God!history, GP!history
    <3>2. Len(unwritten) \in 0 .. Len(unwritten)
      BY DEF GP!FirstInv
    <3> QED BY <3>1, <3>2
  <2>2. CASE God!Exit
    <3>1. GP!Exit
      BY <2>2 DEF God!Exit, GP!Exit, God!End, GP!End, God!history, GP!history
    <3> QED BY <3>1
  <2> QED BY <1>7, <2>1, <2>2, <2>3 DEF GodLocal
<1>8. CASE UNCHANGED godVars
  BY <1>8 DEF godVars, GP!vars
<1> QED
  BY <1>1, <1>2, <1>3, <1>4, <1>5, <1>6, <1>7, <1>8, OtherSteps DEF GodStep

LEMMA GodStarts == Init => GP!Init
BY DEF Init, God!Init, GP!Init, God!SUCCESS, GP!SUCCESS, God!NoVisit, GP!NoVisit,
   God!NoReply, GP!NoReply, God!PACKET_GETFLAG, GP!PACKET_GETFLAG

-----------------------------------------------------------------------------
(* The connections and the daemon's place in its loop.                     *)

Conn == [who : {"none", "god", "stranger"}, packet : Packet, here : BOOLEAN,
         eof : {"no", "fin", "rst"}, live : BOOLEAN]

\* The connections that occur: only the control program sends, and it leaves
\* behind a SETFLAG.
Sound ==
  {c \in Conn :
    /\ c.packet.id = 0 => c.packet = NoPacket /\ ~ c.here
    /\ c.who # "god" => c.packet = NoPacket /\ ~ c.live
    /\ c.live => c.eof = "no" /\ c.packet.id # 4}

Flags ==
  /\ inited \in BOOLEAN /\ unread \in BOOLEAN /\ disturbed \in BOOLEAN /\ hurried \in BOOLEAN
  /\ file \in Nat \cup {MISSING} /\ applied \in Nat /\ now \in Nat
  /\ issued \in [flag : Nat, ts : Nat]

\* A descriptor that select() reported stays readable until its turn comes, and
\* a flag is written for the packet that asked for it.
WireInv ==
  /\ dpc \in {"down", "accept", "read", "pass", "write"}
  /\ Flags /\ ReplyOK
  /\ backlog \in Seq(Sound) /\ Len(backlog) <= Backlog /\ conn \in [Fds -> Sound]
  /\ ready \subseteq {0} \cup Fds /\ serving \in {0} \cup Fds
  /\ 0 \in ready => backlog # <<>>
  /\ \A fd \in Fds : fd \in ready => Readable(conn[fd]) /\ fd # serving
  /\ dpc = "write" <=> serving # 0
  /\ serving # 0 => conn[serving].packet.id = 4 /\ conn[serving].here
  /\ dpc = "read" => Loop = "accept"
  /\ dpc = "pass" => Loop = "select"
  /\ Loop = "accept" \/ dpc \notin {"pass", "write"} => ready = {}
  /\ dpc = "down" => backlog = <<>> /\ conn = [fd \in Fds |-> NoConn]
  /\ Loop = "accept" =>
       \A fd \in Fds : conn[fd] = NoConn \/ (fd = 1 /\ dpc \in {"read", "write"})
  /\ Loop = "accept" => serving \in {0, 1}

LEMMA NoneSound == NoPacket \in Packet /\ NoConn \in Sound
BY DEF NoPacket, Packet, NoConn, Sound, Conn

LEMMA FdsType == 0 \notin Fds /\ 1 \in Fds /\ Fds \subseteq Nat
BY DaemonAssumption

LEMMA NewSound ==
  ASSUME NEW who \in {"god", "stranger"}
  PROVE  /\ NewConn(who) \in Sound /\ NewConn(who).packet = NoPacket
         /\ NewConn(who).who = who /\ NewConn(who).eof = "no"
         /\ NewConn(who).live <=> who = "god"
<1>1. NoConn \in Conn /\ NoConn.packet = NoPacket /\ ~ NoConn.here /\ NoConn.eof = "no"
  BY NoneSound DEF NoConn, Sound
<1>2. NewConn(who) \in Conn
  BY <1>1 DEF NewConn, Conn
<1>3. /\ NewConn(who).packet = NoPacket /\ ~ NewConn(who).here /\ NewConn(who).eof = "no"
      /\ NewConn(who).who = who
      /\ NewConn(who).live <=> who = "god"
  BY <1>1 DEF NewConn, Conn
<1>4. NoPacket.id = 0
  BY DEF NoPacket
<1> QED BY <1>2, <1>3, <1>4 DEF Sound

LEMMA WireInit == Init => WireInv
<1> SUFFICES ASSUME Init PROVE WireInv
  OBVIOUS
<1>1. Flags
  <2>1. /\ inited \in BOOLEAN /\ unread \in BOOLEAN /\ disturbed \in BOOLEAN
        /\ hurried \in BOOLEAN
    BY DEF Init, DaemonInit
  <2>2. file \in Nat \cup {MISSING} /\ applied \in Nat /\ now \in Nat
    BY DEF Init, DaemonInit, EMPTY
  <2>3. issued \in [flag : Nat, ts : Nat]
    BY DEF Init
  <2> QED BY <2>1, <2>2, <2>3 DEF Flags
<1>2. ReplyOK
  BY DEF Init, DaemonInit, ReplyOK
<1> QED BY <1>1, <1>2, NoneSound, FdsType, DaemonAssumption DEF Init, DaemonInit, WireInv

\* A connection whose packet has been processed.
Taken(c) == [c EXCEPT !.packet = NoPacket, !.here = FALSE]

LEMMA TakenSound ==
  ASSUME NEW c \in Sound
  PROVE  /\ Taken(c) \in Sound /\ Taken(c).packet = NoPacket
         /\ Taken(c).live <=> c.live
<1>1. NoPacket \in Packet /\ NoPacket.id = 0
  BY NoneSound DEF NoPacket
<1>2. Taken(c) \in Conn
  BY <1>1 DEF Taken, Sound, Conn
<1>3. /\ Taken(c).packet = NoPacket /\ ~ Taken(c).here /\ Taken(c).who = c.who
      /\ Taken(c).eof = c.eof
      /\ Taken(c).live <=> c.live
  BY DEF Taken, Sound, Conn
<1> QED BY <1>1, <1>2, <1>3 DEF Sound

\* What Done does to the connections.
LEMMA DoneConn ==
  ASSUME conn \in [Fds -> Sound], NEW fd \in Fds, Done(fd)
  PROVE  /\ conn' \in [Fds -> Sound] /\ serving' = 0
         /\ \A x \in Fds : x # fd => conn'[x] = conn[x]
         /\ Loop = "accept" => dpc' = "accept" /\ conn'[fd] = NoConn
         /\ Loop # "accept" => dpc' = "pass" /\ conn'[fd] = Taken(conn[fd])
<1>1. CASE Loop = "accept"
  BY <1>1, NoneSound DEF Done
<1>2. CASE Loop # "accept"
  <2>1. Taken(conn[fd]) \in Sound
    BY TakenSound
  <2>2. conn' = [conn EXCEPT ![fd] = Taken(conn[fd])] /\ dpc' = "pass" /\ serving' = 0
    BY <1>2 DEF Done, Taken
  <2> QED BY <1>2, <2>1, <2>2
<1> QED BY <1>1, <1>2

\* What the dispatch on a packet does.
LEMMA Processed ==
  ASSUME WireInv, NEW fd \in Fds, conn[fd].here, ClientProcess(fd)
  PROVE  /\ conn[fd].packet.id # 0
         /\ \/ Done(fd) /\ file' = file
            \/ /\ dpc' = "write" /\ serving' = fd /\ file' = EMPTY
               /\ conn[fd].packet.id = 4 /\ inited /\ Fresh(conn[fd].packet)
               /\ UNCHANGED <<conn, reply, disturbed>>
         /\ ReplyOK' /\ disturbed' \in BOOLEAN /\ unread' \in BOOLEAN
<1> DEFINE p == conn[fd].packet
<1>0. conn[fd] \in Sound /\ p \in Packet
  BY DEF WireInv, Sound, Conn
<1>1. p.id # 0
  BY <1>0 DEF Sound
<1>2. ASSUME NEW id \in 1 .. 3, NEW msg \in Nat, Answer(fd, id, msg) PROVE ReplyOK'
  <2>1. reply' = reply \/ reply' = [id |-> id, msg |-> msg, ts |-> now]
    BY <1>2 DEF Answer
  <2>2. now \in Nat /\ ReplyOK
    BY DEF WireInv, Flags
  <2>3. CASE reply' = reply
    BY <2>2, <2>3 DEF ReplyOK
  <2>4. CASE reply' = [id |-> id, msg |-> msg, ts |-> now]
    BY <2>2, <2>4 DEF ReplyOK, Packet
  <2> QED BY <2>1, <2>3, <2>4
<1>3. /\ disturbed \in BOOLEAN /\ inited \in BOOLEAN /\ unread \in BOOLEAN
      /\ ReplyOK /\ file \in Nat \cup {MISSING}
  BY DEF WireInv, Flags
<1>4. CASE /\ ~ (inited /\ Fresh(p)) /\ Done(fd)
           /\ disturbed' = (disturbed \/ (inited /\ p.id = 4)) /\ UNCHANGED <<file, reply, unread>>
  BY <1>1, <1>3, <1>4 DEF ReplyOK
<1>5. CASE inited /\ Fresh(p) /\ p.id = 3 /\ GetFlag(fd)
  <2>1. (IF file = MISSING THEN EMPTY ELSE file) \in Nat /\ EMPTY \in Nat
    BY <1>3 DEF MISSING, EMPTY
  <2>2. ReplyOK'
    BY <1>2, <1>5, <2>1 DEF GetFlag
  <2> QED BY <1>1, <1>3, <1>5, <2>2 DEF GetFlag
<1>6. CASE inited /\ Fresh(p) /\ p.id = 4 /\ OpenFlag(fd)
  BY <1>1, <1>3, <1>6 DEF OpenFlag, ReplyOK
<1>7. CASE /\ inited /\ Fresh(p) /\ p.id \in {1, 2}
           /\ \E sum \in {Hash, EMPTY} : Answer(fd, p.id, sum)
           /\ Done(fd) /\ UNCHANGED <<file, unread, disturbed>>
  <2>1. ReplyOK'
    BY <1>2, <1>7, DaemonAssumption DEF EMPTY
  <2> QED BY <1>1, <1>3, <1>7, <2>1
<1> QED BY <1>4, <1>5, <1>6, <1>7 DEF ClientProcess

\* The lowest ready socket, and the lowest free descriptor.
LEMMA LowestOf ==
  ASSUME NEW S, S \subseteq Nat, S # {}
  PROVE  (CHOOSE x \in S : \A y \in S : x <= y) \in S
<1>1. PICK x \in S : \A y \in S : x <= y
  BY GodAssumptions, GP!NatMin
<1> QED BY <1>1

LEMMA FirstReady == ASSUME ready \subseteq {0} \cup Fds, ready # {} PROVE First \in ready
<1>1. ready \subseteq Nat
  BY FdsType
<1> QED BY <1>1, LowestOf DEF First

LEMMA NewFdFree == ASSUME Free # {} PROVE NewFd \in Free
<1>1. Free \subseteq Nat
  BY FdsType DEF Free
<1> QED BY <1>1, LowestOf DEF NewFd

\* The steps of the daemon.
LEMMA WireDaemon == ASSUME WireInv, Daemon PROVE WireInv'
<1> USE FdsType
<1>0. Flags /\ ReplyOK /\ backlog \in Seq(Sound) /\ conn \in [Fds -> Sound]
  BY DEF WireInv
<1>a. UNCHANGED <<hurried, issued>>
  BY DEF Daemon, System
<1>b. DaemonStep
  BY DEF Daemon
<1>c. ASSUME dpc' = "down", backlog' = <<>>, conn' = [fd \in Fds |-> NoConn], ready' = {},
             serving' = 0, Flags', UNCHANGED reply
      PROVE  WireInv'
  <2>1. conn' \in [Fds -> Sound]
    BY <1>c, NoneSound
  <2>2. ReplyOK'
    BY <1>0, <1>c DEF ReplyOK
  <2> QED BY <1>c, <2>1, <2>2, DaemonAssumption DEF WireInv
<1>d. backlog # <<>> => /\ Head(backlog) \in Sound /\ Tail(backlog) \in Seq(Sound)
                        /\ Len(Tail(backlog)) <= Backlog
  BY <1>0, DaemonAssumption DEF WireInv
<1>1. CASE WriteFlag
  <2>1. /\ serving \in Fds /\ Done(serving) /\ disturbed' \in BOOLEAN
        /\ UNCHANGED <<inited, backlog, ready, reply, now, unread>>
    BY <1>0, <1>1 DEF WriteFlag, WireInv, Flags
  <2>2. conn[serving].packet \in Packet
    BY <1>0, <2>1 DEF Sound, Conn
  <2>3. Flags' /\ ReplyOK'
    BY <1>0, <1>a, <1>1, <2>1, <2>2 DEF WriteFlag, Flags, ReplyOK, Packet
  <2>4. Loop = "accept" \/ dpc' = "pass"
    BY <1>0, <2>1, DoneConn
  <2> QED BY <1>0, <2>1, <2>3, <2>4, DoneConn, DaemonAssumption DEF WireInv
<1>2. CASE Accept
  <2>1. Flags' /\ ReplyOK'
    BY <1>0, <1>a, <1>2 DEF Accept, Flags, ReplyOK
  <2>2. conn' \in [Fds -> Sound] /\ dpc' = "read" /\ Loop = "accept" /\ serving' = 0 /\ ready' = {}
    BY <1>0, <1>d, <1>2 DEF Accept, WireInv
  <2> QED BY <1>d, <1>2, <2>1, <2>2 DEF Accept, WireInv
<1>3. CASE Read
  <2>1. ClientProcess(1) /\ conn[1].here /\ UNCHANGED <<inited, backlog, ready, now, applied>>
        /\ Loop = "accept" /\ ready = {}
    BY <1>3 DEF Read, WireInv
  <2>2. file' \in Nat \cup {MISSING}
    BY <1>0, <2>1, Processed DEF Flags, EMPTY
  <2>3. Flags' /\ ReplyOK'
    BY <1>0, <1>a, <2>1, <2>2, Processed DEF Flags
  <2>4. CASE Done(1)
    BY <1>0, <2>1, <2>3, <2>4, DoneConn, DaemonAssumption DEF WireInv
  <2>5. CASE ~ Done(1)
    BY <1>0, <2>1, <2>3, <2>5, Processed, DaemonAssumption DEF WireInv
  <2> QED BY <2>4, <2>5
<1>4. CASE ReadEnd
  <2>1. /\ Done(1) /\ UNCHANGED <<inited, file, backlog, ready, reply, now, applied, unread, disturbed>>
        /\ Loop = "accept" /\ ready = {}
    BY <1>4 DEF ReadEnd, WireInv
  <2>2. Flags' /\ ReplyOK'
    BY <1>0, <1>a, <2>1 DEF Flags, ReplyOK
  <2> QED BY <1>0, <2>1, <2>2, DoneConn, DaemonAssumption DEF WireInv
<1>5. CASE ReadError \/ AcceptError \/ PassAcceptError
  <2>1. (\E why : Die(why)) /\ UNCHANGED <<file, reply, now, applied, unread>>
    BY <1>5 DEF ReadError, AcceptError, PassAcceptError
  <2>2. Flags'
    BY <1>0, <1>a, <2>1 DEF Flags, Die
  <2> QED BY <1>c, <2>1, <2>2 DEF Die
<1>6. CASE Select
  <2>1. Flags' /\ ReplyOK'
    BY <1>0, <1>a, <1>6 DEF Select, Flags, ReplyOK
  <2>2. /\ ready' \subseteq {0} \cup Fds /\ dpc' = "pass" /\ Loop = "select" /\ serving' = 0
        /\ \A fd \in Fds : fd \in ready' => Readable(conn'[fd])
        /\ 0 \in ready' => backlog' # <<>>
    BY <1>6 DEF Select, WireInv, Readable
  <2> QED BY <1>0, <1>6, <2>1, <2>2 DEF Select, WireInv
<1>7. CASE PassAccept
  <2>1. Flags' /\ ReplyOK'
    BY <1>0, <1>a, <1>7 DEF PassAccept, Flags, ReplyOK
  <2>2. First \in ready /\ 0 \in ready /\ backlog # <<>>
    BY <1>7, FirstReady DEF PassAccept, WireInv
  <2>3. NewFd \in Fds /\ conn[NewFd] = NoConn
    BY <1>7, NewFdFree DEF PassAccept, Free
  <2>4. NewFd \notin ready
    BY <2>3 DEF WireInv, Readable, NoConn
  <2>5. conn' \in [Fds -> Sound] /\ \A x \in Fds : x # NewFd => conn'[x] = conn[x]
    BY <1>0, <1>d, <1>7, <2>2, <2>3 DEF PassAccept
  <2>6. \A fd \in Fds : fd \in ready' => Readable(conn'[fd]) /\ fd # serving
    BY <1>7, <2>4, <2>5 DEF PassAccept, WireInv
  <2> QED BY <1>0, <1>d, <1>7, <2>1, <2>2, <2>5, <2>6 DEF PassAccept, WireInv
<1>8. CASE PassRead
  <2>1. /\ First \in Fds /\ ClientProcess(First) /\ conn[First].here /\ ready' = ready \ {First}
        /\ UNCHANGED <<inited, backlog, now, applied>> /\ Loop = "select" /\ dpc = "pass"
    BY <1>8, FirstReady DEF PassRead, WireInv
  <2>2. file' \in Nat \cup {MISSING}
    BY <1>0, <2>1, Processed DEF Flags, EMPTY
  <2>3. Flags' /\ ReplyOK'
    BY <1>0, <1>a, <2>1, <2>2, Processed DEF Flags
  <2>4. CASE Done(First)
    BY <1>0, <2>1, <2>3, <2>4, DoneConn, DaemonAssumption DEF WireInv
  <2>5. CASE ~ Done(First)
    BY <1>0, <2>1, <2>3, <2>5, Processed, DaemonAssumption DEF WireInv
  <2> QED BY <2>4, <2>5
<1>9. CASE PassEnd
  <2>1. Flags' /\ ReplyOK'
    BY <1>0, <1>a, <1>9 DEF PassEnd, Flags, ReplyOK
  <2>2. First \in Fds /\ conn' \in [Fds -> Sound] /\ \A x \in Fds : x # First => conn'[x] = conn[x]
    BY <1>0, <1>9, NoneSound, FirstReady DEF PassEnd, WireInv
  <2> QED BY <1>0, <1>9, <2>1, <2>2 DEF PassEnd, WireInv
<1>10. CASE PassOver
  <2>1. Flags' /\ ReplyOK'
    BY <1>0, <1>a, <1>10 DEF PassOver, Flags, ReplyOK
  <2> QED BY <1>0, <1>10, <2>1 DEF PassOver, WireInv
<1> QED
  BY <1>b, <1>1, <1>2, <1>3, <1>4, <1>5, <1>6, <1>7, <1>8, <1>9, <1>10 DEF DaemonStep

\* A change of the open connections, G.
LEMMA LiveConns ==
  ASSUME conn \in [Fds -> Sound], backlog \in Seq(Sound), NEW G \in [Sound -> Sound],
         backlog' = [i \in DOMAIN backlog |-> IF backlog[i].live THEN G[backlog[i]] ELSE backlog[i]],
         conn' = [fd \in Fds |-> IF conn[fd].live THEN G[conn[fd]] ELSE conn[fd]]
  PROVE  /\ conn' \in [Fds -> Sound] /\ backlog' \in Seq(Sound) /\ Len(backlog') = Len(backlog)
         /\ backlog' = <<>> <=> backlog = <<>>
BY SMTT(60)

LEMMA WireLive ==
  ASSUME WireInv, NEW G \in [Sound -> Sound],
         \A c \in Sound : c.live /\ c.here => G[c].here,
         backlog' = [i \in DOMAIN backlog |-> IF backlog[i].live THEN G[backlog[i]] ELSE backlog[i]],
         conn' = [fd \in Fds |-> IF conn[fd].live THEN G[conn[fd]] ELSE conn[fd]],
         UNCHANGED <<dpc, ready, serving>>, Flags', ReplyOK'
  PROVE  WireInv'
<1>0. conn \in [Fds -> Sound] /\ backlog \in Seq(Sound)
  BY DEF WireInv
<1>1. /\ conn' \in [Fds -> Sound] /\ backlog' \in Seq(Sound) /\ Len(backlog') = Len(backlog)
      /\ backlog' = <<>> <=> backlog = <<>>
  BY <1>0, LiveConns
<1>2. ASSUME NEW fd \in Fds, fd \in ready PROVE Readable(conn'[fd])
  <2>1. Readable(conn[fd]) /\ conn[fd] \in Sound
    BY <1>0, <1>2 DEF WireInv
  <2> QED BY <2>1 DEF Readable, Sound
<1>3. ASSUME serving # 0 PROVE conn'[serving].packet.id = 4 /\ conn'[serving].here
  <2>1. serving \in Fds /\ conn[serving].packet.id = 4 /\ conn[serving].here /\ conn[serving] \in Sound
    BY <1>0, <1>3 DEF WireInv
  <2> QED BY <2>1 DEF Sound
<1>4. ASSUME dpc = "down" PROVE backlog' = <<>> /\ conn' = [fd \in Fds |-> NoConn]
  <2>1. conn = [fd \in Fds |-> NoConn] /\ backlog = <<>>
    BY <1>4 DEF WireInv
  <2> QED BY <1>1, <2>1 DEF NoConn
<1>5. ASSUME NEW fd \in Fds, conn[fd] = NoConn PROVE conn'[fd] = NoConn
  BY <1>5 DEF NoConn
<1> QED BY <1>1, <1>2, <1>3, <1>4, <1>5 DEF WireInv

\* The line of the flag file, which is the only one that a list can have; while the
\* generator writes the file, the line it will have.
InPlace == cmd.path = "ctf_svrflags.txt"
Lines == IF pc = "write" /\ InPlace THEN unwritten ELSE files["ctf_svrflags.txt"]
Flag == Lines[1].flag
OneLine == Lines = <<[ip |-> 1, port |-> 1, flag |-> Flag]>>

\* The daemon that is visited has the flag of the file.
LEMMA NodeFlag ==
  ASSUME GP!FirstInv, OneLine, calls # <<>>
  PROVE  God!Node.flag = Flag /\ Flag \in Nat
<1>1. calls[1] \in GP!Calls \cap GP!NonEmpty
  BY DEF GP!FirstInv
<1>2. calls[1] \in Seq(GP!Line) /\ GP!TakenFrom(files["ctf_svrflags.txt"], calls[1]) /\ calls[1] # <<>>
  BY <1>1 DEF GP!Calls, GP!CallLists, GP!NonEmpty
<1>3. 1 \in DOMAIN calls[1] /\ calls[1][1] \in GP!Line
  BY <1>2
<1>4. PICK k \in DOMAIN files["ctf_svrflags.txt"] : calls[1][1] = files["ctf_svrflags.txt"][k]
  BY <1>2, <1>3 DEF GP!TakenFrom
<1>0. pc # "write"
  BY DEF GP!FirstInv
<1>5. k = 1
  BY <1>0, <1>4 DEF OneLine, Lines
<1> QED BY <1>0, <1>3, <1>4, <1>5 DEF God!Node, Flag, Lines, GP!Line

\* A request is no SETFLAG.
LEMMA RequestId ==
  ASSUME GP!FirstInv, NEW ok, God!SendRequest(ok)
  PROVE  PacketId \in 1 .. 3 /\ (cmd.op = "checkflag" => PacketId = 3)
<1>1. cmd.op \in GP!Ops /\ cmd.op \notin GP!SetOps
  BY GodAssumptions
  DEF God!SendRequest, God!SetOps, GP!SetOps, GP!FirstInv, GP!TypeOK, GP!GodAssumption
<1>2. CASE cmd.op \in {"checkflag", "getflag"}
  BY <1>2 DEF PacketId
<1>3. CASE cmd.op \in {"checkmem", "getmem"}
  BY <1>3 DEF PacketId
<1>4. CASE cmd.op \in {"checkfile", "getfile"}
  BY <1>4 DEF PacketId
<1>5. cmd.op # "generate"
  BY DEF God!SendRequest, GP!FirstInv
<1> QED BY <1>1, <1>2, <1>3, <1>4, <1>5 DEF GP!Ops, GP!SetOps

\* The steps of the control program.
LEMMA WireGod ==
  ASSUME WireInv, GP!FirstInv, OneLine, GodStep \/ GodStart
  PROVE  WireInv'
<1> USE FdsType
<1>0. Flags /\ ReplyOK /\ backlog \in Seq(Sound) /\ conn \in [Fds -> Sound]
  BY DEF WireInv
<1>1. CASE GodStart \/ GodLocal
  <2>1. UNCHANGED <<daemonVars, now, issued, hurried>>
    BY <1>1 DEF GodStart, GodLocal
  <2>2. Flags' /\ ReplyOK'
    BY <1>0, <2>1 DEF Flags, ReplyOK, daemonVars
  <2> QED BY <2>1, <2>2 DEF WireInv, daemonVars
<1>2. CASE GodConnect
  <2>1. Flags'
    BY <1>0, <1>2 DEF GodConnect, Flags, Rest
  <2>2. ReplyOK'
    BY <1>2 DEF GodConnect, ReplyOK
  <2>3. /\ backlog' \in Seq(Sound) /\ Len(backlog') <= Backlog /\ backlog' # <<>>
        /\ dpc # "down" /\ UNCHANGED <<conn, Rest>>
    BY <1>0, <1>2, NewSound, DaemonAssumption DEF GodConnect
  <2> QED BY <2>1, <2>2, <2>3 DEF WireInv, Rest
<1>3. CASE GodDown
  <2>1. UNCHANGED <<backlog, conn, reply, unread, disturbed, issued, hurried, Rest>>
    BY <1>3 DEF GodDown
  <2>2. Flags' /\ ReplyOK'
    BY <1>0, <2>1 DEF Flags, ReplyOK, Rest
  <2> QED BY <2>1, <2>2 DEF WireInv, Rest
<1>4. ASSUME NEW ok \in BOOLEAN, GodSendRequest(ok) PROVE WireInv'
  <2> DEFINE p == [id |-> PacketId, msg |-> 0, ts |-> now]
             G == [c \in Sound |-> IF c.live THEN [c EXCEPT !.packet = p] ELSE c]
  <2>1. PacketId \in 1 .. 3
    BY <1>4, RequestId DEF GodSendRequest
  <2>2. p \in Packet /\ p.id \in 1 .. 3
    BY <1>0, <2>1 DEF Flags, Packet
  <2> HIDE DEF p
  <2>3. ASSUME NEW c \in Sound, c.live PROVE [c EXCEPT !.packet = p] \in Sound
    BY <2>2, <2>3 DEF Sound, Conn
  <2>4. G \in [Sound -> Sound]
    BY <2>3
  <2>5. \A c \in Sound : c.live => G[c] = [c EXCEPT !.packet = p] /\ (c.here => G[c].here)
    BY DEF Sound, Conn
  <2> HIDE DEF G
  <2>6. /\ backlog' = [i \in DOMAIN backlog |-> IF backlog[i].live THEN G[backlog[i]] ELSE backlog[i]]
        /\ conn' = [fd \in Fds |-> IF conn[fd].live THEN G[conn[fd]] ELSE conn[fd]]
    <3>1. /\ backlog' = [i \in DOMAIN backlog |->
                          IF backlog[i].live THEN [backlog[i] EXCEPT !.packet = p] ELSE backlog[i]]
          /\ conn' = [fd \in Fds |->
                       IF conn[fd].live THEN [conn[fd] EXCEPT !.packet = p] ELSE conn[fd]]
      BY <1>4 DEF GodSendRequest, OnLive, p
    <3> QED BY <1>0, <2>5, <3>1
  <2>7. Flags' /\ ReplyOK' /\ UNCHANGED <<dpc, ready, serving>>
    BY <1>0, <1>4 DEF GodSendRequest, Flags, ReplyOK, Rest
  <2> QED BY <2>4, <2>5, <2>6, <2>7, WireLive
<1>5. ASSUME NEW ok \in BOOLEAN, GodSendFlag(ok) PROVE WireInv'
  <2> DEFINE p == [id |-> 4, msg |-> God!Node.flag, ts |-> now]
             W(c) == Closed([c EXCEPT !.packet = p])
             G == [c \in Sound |-> IF c.live THEN W(c) ELSE c]
  <2>1. God!Node.flag \in Nat
    BY <1>5, NodeFlag DEF GodSendFlag, God!SendFlag, GP!FirstInv
  <2>2. p \in Packet /\ p.id = 4
    BY <1>0, <2>1 DEF Flags, Packet
  <2> HIDE DEF p
  <2>3. ASSUME NEW c \in Sound, c.live PROVE W(c) \in Sound /\ W(c).here = c.here
    <3>1. [c EXCEPT !.packet = p] \in Conn
      BY <2>2 DEF Sound, Conn
    <3>2. W(c) \in Conn
      BY <3>1 DEF Closed, Conn
    <3>3. W(c).packet = p /\ W(c).who = c.who /\ W(c).here = c.here /\ ~ W(c).live
      BY <3>1 DEF Closed, Sound, Conn
    <3> QED BY <2>2, <2>3, <3>2, <3>3 DEF Sound
  <2>4. G \in [Sound -> Sound]
    BY <2>3
  <2>5. \A c \in Sound : c.live => G[c] = W(c) /\ (c.here => G[c].here)
    BY <2>3
  <2> HIDE DEF G
  <2>6. /\ backlog' = [i \in DOMAIN backlog |-> IF backlog[i].live THEN G[backlog[i]] ELSE backlog[i]]
        /\ conn' = [fd \in Fds |-> IF conn[fd].live THEN G[conn[fd]] ELSE conn[fd]]
    BY <1>0, <1>5, <2>5 DEF GodSendFlag, OnLive, p
  <2>7. ReplyOK' /\ UNCHANGED <<dpc, ready, serving>>
    BY <1>0, <1>5 DEF GodSendFlag, ReplyOK, Rest
  <2>8. Flags'
    <3>1. issued' \in [flag : Nat, ts : Nat]
      BY <1>0, <1>5, <2>1 DEF GodSendFlag, Flags
    <3>2. disturbed' \in BOOLEAN /\ hurried' \in BOOLEAN /\ unread' \in BOOLEAN
      BY <1>0, <1>5 DEF GodSendFlag, Flags
    <3>3. UNCHANGED <<inited, file, applied, now>>
      BY <1>5 DEF GodSendFlag, Rest
    <3> QED BY <1>0, <3>1, <3>2, <3>3 DEF Flags
  <2> QED BY <2>4, <2>5, <2>6, <2>7, <2>8, WireLive
<1>6. CASE GodReceive
  <2> DEFINE G == [c \in Sound |-> IF c.live THEN Closed(c) ELSE c]
  <2>1. ASSUME NEW c \in Sound, c.live PROVE Closed(c) \in Sound /\ Closed(c).here = c.here
    <3>1. Closed(c) \in Conn
      BY DEF Closed, Sound, Conn
    <3>2. /\ Closed(c).packet = c.packet /\ Closed(c).who = c.who /\ Closed(c).here = c.here
          /\ ~ Closed(c).live
      BY DEF Closed, Sound, Conn
    <3> QED BY <3>1, <3>2 DEF Sound
  <2>2. G \in [Sound -> Sound]
    BY <2>1
  <2>3. \A c \in Sound : c.live => G[c] = Closed(c) /\ (c.here => G[c].here)
    BY <2>1
  <2> HIDE DEF G
  <2>4. /\ backlog' = [i \in DOMAIN backlog |-> IF backlog[i].live THEN G[backlog[i]] ELSE backlog[i]]
        /\ conn' = [fd \in Fds |-> IF conn[fd].live THEN G[conn[fd]] ELSE conn[fd]]
    BY <1>0, <1>6, <2>3 DEF GodReceive, OnLive
  <2>5. Flags' /\ UNCHANGED <<dpc, ready, serving>>
    BY <1>0, <1>6 DEF GodReceive, Flags, Rest
  <2>6. ReplyOK'
    BY <1>6 DEF GodReceive, ReplyOK
  <2> QED BY <2>2, <2>3, <2>4, <2>5, <2>6, WireLive
<1> QED BY <1>1, <1>2, <1>3, <1>4, <1>5, <1>6 DEF GodStep

\* The steps of everybody else.
LEMMA WireOthers ==
  ASSUME WireInv, Alone
  PROVE  WireInv'
<1> USE FdsType
<1>0. Flags /\ ReplyOK /\ backlog \in Seq(Sound) /\ conn \in [Fds -> Sound]
  BY DEF WireInv
<1>1. CASE DaemonBoot
  <2>1. PICK keyOk \in BOOLEAN : Boot(keyOk)
    BY <1>1 DEF DaemonBoot
  <2>2. Flags' /\ ReplyOK'
    BY <1>0, <1>1, <2>1 DEF DaemonBoot, Boot, Flags, ReplyOK, System
  <2> QED BY <2>1, <2>2 DEF Boot, WireInv
<1>2. CASE DaemonCrash
  <2>1. Flags' /\ ReplyOK'
    BY <1>0, <1>2 DEF DaemonCrash, Crash, Die, Flags, ReplyOK, System
  <2>2. conn' \in [Fds -> Sound]
    BY <1>2, NoneSound DEF DaemonCrash, Crash, Die
  <2> QED BY <1>2, <2>1, <2>2, DaemonAssumption DEF DaemonCrash, Crash, Die, WireInv
<1>3. CASE Interfere
  <2>1. PICK c \in {MISSING, FOREIGN} : Tamper(c)
    BY <1>3 DEF Interfere
  <2>2. c \in Nat \cup {MISSING}
    BY DEF FOREIGN
  <2>3. Flags' /\ ReplyOK'
    BY <1>0, <1>3, <2>1, <2>2 DEF Interfere, Tamper, Flags, ReplyOK, System
  <2> QED BY <2>1, <2>3 DEF Tamper, WireInv
<1>4. CASE Deliver
  <2>1. Flags' /\ ReplyOK'
    BY <1>0, <1>4 DEF Deliver, Flags, ReplyOK, Others, System
  <2>2. ASSUME NEW c \in Sound, InFlight(c)
        PROVE  [c EXCEPT !.here = TRUE] \in Sound /\ Readable([c EXCEPT !.here = TRUE])
    BY <2>2 DEF InFlight, Sound, Conn, Readable
  <2>3. CASE \E i \in DOMAIN backlog :
               InFlight(backlog[i]) /\ backlog' = [backlog EXCEPT ![i].here = TRUE] /\ conn' = conn
    <3>1. backlog' \in Seq(Sound) /\ Len(backlog') = Len(backlog) /\ (backlog' = <<>> <=> backlog = <<>>)
      BY <1>0, <2>2, <2>3
    <3> QED BY <1>4, <2>1, <2>3, <3>1 DEF Deliver, Others, WireInv
  <2>4. CASE \E fd \in Fds :
               InFlight(conn[fd]) /\ conn' = [conn EXCEPT ![fd].here = TRUE] /\ backlog' = backlog
    <3>1. PICK fd \in Fds : InFlight(conn[fd]) /\ conn' = [conn EXCEPT ![fd].here = TRUE] /\ backlog' = backlog
      BY <2>4
    <3>2. /\ conn' \in [Fds -> Sound] /\ \A x \in Fds : x # fd => conn'[x] = conn[x]
          /\ Readable(conn'[fd]) /\ conn'[fd].packet = conn[fd].packet
      BY <1>0, <2>2, <3>1 DEF Sound, Conn
    <3>3. dpc # "down" /\ conn[fd] # NoConn
      BY <3>1 DEF WireInv, InFlight, NoConn
    <3>4. conn'[fd].here
      BY <1>0, <3>1 DEF Sound, Conn
    <3> QED BY <1>4, <2>1, <3>1, <3>2, <3>3, <3>4 DEF Deliver, Others, WireInv
  <2> QED BY <1>4, <2>3, <2>4 DEF Deliver
<1>5. CASE StrangerConnects
  <2>1. Flags' /\ ReplyOK'
    BY <1>0, <1>5 DEF StrangerConnects, Flags, ReplyOK, Others, System
  <2>2. backlog' \in Seq(Sound) /\ Len(backlog') <= Backlog /\ backlog' # <<>> /\ dpc # "down"
    BY <1>0, <1>5, NewSound, DaemonAssumption DEF StrangerConnects
  <2> QED BY <1>5, <2>1, <2>2 DEF StrangerConnects, Others, WireInv
<1>6. ASSUME NEW how \in {"fin", "rst"}, StrangerLeaves(how) PROVE WireInv'
  <2>1. Flags' /\ ReplyOK'
    BY <1>0, <1>6 DEF StrangerLeaves, Flags, ReplyOK, Others, System
  <2>2. ASSUME NEW c \in Sound, Idle(c)
        PROVE  [c EXCEPT !.eof = how] \in Sound /\ Readable([c EXCEPT !.eof = how])
    BY <2>2 DEF Idle, Sound, Conn, Readable
  <2>3. CASE \E i \in DOMAIN backlog :
               Idle(backlog[i]) /\ backlog' = [backlog EXCEPT ![i].eof = how] /\ conn' = conn
    <3>1. backlog' \in Seq(Sound) /\ Len(backlog') = Len(backlog) /\ (backlog' = <<>> <=> backlog = <<>>)
      BY <1>0, <2>2, <2>3
    <3> QED BY <1>6, <2>1, <2>3, <3>1 DEF StrangerLeaves, Others, WireInv
  <2>4. CASE \E fd \in Fds :
               Idle(conn[fd]) /\ conn' = [conn EXCEPT ![fd].eof = how] /\ backlog' = backlog
    <3>1. PICK fd \in Fds : Idle(conn[fd]) /\ conn' = [conn EXCEPT ![fd].eof = how] /\ backlog' = backlog
      BY <2>4
    <3>2. /\ conn' \in [Fds -> Sound] /\ \A x \in Fds : x # fd => conn'[x] = conn[x]
          /\ Readable(conn'[fd]) /\ conn'[fd].packet = conn[fd].packet
      BY <1>0, <2>2, <3>1 DEF Sound, Conn
    <3>3. dpc # "down" /\ conn[fd] # NoConn
      BY <3>1 DEF WireInv, Idle, NoConn
    <3>4. conn'[fd].here <=> conn[fd].here
      BY <1>0, <3>1 DEF Sound, Conn
    <3> QED BY <1>6, <2>1, <3>1, <3>2, <3>3, <3>4 DEF StrangerLeaves, Others, WireInv
  <2> QED BY <1>6, <2>3, <2>4 DEF StrangerLeaves
<1>7. CASE Tick
  <2>1. Flags' /\ ReplyOK'
    BY <1>0, <1>7 DEF Tick, Flags, ReplyOK, daemonVars, System
  <2> QED BY <1>7, <2>1 DEF Tick, daemonVars, WireInv
<1>8. CASE UNCHANGED vars
  <2>1. Flags' /\ ReplyOK'
    BY <1>0, <1>8 DEF vars, Flags, ReplyOK, daemonVars
  <2> QED BY <1>8, <2>1 DEF vars, daemonVars, WireInv
<1> QED BY <1>1, <1>2, <1>3, <1>4, <1>5, <1>6, <1>7, <1>8 DEF Alone

-----------------------------------------------------------------------------
(* The flag file of the control program.                                   *)

\* Later flags are larger numbers.
LineInv == OneLine /\ Flag \in Nat \ {0} /\ Flag <= 100 * (runs + 1) + 1 /\ runs \in Nat

LEMMA LineInit == Init => LineInv
BY DEF Init, God!Init, LineInv, OneLine, Flag, Lines

LEMMA LineStep ==
  ASSUME LineInv, GP!FirstInv, [Next]_vars
  PROVE  LineInv' /\ Flag' >= Flag /\ (pc' \in {"visit", "send", "recv"} => Flag' = Flag)
<1>1. CASE GodStart
  BY <1>1 DEF GodStart, God!Start, God!Begin, LineInv, OneLine, Flag, Lines
<1>2. CASE GodLocal /\ God!OpenFlags
  <2> DEFINE l == [ip |-> 1, port |-> 1, flag |-> Flag]
             new == [l EXCEPT !.flag = 100 * (runs + 1) + 1]
  <2>1. l \in GP!Line /\ l.ip = 1
    BY DEF LineInv, GP!Line
  <2>2. GP!NewFlags = <<new>>
    BY <1>2, <2>1, GodAssumptions, GP!NewFlagsOfOne DEF LineInv, OneLine, Lines, God!OpenFlags
  <2>3. God!NewFlags = GP!NewFlags
    BY DEF God!NewFlags, GP!NewFlags, God!FlagsOf, GP!FlagsOf, God!Teams, GP!Teams, God!IsFirst,
       GP!IsFirst, God!OfTeam, GP!OfTeam, God!Line, GP!Line, God!Keep, GP!Keep, God!FlattenSeq,
       GP!FlattenSeq, God!Reverse, GP!Reverse
  <2>4. new = [ip |-> 1, port |-> 1, flag |-> 100 * (runs + 1) + 1]
    OBVIOUS
  <2>5. Lines' = <<new>> \/ Lines' = Lines
    BY <1>2, <2>2, <2>3 DEF God!OpenFlags, GP!FirstInv, GP!FilesInv, Lines, InPlace
  <2>6. runs' = runs /\ runs \in Nat /\ pc' = "write"
    BY <1>2 DEF God!OpenFlags, LineInv
  <2> HIDE DEF new, l
  <2> QED BY <2>4, <2>5, <2>6 DEF LineInv, OneLine, Flag
<1>6. CASE GodLocal /\ God!WriteFlags(Len(unwritten))
  <2>1. pc = "write" /\ pc' = "off" /\ UNCHANGED <<runs, cmd>>
    BY <1>6 DEF God!WriteFlags, God!End
  <2>2. files' = [files EXCEPT ![cmd.path] = SubSeq(unwritten, 1, Len(unwritten))]
    BY <1>6 DEF God!WriteFlags, God!Written
  <2>3. SubSeq(unwritten, 1, Len(unwritten)) = unwritten
    BY DEF GP!FirstInv
  <2>4. Lines' = Lines
    BY <2>1, <2>2, <2>3 DEF Lines, InPlace, GP!FirstInv, GP!FilesInv
  <2> QED BY <2>1, <2>4 DEF LineInv, OneLine, Flag
<1>3. ASSUME UNCHANGED <<files, runs>>,
             UNCHANGED <<pc, cmd, unwritten>> \/ (pc # "write" /\ pc' # "write")
      PROVE  LineInv' /\ Flag' = Flag /\ Flag' >= Flag
  <2>1. Lines' = Lines
    BY <1>3 DEF Lines, InPlace
  <2> QED BY <1>3, <2>1 DEF LineInv, OneLine, Flag
<1>4. CASE GodConnect \/ GodDown \/ (\E ok \in BOOLEAN : GodSendRequest(ok) \/ GodSendFlag(ok))
           \/ GodReceive \/ (GodLocal /\ God!Exit)
  <2> DEFINE Stays == UNCHANGED <<files, runs>> /\ pc # "write" /\ pc' # "write"
  <2>1. GodConnect => Stays
    BY DEF GodConnect, God!Connect
  <2>2. GodDown => Stays
    BY DEF GodDown, God!Down
  <2>3. \A ok \in BOOLEAN : GodSendRequest(ok) => Stays
    BY DEF GodSendRequest, God!SendRequest
  <2>4. \A ok \in BOOLEAN : GodSendFlag(ok) => Stays
    BY DEF GodSendFlag, God!SendFlag
  <2>5. GodReceive => Stays
    BY DEF GodReceive, God!Receive
  <2>6. God!Exit => Stays
    BY DEF God!Exit, God!End
  <2> QED BY <1>3, <1>4, <2>1, <2>2, <2>3, <2>4, <2>5, <2>6
<1>5. CASE UNCHANGED godVars
  <2>1. UNCHANGED <<files, runs, pc, cmd, unwritten>>
    BY <1>5 DEF godVars
  <2> QED BY <1>3, <2>1
<1> QED BY <1>1, <1>2, <1>4, <1>5, <1>6, OtherSteps DEF LineInv, GodStep, GodLocal

-----------------------------------------------------------------------------
(* What a step does to the connections and to the flag.                    *)

\* The packets stay where they are, and so does the control program.
Kept ==
  /\ \A fd \in Fds : conn'[fd].packet = conn[fd].packet /\ (conn'[fd].live <=> conn[fd].live)
  /\ Len(backlog') = Len(backlog)
  /\ \A i \in DOMAIN backlog : /\ backlog'[i].packet = backlog[i].packet
                               /\ backlog'[i].live <=> backlog[i].live

\* The daemon is done with the packet of a descriptor.
Removed(fd) ==
  /\ Readable(conn[fd]) /\ backlog' = backlog
  /\ \A x \in Fds : x # fd => conn'[x] = conn[x]
  /\ conn'[fd].packet = NoPacket /\ (conn'[fd].live => conn[fd].live)

\* It accepts a connection, or dies.
Moved(fd) ==
  /\ conn[fd] = NoConn /\ backlog # <<>> /\ (Loop = "accept" => fd = 1)
  /\ conn' = [conn EXCEPT ![fd] = Head(backlog)] /\ backlog' = Tail(backlog)

Cleared == backlog' = <<>> /\ (\A fd \in Fds : conn'[fd] = NoConn) /\ dpc' = "down" /\ disturbed'

\* What comes of the packet of a descriptor: it is a flag and written, or lost
\* for a reason; or it is something else and may be answered.
Written(fd) ==
  /\ dpc = "write" /\ conn[fd].packet.id = 4
  /\ file' = conn[fd].packet.msg /\ applied' = file' /\ UNCHANGED <<disturbed, reply>>

Lost(fd) ==
  /\ conn[fd].packet.id = 4
  /\ disturbed' \/ (~ inited /\ disturbed' = disturbed)
  /\ UNCHANGED <<file, applied, reply>>

Answered(fd) ==
  /\ dpc # "write" /\ conn[fd].packet.id # 4
  /\ \/ UNCHANGED reply
     \/ /\ conn[fd].live /\ inited /\ conn[fd].packet.id # 0
        /\ conn[fd].packet.id = 3 => unread' \/ reply'.msg = (IF file = MISSING THEN 0 ELSE file)
  /\ UNCHANGED <<file, applied, disturbed>>

Opened(fd) ==
  /\ conn[fd].packet.id = 4 /\ inited /\ Fresh(conn[fd].packet)
  /\ dpc # "write" /\ dpc' = "write" /\ file' = EMPTY
  /\ UNCHANGED <<conn, backlog, applied, reply, disturbed>>

Ends(fd) == Removed(fd) /\ dpc' \notin {"write", "down"} /\ (Written(fd) \/ Lost(fd) \/ Answered(fd))

DaemonEffect ==
  /\ UNCHANGED now /\ (unread => unread')
  /\ \/ Kept /\ UNCHANGED <<inited, file, applied, reply, disturbed>> /\ dpc # "write" /\ dpc' \notin {"write", "down"}
     \/ \E fd \in Fds : Opened(fd) /\ UNCHANGED inited
     \/ \E fd \in Fds : Ends(fd) /\ UNCHANGED inited
     \/ \E fd \in Fds : /\ Moved(fd) /\ UNCHANGED <<inited, file, applied, reply, disturbed>>
                        /\ dpc # "write" /\ dpc' \notin {"write", "down"}
     \/ Cleared /\ UNCHANGED <<file, applied, reply>>

\* The dispatch on a packet, once more.
LEMMA ProcessEffect ==
  ASSUME WireInv, NEW fd \in Fds, conn[fd].here, ClientProcess(fd), dpc # "write",
         UNCHANGED <<inited, backlog, now, applied>>
  PROVE  (Opened(fd) \/ Ends(fd)) /\ (unread => unread')
<1> DEFINE p == conn[fd].packet
<1>0. /\ conn \in [Fds -> Sound] /\ conn[fd] \in Sound /\ p.id # 0 /\ Readable(conn[fd])
      /\ inited \in BOOLEAN /\ unread \in BOOLEAN /\ disturbed \in BOOLEAN
  BY DEF WireInv, Flags, Sound, Readable
<1>1. ASSUME Done(fd) PROVE Removed(fd) /\ dpc' \notin {"write", "down"}
  <2>1. CASE Loop = "accept"
    BY <1>0, <1>1, <2>1, DoneConn DEF Removed, NoConn
  <2>2. CASE Loop # "accept"
    BY <1>0, <1>1, <2>2, DoneConn, TakenSound DEF Removed
  <2> QED BY <2>1, <2>2
<1>2. CASE /\ ~ (inited /\ Fresh(p)) /\ Done(fd)
           /\ disturbed' = (disturbed \/ (inited /\ p.id = 4)) /\ UNCHANGED <<file, reply, unread>>
  BY <1>0, <1>1, <1>2 DEF Ends, Lost, Answered
<1>3. CASE inited /\ Fresh(p) /\ p.id = 3 /\ GetFlag(fd)
  BY <1>0, <1>1, <1>3 DEF GetFlag, Answer, EMPTY, Ends, Answered
<1>4. CASE inited /\ Fresh(p) /\ p.id = 4 /\ OpenFlag(fd)
  BY <1>0, <1>1, <1>4 DEF OpenFlag, Ends, Lost, Opened
<1>5. CASE /\ inited /\ Fresh(p) /\ p.id \in {1, 2}
           /\ \E sum \in {Hash, EMPTY} : Answer(fd, p.id, sum)
           /\ Done(fd) /\ UNCHANGED <<file, unread, disturbed>>
  BY <1>0, <1>1, <1>5 DEF Answer, Ends, Answered
<1> QED BY <1>2, <1>3, <1>4, <1>5 DEF ClientProcess

LEMMA DaemonDoes == ASSUME WireInv, Daemon PROVE DaemonEffect
<1> USE FdsType
<1>0. Flags /\ backlog \in Seq(Sound) /\ conn \in [Fds -> Sound]
  BY DEF WireInv
<1>a. DaemonStep
  BY DEF Daemon
<1>1. CASE WriteFlag
  <2>1. serving \in Fds /\ Done(serving) /\ conn[serving].packet.id = 4
    BY <1>1 DEF WriteFlag, WireInv
  <2>2. Removed(serving)
    <3>1. Readable(conn[serving])
      BY <1>1, <2>1 DEF WriteFlag, WireInv, Readable
    <3>2. CASE Loop = "accept"
      BY <1>0, <1>1, <2>1, <3>1, <3>2, DoneConn DEF Removed, NoConn, WriteFlag
    <3>3. CASE Loop # "accept"
      BY <1>0, <1>1, <2>1, <3>1, <3>3, DoneConn, TakenSound DEF Removed, WriteFlag
    <3> QED BY <3>2, <3>3
  <2>3. dpc' \notin {"write", "down"}
    BY <1>0, <2>1, DoneConn
  <2> QED BY <1>1, <2>1, <2>2, <2>3 DEF WriteFlag, Written, Lost, Ends, DaemonEffect
<1>2. CASE Accept
  BY <1>2 DEF Accept, WireInv, Moved, DaemonEffect
<1>3. CASE Read
  BY <1>3, ProcessEffect DEF Read, DaemonEffect
<1>4. CASE ReadEnd
  <2>1. Done(1) /\ Readable(conn[1]) /\ conn[1].packet.id # 4 /\ Loop = "accept"
    BY <1>0, <1>4 DEF ReadEnd, Readable, WireInv, NoPacket
  <2>2. Removed(1) /\ dpc' \notin {"write", "down"}
    BY <1>0, <1>4, <2>1, DoneConn DEF ReadEnd, Removed, NoConn
  <2> QED BY <1>4, <2>1, <2>2 DEF ReadEnd, Ends, Answered, DaemonEffect
<1>5. CASE ReadError \/ AcceptError \/ PassAcceptError
  BY <1>5 DEF ReadError, AcceptError, PassAcceptError, Die, Cleared, DaemonEffect
<1>6. CASE Select
  BY <1>6 DEF Select, Kept, DaemonEffect
<1>7. CASE PassAccept
  <2>1. backlog # <<>>
    BY <1>7, FirstReady DEF PassAccept, WireInv
  <2>2. NewFd \in Fds /\ conn[NewFd] = NoConn
    BY <1>7, NewFdFree DEF PassAccept, Free
  <2> QED BY <1>7, <2>1, <2>2 DEF PassAccept, Moved, DaemonEffect, WireInv
<1>8. CASE PassRead
  <2>1. First \in Fds
    BY <1>8, FirstReady DEF PassRead, WireInv
  <2> QED BY <1>8, <2>1, ProcessEffect DEF PassRead, DaemonEffect
<1>9. CASE PassEnd
  <2>1. First \in Fds /\ Readable(conn[First]) /\ ~ conn[First].here
    BY <1>9, FirstReady DEF PassEnd, WireInv
  <2>3. conn[First].packet.id # 4
    BY <2>1 DEF Readable, NoPacket
  <2>2. Removed(First)
    BY <1>0, <1>9, <2>1 DEF PassEnd, Removed, NoConn
  <2> QED BY <1>9, <2>1, <2>2, <2>3 DEF PassEnd, Ends, Answered, DaemonEffect
<1>10. CASE PassOver
  BY <1>10 DEF PassOver, Kept, DaemonEffect
<1> QED
  BY <1>a, <1>1, <1>2, <1>3, <1>4, <1>5, <1>6, <1>7, <1>8, <1>9, <1>10 DEF DaemonStep

Joined(c) == conn' = conn /\ backlog' = Append(backlog, c)

AloneEffect ==
  /\ UNCHANGED <<applied, reply, unread>>
  /\ \/ /\ Kept /\ UNCHANGED <<dpc, inited, file, disturbed>>
        /\ now' = now \/ (now' = now + 1 /\ pc \notin {"send", "recv"})
     \/ Kept /\ dpc = "down" /\ dpc' = "accept" /\ UNCHANGED <<file, disturbed, now>>
     \/ Kept /\ disturbed' /\ UNCHANGED <<dpc, inited, now>>
     \/ /\ Joined(NewConn("stranger")) /\ dpc # "down"
        /\ UNCHANGED <<dpc, inited, file, disturbed, now>>
     \/ Cleared /\ UNCHANGED <<file, now>>

LEMMA AloneDoes == ASSUME WireInv, Alone PROVE AloneEffect
<1>0. Flags /\ backlog \in Seq(Sound) /\ conn \in [Fds -> Sound]
  BY DEF WireInv
<1>a. ASSUME UNCHANGED <<backlog, conn>> PROVE Kept
  BY <1>a DEF Kept
<1>1. CASE DaemonBoot
  BY <1>1, <1>a DEF DaemonBoot, Boot, AloneEffect
<1>2. CASE DaemonCrash
  BY <1>2 DEF DaemonCrash, Crash, Die, Cleared, AloneEffect
<1>3. CASE Interfere
  BY <1>0, <1>3, <1>a DEF Interfere, Tamper, AloneEffect, Flags
<1>4. CASE Deliver
  <2>1. \A c \in Sound : /\ [c EXCEPT !.here = TRUE].packet = c.packet
                         /\ [c EXCEPT !.here = TRUE].live <=> c.live
    BY DEF Sound, Conn
  <2>2. Kept
    <3>1. ASSUME NEW i \in DOMAIN backlog, backlog' = [backlog EXCEPT ![i].here = TRUE], conn' = conn
          PROVE  Kept
      BY <1>0, <2>1, <3>1 DEF Kept
    <3>2. ASSUME NEW fd \in Fds, conn' = [conn EXCEPT ![fd].here = TRUE], backlog' = backlog
          PROVE  Kept
      BY <1>0, <2>1, <3>2 DEF Kept
    <3> QED BY <1>4, <3>1, <3>2 DEF Deliver
  <2> QED BY <1>0, <1>4, <2>2 DEF Deliver, Others, AloneEffect, Flags
<1>5. CASE StrangerConnects
  BY <1>5 DEF StrangerConnects, Others, Joined, AloneEffect
<1>6. ASSUME NEW how \in {"fin", "rst"}, StrangerLeaves(how) PROVE AloneEffect
  <2>1. \A c \in Sound : /\ [c EXCEPT !.eof = how].packet = c.packet
                         /\ [c EXCEPT !.eof = how].live <=> c.live
    BY DEF Sound, Conn
  <2>2. Kept
    <3>1. ASSUME NEW i \in DOMAIN backlog, backlog' = [backlog EXCEPT ![i].eof = how], conn' = conn
          PROVE  Kept
      BY <1>0, <2>1, <3>1 DEF Kept
    <3>2. ASSUME NEW fd \in Fds, conn' = [conn EXCEPT ![fd].eof = how], backlog' = backlog
          PROVE  Kept
      BY <1>0, <2>1, <3>2 DEF Kept
    <3> QED BY <1>6, <3>1, <3>2 DEF StrangerLeaves
  <2> QED BY <1>0, <1>6, <2>2 DEF StrangerLeaves, Others, AloneEffect, Flags
<1>7. CASE Tick
  BY <1>0, <1>7, <1>a DEF Tick, daemonVars, AloneEffect, Flags
<1>8. CASE UNCHANGED vars
  BY <1>0, <1>8, <1>a DEF vars, daemonVars, AloneEffect, Flags
<1> QED BY <1>1, <1>2, <1>3, <1>4, <1>5, <1>6, <1>7, <1>8 DEF Alone

\* What a step of the control program does to its open connection.
Sends(p, alive) ==
  /\ \A fd \in Fds : IF conn[fd].live THEN conn'[fd].packet = p /\ (conn'[fd].live <=> alive)
                                    ELSE conn'[fd] = conn[fd]
  /\ Len(backlog') = Len(backlog)
  /\ \A i \in DOMAIN backlog :
       IF backlog[i].live THEN backlog'[i].packet = p /\ (backlog'[i].live <=> alive)
                          ELSE backlog'[i] = backlog[i]

Hangs ==
  /\ \A fd \in Fds : conn'[fd].packet = conn[fd].packet /\ ~ conn'[fd].live
  /\ Len(backlog') = Len(backlog)
  /\ \A i \in DOMAIN backlog : backlog'[i].packet = backlog[i].packet /\ ~ backlog'[i].live

GodFlag == [id |-> 4, msg |-> Flag, ts |-> now]

FlagSent(ok) ==
  /\ Sends(GodFlag, FALSE) /\ (Live => ok)
  /\ pc = "send" /\ pc' = "visit" /\ UNCHANGED <<cmd, reply>>
  /\ issued' = IF ok THEN [flag |-> Flag, ts |-> now] ELSE issued
  /\ disturbed' = (disturbed /\ ~(ok /\ Live))
  /\ hurried' = (hurried \/ (ok /\ issued.flag \notin {0, Flag} /\ now - issued.ts < Timeout - Skew))
  /\ visited'.what # "reply"

RequestSent ==
  /\ \E p \in Packet : /\ Sends(p, TRUE) /\ p.id \in 1 .. 3
                       /\ cmd.op = "checkflag" => p.id = 3
  /\ pc = "send" /\ pc' = "recv" /\ UNCHANGED <<cmd, visited, reply, unread, disturbed, issued, hurried>>

Received ==
  /\ Hangs /\ pc = "recv" /\ pc' = "visit" /\ reply' = NoPacket
  /\ visited'.what = "reply" /\ visited'.node.flag = Flag
  /\ \/ visited'.reply.kind # "packet"
     \/ reply # NoPacket /\ visited'.reply.msg = reply.msg
  /\ UNCHANGED <<cmd, unread, disturbed, issued, hurried>>

GodEffect ==
  /\ UNCHANGED Rest
  /\ \/ /\ Kept /\ pc \notin {"send", "recv"} /\ pc' \notin {"send", "recv"}
        /\ UNCHANGED <<visited, cmd>> \/ visited'.what # "reply"
        /\ UNCHANGED <<reply, unread, disturbed, issued, hurried>>
     \/ /\ Joined(NewConn("god")) /\ dpc # "down"
        /\ pc = "visit" /\ pc' = "send" /\ visited'.what # "reply" /\ reply' = NoPacket
        /\ UNCHANGED <<cmd, disturbed, issued, hurried>>
     \/ RequestSent
     \/ \E ok \in BOOLEAN : FlagSent(ok)
     \/ Received

\* The record of the last visit.
VisitInv == "what" \in DOMAIN visited

LEMMA VisitStep == ASSUME VisitInv, [Next]_vars PROVE VisitInv'
<1> USE DEF VisitInv
<1>1. GodStart => VisitInv'
  BY DEF GodStart, God!Start, God!Begin, God!NoVisit
<1>2. GodConnect => VisitInv'
  BY DEF GodConnect, God!Connect
<1>3. GodDown => VisitInv'
  BY DEF GodDown, God!Down
<1>4. \A ok \in BOOLEAN : GodSendRequest(ok) => VisitInv'
  BY DEF GodSendRequest, God!SendRequest, God!history
<1>5. \A ok \in BOOLEAN : GodSendFlag(ok) => VisitInv'
  BY DEF GodSendFlag, God!SendFlag
<1>6. GodReceive => VisitInv'
  BY DEF GodReceive, God!Receive
<1>7. GodLocal => VisitInv'
  BY DEF GodLocal, God!OpenFlags, God!WriteFlags, God!Exit, God!history
<1>8. UNCHANGED godVars => VisitInv'
  BY DEF godVars
<1> QED BY <1>1, <1>2, <1>3, <1>4, <1>5, <1>6, <1>7, <1>8, OtherSteps DEF GodStep

LEMMA GodDoes ==
  ASSUME WireInv, GP!FirstInv, LineInv, VisitInv, GodStep \/ GodStart
  PROVE  GodEffect
<1>0. Flags /\ ReplyOK /\ backlog \in Seq(Sound) /\ conn \in [Fds -> Sound]
  BY DEF WireInv
<1>a. ASSUME UNCHANGED <<backlog, conn>> PROVE Kept
  BY <1>a DEF Kept
<1>b. calls # <<>> => God!Node.flag = Flag
  BY NodeFlag DEF LineInv
<1>1. CASE GodStart
  <2>1. UNCHANGED <<Rest, backlog, conn, reply, unread, disturbed, issued, hurried>>
    BY <1>1 DEF GodStart, Rest, daemonVars, counters
  <2>2. pc \notin {"send", "recv"} /\ pc' \notin {"send", "recv"} /\ visited'.what # "reply"
    BY <1>1 DEF GodStart, God!Start, God!Begin, God!NoVisit
  <2> QED BY <1>a, <2>1, <2>2 DEF GodEffect
<1>2. CASE GodLocal
  <2>1. UNCHANGED <<Rest, backlog, conn, reply, unread, disturbed, issued, hurried>>
    BY <1>2 DEF GodLocal, Rest, daemonVars, counters
  <2>2. pc \notin {"send", "recv"} /\ pc' \notin {"send", "recv"} /\ UNCHANGED <<visited, cmd>>
    BY <1>2 DEF GodLocal, God!OpenFlags, God!WriteFlags, God!Exit, God!End, God!history
  <2> QED BY <1>a, <2>1, <2>2 DEF GodEffect
<1>3. CASE GodConnect
  BY <1>3 DEF GodConnect, God!Connect, Joined, GodEffect
<1>4. CASE GodDown
  <2>1. pc = "visit" /\ pc' = "visit" /\ visited'.what = "down"
    BY <1>4 DEF GodDown, God!Down
  <2> QED BY <1>4, <1>a, <2>1 DEF GodDown, GodEffect
<1>5. ASSUME NEW ok \in BOOLEAN, GodSendRequest(ok) PROVE GodEffect
  <2> DEFINE p == [id |-> PacketId, msg |-> 0, ts |-> now]
  <2>1. PacketId \in 1 .. 3 /\ (cmd.op = "checkflag" => PacketId = 3)
    BY <1>5, RequestId DEF GodSendRequest
  <2>2. p \in Packet /\ p.id \in 1 .. 3 /\ (cmd.op = "checkflag" => p.id = 3)
    BY <1>0, <2>1 DEF Flags, Packet
  <2> HIDE DEF p
  <2>3. /\ backlog' = [i \in DOMAIN backlog |->
                        IF backlog[i].live THEN [backlog[i] EXCEPT !.packet = p] ELSE backlog[i]]
        /\ conn' = [fd \in Fds |->
                     IF conn[fd].live THEN [conn[fd] EXCEPT !.packet = p] ELSE conn[fd]]
    BY <1>5 DEF GodSendRequest, OnLive, p
  <2>4. \A c \in Sound : /\ [c EXCEPT !.packet = p].packet = p
                         /\ [c EXCEPT !.packet = p].live <=> c.live
    BY DEF Sound, Conn
  <2>5. Sends(p, TRUE)
    BY <1>0, <2>3, <2>4 DEF Sends
  <2>6. pc = "send" /\ pc' = "recv" /\ UNCHANGED <<cmd, visited>>
    BY <1>5 DEF GodSendRequest, God!SendRequest, God!history
  <2> QED BY <1>5, <2>2, <2>5, <2>6 DEF GodSendRequest, RequestSent, GodEffect
<1>6. ASSUME NEW ok \in BOOLEAN, GodSendFlag(ok) PROVE GodEffect
  <2> DEFINE p == GodFlag
             W(c) == Closed([c EXCEPT !.packet = p])
  <2>1. God!Node.flag = Flag /\ pc = "send" /\ pc' = "visit" /\ UNCHANGED cmd /\ visited'.what # "reply"
    BY <1>6, <1>b DEF GodSendFlag, God!SendFlag, GP!FirstInv, VisitInv
  <2>2. /\ backlog' = [i \in DOMAIN backlog |-> IF backlog[i].live THEN W(backlog[i]) ELSE backlog[i]]
        /\ conn' = [fd \in Fds |-> IF conn[fd].live THEN W(conn[fd]) ELSE conn[fd]]
    BY <1>6, <2>1 DEF GodSendFlag, OnLive, GodFlag
  <2>3. \A c \in Sound : W(c).packet = p /\ ~ W(c).live
    BY DEF Closed, Sound, Conn
  <2> HIDE DEF p, W
  <2>4. Sends(p, FALSE)
    BY <1>0, <2>2, <2>3 DEF Sends
  <2>5. FlagSent(ok)
    BY <1>6, <2>1, <2>4 DEF GodSendFlag, FlagSent, WriteOutcome, p
  <2> QED BY <1>6, <2>5 DEF GodSendFlag, GodEffect
<1>7. CASE GodReceive
  <2>1. \A c \in Sound : /\ Closed(c).packet = c.packet /\ ~ Closed(c).live
    BY DEF Closed, Sound, Conn
  <2>2. /\ backlog' = [i \in DOMAIN backlog |-> IF backlog[i].live THEN Closed(backlog[i]) ELSE backlog[i]]
        /\ conn' = [fd \in Fds |-> IF conn[fd].live THEN Closed(conn[fd]) ELSE conn[fd]]
    BY <1>7 DEF GodReceive, OnLive
  <2>3. Hangs
    BY <1>0, <2>1, <2>2 DEF Hangs
  <2>4. /\ pc = "recv" /\ pc' = "visit" /\ visited'.what = "reply" /\ visited'.node = God!Node
        /\ UNCHANGED cmd
        /\ \/ visited'.reply.kind # "packet"
           \/ reply # NoPacket /\ visited'.reply.msg = reply.msg
    BY <1>7 DEF GodReceive, God!Receive, God!NoReply
  <2>5. visited'.node.flag = Flag
    BY <1>b, <2>4 DEF GP!FirstInv
  <2> QED BY <1>7, <2>3, <2>4, <2>5 DEF GodReceive, Received, GodEffect
<1> QED BY <1>1, <1>2, <1>3, <1>4, <1>5, <1>6, <1>7 DEF GodStep

-----------------------------------------------------------------------------
(* The open connection of the control program.                             *)

LiveOK(c) ==
  c.live => /\ pc \in {"send", "recv"}
            /\ pc = "send" => c.packet = NoPacket
            /\ cmd.op = "checkflag" => c.packet.id \in {0, 3}

OneLive ==
  /\ \A a, b \in Fds : conn[a].live /\ conn[b].live => a = b
  /\ \A i, j \in DOMAIN backlog : backlog[i].live /\ backlog[j].live => i = j
  /\ \A fd \in Fds, i \in DOMAIN backlog : ~ (conn[fd].live /\ backlog[i].live)

\* It is the only one, and while nobody has died it is there until the packet is
\* sent; a reply waits for a control program that waits for it.
LiveInv ==
  /\ \A fd \in Fds : LiveOK(conn[fd])
  /\ \A i \in DOMAIN backlog : LiveOK(backlog[i])
  /\ OneLive
  /\ pc = "send" /\ ~ disturbed => Live
  /\ issued.flag # 0 /\ ~ disturbed => dpc # "down"
  /\ reply # NoPacket => pc = "recv"

LEMMA LiveIs ==
  /\ Live <=> (\E fd \in Fds : conn[fd].live) \/ (\E i \in DOMAIN backlog : backlog[i].live)
  /\ Live' <=> (\E fd \in Fds : conn'[fd].live) \/ (\E i \in DOMAIN backlog' : backlog'[i].live)
BY DEF Live, Connections, ToSet

LEMMA FewerLive ==
  ASSUME OneLive, \A fd \in Fds : conn'[fd].live => conn[fd].live,
         \A i \in DOMAIN backlog' : backlog'[i].live => i \in DOMAIN backlog /\ backlog[i].live
  PROVE  OneLive'
BY DEF OneLive

LEMMA SlotTypes ==
  ASSUME WireInv
  PROVE  /\ \A fd \in Fds : conn[fd] \in Sound
         /\ \A i \in DOMAIN backlog : backlog[i] \in Sound
         /\ DOMAIN backlog = 1 .. Len(backlog) /\ Len(backlog) \in Nat
BY DEF WireInv

LEMMA LiveInit == Init => LiveInv
<1> SUFFICES ASSUME Init PROVE LiveInv
  OBVIOUS
<1>1. backlog = <<>> /\ (\A fd \in Fds : conn[fd] = NoConn) /\ reply = NoPacket
  BY DEF Init, DaemonInit
<1>2. DOMAIN backlog = {} /\ \A fd \in Fds : ~ conn[fd].live
  BY <1>1 DEF NoConn
<1> QED BY <1>1, <1>2 DEF Init, God!Init, LiveInv, LiveOK, OneLive

\* A step in which connections are moved and lost, while the control program waits.
LEMMA LiveSame ==
  ASSUME WireInv, WireInv', LiveInv, UNCHANGED <<pc, cmd>>,
         \/ Kept \/ Cleared \/ Joined(NewConn("stranger"))
         \/ \E fd \in Fds : Removed(fd) \/ Moved(fd)
  PROVE  /\ \A fd \in Fds : LiveOK(conn[fd])'
         /\ \A i \in DOMAIN backlog' : LiveOK(backlog[i])'
         /\ OneLive'
         /\ pc = "send" /\ ~ Cleared /\ Live => Live'
<1>0. /\ \A fd \in Fds : conn[fd] \in Sound /\ conn'[fd] \in Sound
      /\ backlog \in Seq(Sound) /\ backlog' \in Seq(Sound)
  BY DEF WireInv
<1>a. DOMAIN backlog = 1 .. Len(backlog) /\ Len(backlog) \in Nat
      /\ DOMAIN backlog' = 1 .. Len(backlog')
  BY <1>0
<1>b. /\ \A fd \in Fds : LiveOK(conn[fd])
      /\ \A i \in DOMAIN backlog : LiveOK(backlog[i])
      /\ OneLive
  BY DEF LiveInv
<1>1. CASE Kept
  <2>1. DOMAIN backlog' = DOMAIN backlog
    BY <1>a, <1>1 DEF Kept
  <2> QED BY <1>b, <1>1, <2>1, FewerLive, LiveIs DEF Kept, LiveOK
<1>2. CASE Cleared
  <2>1. DOMAIN backlog' = {} /\ \A fd \in Fds : ~ conn'[fd].live
    BY <1>2 DEF Cleared, NoConn
  <2> QED BY <1>2, <2>1 DEF LiveOK, OneLive
<1>3. CASE Joined(NewConn("stranger"))
  <2>1. ~ NewConn("stranger").live
    BY NewSound
  <2>2. \A i \in DOMAIN backlog' :
          \/ i \in DOMAIN backlog /\ backlog'[i] = backlog[i]
          \/ ~ backlog'[i].live
    BY <1>0, <1>3, <2>1 DEF Joined
  <2>3. \A i \in DOMAIN backlog : i \in DOMAIN backlog' /\ backlog'[i] = backlog[i]
    BY <1>0, <1>3 DEF Joined
  <2> QED BY <1>b, <1>3, <2>2, <2>3, FewerLive, LiveIs DEF Joined, LiveOK
<1>4. ASSUME NEW fd \in Fds, Removed(fd)
      PROVE  /\ \A x \in Fds : LiveOK(conn[x])'
             /\ \A i \in DOMAIN backlog' : LiveOK(backlog[i])'
             /\ OneLive'
             /\ pc = "send" /\ Live => Live'
  <2>1. pc = "send" => ~ conn[fd].live
    BY <1>0, <1>b, <1>4 DEF Removed, LiveOK, Readable, Sound, NoPacket
  <2>2. conn'[fd].packet = NoPacket /\ NoPacket.id = 0
    BY <1>4 DEF Removed, NoPacket
  <2>3. \A x \in Fds : LiveOK(conn[x])'
    BY <1>b, <1>4, <2>2 DEF Removed, LiveOK
  <2> QED BY <1>b, <1>4, <2>1, <2>3, FewerLive, LiveIs DEF Removed, LiveOK
<1>5. ASSUME NEW fd \in Fds, Moved(fd)
      PROVE  /\ \A x \in Fds : LiveOK(conn[x])'
             /\ \A i \in DOMAIN backlog' : LiveOK(backlog[i])'
             /\ OneLive'
             /\ Live => Live'
  <2>1. /\ conn'[fd] = backlog[1] /\ \A x \in Fds : x # fd => conn'[x] = conn[x]
        /\ 1 \in DOMAIN backlog /\ ~ conn[fd].live
    BY <1>0, <1>5 DEF Moved, NoConn, WireInv
  <2>2. \A i \in DOMAIN backlog' : i + 1 \in DOMAIN backlog /\ backlog'[i] = backlog[i + 1]
    BY <1>0, <1>5 DEF Moved
  <2>3. \A i \in DOMAIN backlog : i # 1 => i - 1 \in DOMAIN backlog' /\ backlog'[i - 1] = backlog[i]
    BY <1>0, <1>5 DEF Moved
  <2>4. /\ \A x \in Fds : LiveOK(conn[x])'
        /\ \A i \in DOMAIN backlog' : LiveOK(backlog[i])'
    BY <1>b, <2>1, <2>2 DEF LiveOK
  <2>5. OneLive'
    <3>1. \A i \in DOMAIN backlog' : i \in Nat /\ i + 1 # 1
      BY <1>a, <1>0
    <3>2. ASSUME NEW a \in Fds, NEW b \in Fds, conn'[a].live, conn'[b].live PROVE a = b
      BY <1>b, <2>1, <3>2 DEF OneLive
    <3>3. ASSUME NEW i \in DOMAIN backlog', NEW j \in DOMAIN backlog', backlog'[i].live, backlog'[j].live
          PROVE  i = j
      BY <1>b, <2>2, <3>1, <3>3 DEF OneLive
    <3>4. ASSUME NEW a \in Fds, NEW i \in DOMAIN backlog', conn'[a].live, backlog'[i].live
          PROVE  FALSE
      BY <1>b, <2>1, <2>2, <3>1, <3>4 DEF OneLive
    <3> QED BY <3>2, <3>3, <3>4 DEF OneLive
  <2>6. Live => Live'
    BY <2>1, <2>3, LiveIs
  <2> QED BY <2>4, <2>5, <2>6
<1> QED BY <1>1, <1>2, <1>3, <1>4, <1>5

LEMMA LiveStep ==
  ASSUME WireInv, WireInv', LiveInv,
         \/ UNCHANGED <<godVars, issued, hurried>> /\ (DaemonEffect \/ AloneEffect)
         \/ GodEffect
  PROVE  LiveInv'
<1>0. /\ \A fd \in Fds : conn[fd] \in Sound /\ conn'[fd] \in Sound
      /\ backlog \in Seq(Sound) /\ backlog' \in Seq(Sound)
      /\ disturbed \in BOOLEAN /\ disturbed' \in BOOLEAN
  BY DEF WireInv, Flags
<1>a. DOMAIN backlog = 1 .. Len(backlog) /\ DOMAIN backlog' = 1 .. Len(backlog')
  BY <1>0
<1>b. /\ \A fd \in Fds : LiveOK(conn[fd])
      /\ \A i \in DOMAIN backlog : LiveOK(backlog[i])
      /\ OneLive
      /\ pc = "send" /\ ~ disturbed => Live
      /\ issued.flag # 0 /\ ~ disturbed => dpc # "down"
      /\ reply # NoPacket => pc = "recv"
  BY DEF LiveInv
<1>1. CASE UNCHANGED <<godVars, issued, hurried>> /\ DaemonEffect
  <2>0. UNCHANGED <<pc, cmd, issued>>
    BY <1>1 DEF godVars
  <2>1. CASE Kept /\ UNCHANGED <<reply, disturbed>> /\ dpc' # "down"
    BY <1>b, <2>0, <2>1, LiveSame DEF LiveInv, Kept, Cleared
  <2>2. ASSUME NEW fd \in Fds, Opened(fd) PROVE LiveInv'
    <3>1. Kept /\ UNCHANGED <<reply, disturbed>> /\ dpc' # "down"
      BY <2>2 DEF Opened, Kept
    <3> QED BY <2>1, <3>1
  <2>3. ASSUME NEW fd \in Fds, Ends(fd) PROVE LiveInv'
    <3>1. Removed(fd) /\ dpc' # "down"
      BY <2>3 DEF Ends, Written, Lost, Answered
    <3>2. ~ disturbed' => ~ disturbed
      BY <1>0, <2>3 DEF Ends, Written, Lost, Answered
    <3>3. reply' # NoPacket => pc = "recv"
      BY <1>b, <2>3 DEF Ends, Written, Lost, Answered, LiveOK, NoPacket
    <3> QED BY <1>b, <2>0, <3>1, <3>2, <3>3, LiveSame DEF LiveInv, Cleared
  <2>4. ASSUME NEW fd \in Fds, Moved(fd), UNCHANGED <<reply, disturbed>>, dpc' # "down" PROVE LiveInv'
    BY <1>b, <2>0, <2>4, LiveSame DEF LiveInv, Cleared
  <2>5. CASE Cleared /\ UNCHANGED reply
    BY <1>b, <2>0, <2>5, LiveSame DEF LiveInv, Cleared
  <2> QED BY <1>1, <2>1, <2>2, <2>3, <2>4, <2>5 DEF DaemonEffect
<1>2. CASE UNCHANGED <<godVars, issued, hurried>> /\ AloneEffect
  <2>0. UNCHANGED <<pc, cmd, issued, reply>>
    BY <1>2 DEF godVars, AloneEffect
  <2>1. CASE (Kept \/ Joined(NewConn("stranger"))) /\ (disturbed' \/ UNCHANGED disturbed)
             /\ (UNCHANGED dpc \/ dpc' = "accept")
    <3>1. Kept \/ Joined(NewConn("stranger"))
      BY <2>1
    <3>2. ~ disturbed' => UNCHANGED disturbed
      BY <1>0, <2>1
    <3> QED BY <1>b, <2>0, <2>1, <3>1, <3>2, LiveSame DEF LiveInv, Cleared
  <2>2. CASE Cleared
    BY <1>b, <2>0, <2>2, LiveSame DEF LiveInv, Cleared
  <2> QED BY <1>2, <2>1, <2>2 DEF AloneEffect
<1>3. CASE GodEffect
  <2>0. UNCHANGED dpc
    BY <1>3 DEF GodEffect, Rest
  <2>1. CASE /\ Kept /\ pc \notin {"send", "recv"} /\ pc' \notin {"send", "recv"}
             /\ UNCHANGED <<reply, disturbed, issued, hurried>>
    <3>1. /\ \A fd \in Fds : ~ conn[fd].live
          /\ \A i \in DOMAIN backlog : ~ backlog[i].live
      BY <1>b, <2>1 DEF LiveOK
    <3>2. /\ \A fd \in Fds : ~ conn'[fd].live
          /\ \A i \in DOMAIN backlog' : ~ backlog'[i].live
      BY <1>a, <2>1, <3>1 DEF Kept
    <3> QED BY <1>b, <2>0, <2>1, <3>2 DEF LiveInv, LiveOK, OneLive
  <2>2. CASE /\ Joined(NewConn("god")) /\ dpc # "down"
             /\ pc = "visit" /\ pc' = "send" /\ reply' = NoPacket
    <3>1. /\ \A fd \in Fds : ~ conn[fd].live
          /\ \A i \in DOMAIN backlog : ~ backlog[i].live
      BY <1>b, <2>2 DEF LiveOK
    <3>2. /\ \A fd \in Fds : ~ conn'[fd].live
          /\ DOMAIN backlog' = 1 .. Len(backlog) + 1
          /\ \A i \in DOMAIN backlog' : i # Len(backlog) + 1 => ~ backlog'[i].live
      BY <1>0, <1>a, <2>2, <3>1 DEF Joined
    <3>3. /\ Len(backlog) + 1 \in DOMAIN backlog' /\ backlog'[Len(backlog) + 1] = NewConn("god")
          /\ NewConn("god").packet = NoPacket /\ NewConn("god").live /\ NoPacket.id = 0
      BY <1>0, <2>2, NewSound DEF Joined, NoPacket
    <3>4. Live'
      BY <3>3, LiveIs
    <3> QED BY <2>0, <2>2, <3>2, <3>3, <3>4 DEF LiveInv, LiveOK, OneLive
  <2>3. CASE RequestSent
    <3>1. PICK p \in Packet : Sends(p, TRUE) /\ (cmd.op = "checkflag" => p.id = 3)
      BY <2>3 DEF RequestSent
    <3>2. /\ \A fd \in Fds : conn'[fd].live => conn[fd].live /\ conn'[fd].packet = p
          /\ \A i \in DOMAIN backlog' :
               backlog'[i].live => /\ i \in DOMAIN backlog /\ backlog[i].live
                                   /\ backlog'[i].packet = p
      BY <1>a, <3>1 DEF Sends
    <3>3. OneLive'
      BY <1>b, <3>2, FewerLive
    <3>4. pc' = "recv" /\ UNCHANGED <<cmd, reply, disturbed, issued>>
      BY <2>3 DEF RequestSent
    <3> QED BY <1>b, <2>0, <3>1, <3>2, <3>3, <3>4 DEF LiveInv, LiveOK
  <2>4. ASSUME NEW ok \in BOOLEAN, FlagSent(ok) PROVE LiveInv'
    <3>1. /\ \A fd \in Fds : ~ conn'[fd].live
          /\ \A i \in DOMAIN backlog' : ~ backlog'[i].live
      BY <1>a, <2>4 DEF FlagSent, Sends
    <3>2. pc = "send" /\ pc' = "visit" /\ reply' = NoPacket
      BY <1>b, <2>4 DEF FlagSent
    <3>3. ~ disturbed' => dpc' # "down"
      <4>1. dpc = "down" => ~ Live
        <5>1. dpc = "down" => DOMAIN backlog = {} /\ \A fd \in Fds : ~ conn[fd].live
          BY DEF WireInv, NoConn
        <5> QED BY <5>1, LiveIs
      <4>2. ~ disturbed' => Live
        BY <1>b, <2>4 DEF FlagSent
      <4> QED BY <2>0, <4>1, <4>2
    <3> QED BY <3>1, <3>2, <3>3 DEF LiveInv, LiveOK, OneLive
  <2>5. CASE Received
    <3>1. /\ \A fd \in Fds : ~ conn'[fd].live
          /\ \A i \in DOMAIN backlog' : ~ backlog'[i].live
      BY <1>a, <2>5 DEF Received, Hangs
    <3> QED BY <1>b, <2>0, <2>5, <3>1 DEF LiveInv, LiveOK, OneLive, Received
  <2> QED BY <1>3, <2>1, <2>2, <2>3, <2>4, <2>5 DEF GodEffect
<1> QED BY <1>1, <1>2, <1>3

-----------------------------------------------------------------------------
(* The accept loop takes the connections in order.                         *)

\* The connections in the order of their accept(), the one that is served first.
Places == 0 .. Len(backlog)
Queue == [i \in Places |-> IF i = 0 THEN conn[1] ELSE backlog[i]]
IsFlag(c) == c.packet.id = 4

\* The flags on their way are in order, none is older than the file's, and nothing
\* was sent behind the open connection.
InOrder(q, places, low, high) ==
  /\ \A i \in places : IsFlag(q[i]) => q[i].packet.msg \in low .. high
  /\ \A i, j \in places : i < j /\ IsFlag(q[i]) /\ IsFlag(q[j]) => q[i].packet.msg <= q[j].packet.msg
  /\ \A i, j \in places : i < j /\ q[i].live => ~ IsFlag(q[j])

OrderInv == InOrder(Queue, Places, applied, Flag) /\ applied <= Flag

\* Queue q becomes r: its connections move k places to the front, some vanish, and
\* one that sends nothing may join behind them.
LEMMA StaysInOrder ==
  ASSUME NEW q, NEW r, NEW from \in SUBSET Nat, NEW to \in SUBSET Nat, NEW k \in Nat,
         NEW low \in Nat, NEW high \in Nat, NEW high2 \in Nat, high <= high2,
         InOrder(q, from, low, high),
         \A i \in to : IsFlag(r[i]) => i + k \in from /\ r[i].packet = q[i + k].packet,
         \A i \in to : r[i].live => \/ i + k \in from /\ q[i + k].live
                                    \/ \A j \in to : j <= i
  PROVE  InOrder(r, to, low, high2)
<1>1. ASSUME NEW i \in to, IsFlag(r[i])
      PROVE  /\ i + k \in from /\ IsFlag(q[i + k]) /\ q[i + k].packet.msg = r[i].packet.msg
  BY <1>1 DEF IsFlag
<1>2. \A i \in to : IsFlag(r[i]) => r[i].packet.msg \in low .. high2
  <2> SUFFICES ASSUME NEW i \in to, IsFlag(r[i]) PROVE r[i].packet.msg \in low .. high2
    OBVIOUS
  <2>1. q[i + k].packet.msg \in low .. high
    BY <1>1 DEF InOrder
  <2> QED BY <1>1, <2>1
<1>3. \A i, j \in to : i < j /\ IsFlag(r[i]) /\ IsFlag(r[j]) => r[i].packet.msg <= r[j].packet.msg
  <2> SUFFICES ASSUME NEW i \in to, NEW j \in to, i < j, IsFlag(r[i]), IsFlag(r[j])
               PROVE  r[i].packet.msg <= r[j].packet.msg
    OBVIOUS
  <2>1. i + k < j + k
    OBVIOUS
  <2>2. q[i + k].packet.msg <= q[j + k].packet.msg
    BY <1>1, <2>1 DEF InOrder
  <2> QED BY <1>1, <2>2
<1>4. \A i, j \in to : i < j /\ r[i].live => ~ IsFlag(r[j])
  <2> SUFFICES ASSUME NEW i \in to, NEW j \in to, i < j, r[i].live, IsFlag(r[j]) PROVE FALSE
    OBVIOUS
  <2>0. i \in Nat /\ j \in Nat
    OBVIOUS
  <2>1. i + k < j + k /\ ~ (j <= i)
    BY <2>0
  <2>2. i + k \in from /\ q[i + k].live
    BY <2>1
  <2> QED BY <1>1, <2>1, <2>2 DEF InOrder
<1> QED BY <1>2, <1>3, <1>4 DEF InOrder

LEMMA PlaceTypes ==
  ASSUME WireInv
  PROVE  /\ \A i \in Places : Queue[i] \in Sound /\ Queue[i].packet \in Packet /\ Queue[i].packet.msg \in Nat
         /\ Len(backlog) \in Nat /\ DOMAIN backlog = 1 .. Len(backlog) /\ 0 \in Places
         /\ Places \subseteq Nat /\ applied \in Nat
<1>1. /\ conn[1] \in Sound /\ backlog \in Seq(Sound) /\ Len(backlog) \in Nat /\ applied \in Nat
  BY FdsType DEF WireInv, Flags
<1>2. \A i \in Places : Queue[i] \in Sound
  BY <1>1 DEF Queue, Places
<1>3. \A c \in Sound : c.packet \in Packet /\ c.packet.msg \in Nat
  BY DEF Sound, Conn, Packet
<1> QED BY <1>1, <1>2, <1>3 DEF Places

\* Where the connections of the accept loop go.
LEMMA PlacesOf ==
  ASSUME WireInv, WireInv'
  PROVE  /\ Kept => /\ Places' = Places
                    /\ \A i \in Places : Queue'[i].packet = Queue[i].packet /\ (Queue'[i].live <=> Queue[i].live)
         /\ \A p, alive : Sends(p, alive) =>
              /\ Places' = Places
              /\ \A i \in Places : IF Queue[i].live THEN Queue'[i].packet = p /\ (Queue'[i].live <=> alive)
                                               ELSE Queue'[i] = Queue[i]
         /\ Hangs => /\ Places' = Places
                     /\ \A i \in Places : Queue'[i].packet = Queue[i].packet /\ ~ Queue'[i].live
         /\ \A c, n : Joined(c) /\ n = Len(backlog) + 1 =>
              /\ Places' = Places \cup {n} /\ Queue'[n] = c
              /\ \A i \in Places : i < n /\ Queue'[i] = Queue[i]
         /\ Cleared => Places' = {0} /\ Queue'[0] = NoConn
         /\ \A fd \in Fds : Moved(fd) /\ Loop = "accept" =>
              /\ \A i \in Places' : i + 1 \in Places /\ i \in Nat /\ Queue'[i] = Queue[i + 1]
              /\ \A i \in Places : i # 0 => i - 1 \in Places' /\ Queue'[i - 1] = Queue[i]
              /\ Queue[0] = NoConn
         /\ \A fd \in Fds : Removed(fd) /\ Loop = "accept" =>
              /\ fd = 1 /\ Places' = Places /\ Queue'[0].packet = NoPacket
              /\ Queue'[0].live => Queue[0].live
              /\ \A i \in Places : i # 0 => Queue'[i] = Queue[i]
<1>0. /\ 1 \in Fds /\ conn \in [Fds -> Sound] /\ backlog \in Seq(Sound) /\ backlog' \in Seq(Sound)
      /\ DOMAIN backlog = 1 .. Len(backlog) /\ Len(backlog) \in Nat
      /\ DOMAIN backlog' = 1 .. Len(backlog') /\ Len(backlog') \in Nat
  BY FdsType DEF WireInv
<1> USE <1>0 DEF Queue, Places
<1>1. Kept => /\ Places' = Places
              /\ \A i \in Places : Queue'[i].packet = Queue[i].packet /\ (Queue'[i].live <=> Queue[i].live)
  BY DEF Kept
<1>2. ASSUME NEW p, NEW alive, Sends(p, alive)
      PROVE  /\ Places' = Places
             /\ \A i \in Places : IF Queue[i].live THEN Queue'[i].packet = p /\ (Queue'[i].live <=> alive)
                                               ELSE Queue'[i] = Queue[i]
  BY <1>2 DEF Sends
<1>3. Hangs => /\ Places' = Places
               /\ \A i \in Places : Queue'[i].packet = Queue[i].packet /\ ~ Queue'[i].live
  BY DEF Hangs
<1>4. ASSUME NEW c, NEW n, Joined(c), n = Len(backlog) + 1
      PROVE  /\ Places' = Places \cup {n} /\ Queue'[n] = c
             /\ \A i \in Places : i < n /\ Queue'[i] = Queue[i]
  <2>1. /\ Len(backlog') = Len(backlog) + 1 /\ backlog'[Len(backlog) + 1] = c /\ conn' = conn
        /\ \A i \in 1 .. Len(backlog) : backlog'[i] = backlog[i]
    BY <1>4 DEF Joined
  <2> QED BY <1>4, <2>1
<1>5. Cleared => Places' = {0} /\ Queue'[0] = NoConn
  BY DEF Cleared
<1>6. ASSUME NEW fd \in Fds, Moved(fd), Loop = "accept"
      PROVE  /\ \A i \in Places' : i + 1 \in Places /\ i \in Nat /\ Queue'[i] = Queue[i + 1]
             /\ \A i \in Places : i # 0 => i - 1 \in Places' /\ Queue'[i - 1] = Queue[i]
             /\ Queue[0] = NoConn
  <2>1. /\ fd = 1 /\ conn'[1] = backlog[1] /\ Len(backlog') = Len(backlog) - 1 /\ conn[1] = NoConn
        /\ \A i \in 1 .. Len(backlog') : backlog'[i] = backlog[i + 1]
    BY <1>6 DEF Moved
  <2> QED BY <2>1
<1>7. ASSUME NEW fd \in Fds, Removed(fd), Loop = "accept"
      PROVE  /\ fd = 1 /\ Places' = Places /\ Queue'[0].packet = NoPacket
             /\ Queue'[0].live => Queue[0].live
             /\ \A i \in Places : i # 0 => Queue'[i] = Queue[i]
  <2>1. fd = 1
    BY <1>7 DEF WireInv, Removed, Readable, NoConn
  <2> QED BY <1>7, <2>1 DEF Removed
<1> HIDE DEF Queue, Places
<1> QED BY <1>1, <1>2, <1>3, <1>4, <1>5, <1>6, <1>7

LEMMA OrderInit == Init => OrderInv
<1> SUFFICES ASSUME Init PROVE OrderInv
  OBVIOUS
<1>1. Places = {0} /\ Queue[0] = NoConn /\ applied = 0
  BY FdsType DEF Init, DaemonInit, Places, Queue
<1>2. ~ IsFlag(Queue[0])
  BY <1>1 DEF IsFlag, NoConn, NoPacket
<1>3. Flag = 10
  BY DEF Init, God!Init, Flag, Lines
<1>4. InOrder(Queue, Places, applied, Flag)
  BY <1>1, <1>2 DEF InOrder
<1> QED BY <1>1, <1>3, <1>4 DEF OrderInv

\* The queue after a step that sends no flag, in these terms.
Shifted ==
  \E k \in Nat :
    /\ \A i \in Places' : IsFlag(Queue'[i]) => i + k \in Places /\ Queue'[i].packet = Queue[i + k].packet
    /\ \A i \in Places' : Queue'[i].live => \/ i + k \in Places /\ Queue[i + k].live
                                            \/ \A j \in Places' : j <= i

NoFlagSent ==
  \/ Kept \/ Cleared \/ Hangs
  \/ \E who \in {"god", "stranger"} : Joined(NewConn(who))
  \/ \E p \in Packet : Sends(p, TRUE) /\ p.id \in 1 .. 3
  \/ \E fd \in Fds : Removed(fd) \/ Moved(fd)

LEMMA OrderSame ==
  ASSUME Loop = "accept", WireInv, WireInv', OrderInv, UNCHANGED applied,
         Flag \in Nat, Flag' \in Nat, Flag' >= Flag, NoFlagSent
  PROVE  OrderInv'
<1>0. /\ Len(backlog) \in Nat /\ Places \in SUBSET Nat /\ applied \in Nat /\ 0 \in Places
  BY PlaceTypes
<1>a. Places' \in SUBSET Nat
  BY DEF Places
<1> SUFFICES Shifted
  <2>1. PICK k \in Nat :
               /\ \A i \in Places' : IsFlag(Queue'[i]) => i + k \in Places /\ Queue'[i].packet = Queue[i + k].packet
               /\ \A i \in Places' : Queue'[i].live => \/ i + k \in Places /\ Queue[i + k].live
                                                       \/ \A j \in Places' : j <= i
    BY DEF Shifted
  <2>2. InOrder(Queue, Places, applied, Flag) /\ applied <= Flag
    BY DEF OrderInv
  <2>3. InOrder(Queue', Places', applied, Flag')
    BY <1>0, <1>a, <2>1, <2>2, StaysInOrder
  <2> QED BY <1>0, <2>2, <2>3 DEF OrderInv
<1> USE DEF Shifted
<1>1. ASSUME Places' = Places,
             \A i \in Places : IsFlag(Queue'[i]) => Queue'[i].packet = Queue[i].packet,
             \A i \in Places : Queue'[i].live => Queue[i].live
      PROVE  Shifted
  <2>1. \A i \in Places : i + 0 = i
    BY <1>0
  <2> WITNESS 0 \in Nat
  <2> QED BY <1>1, <2>1
<1>2. CASE Kept \/ Hangs
  BY <1>1, <1>2, PlacesOf
<1>3. CASE Cleared
  <2>1. Places' = {0} /\ ~ IsFlag(Queue'[0]) /\ ~ Queue'[0].live
    BY <1>3, PlacesOf DEF IsFlag, NoConn, NoPacket
  <2> WITNESS 0 \in Nat
  <2> QED BY <2>1
<1>4. ASSUME NEW who \in {"god", "stranger"}, Joined(NewConn(who))
      PROVE  Shifted
  <2> DEFINE n == Len(backlog) + 1
             c == NewConn(who)
  <2>1. c.packet.id = 0
    BY NewSound DEF NoPacket
  <2> HIDE DEF n, c
  <2>2. Places' = Places \cup {n} /\ Queue'[n] = c /\ \A i \in Places : i < n /\ Queue'[i] = Queue[i]
    BY <1>4, PlacesOf DEF n, c
  <2>3. ~ IsFlag(Queue'[n]) /\ n \in Nat
    BY <1>0, <2>1, <2>2 DEF IsFlag, n
  <2>4. \A j \in Places' : j <= n
    BY <1>0, <2>2, <2>3
  <2>5. \A i \in Places : i + 0 = i
    BY <1>0
  <2> WITNESS 0 \in Nat
  <2> QED BY <2>2, <2>3, <2>4, <2>5
<1>5. ASSUME NEW p \in Packet, Sends(p, TRUE), p.id \in 1 .. 3
      PROVE  Shifted
  <2>1. /\ Places' = Places
        /\ \A i \in Places : IF Queue[i].live THEN Queue'[i].packet = p /\ (Queue'[i].live <=> TRUE)
                                         ELSE Queue'[i] = Queue[i]
    BY <1>5, PlacesOf
  <2>2. \A i \in Places : IsFlag(Queue'[i]) => ~ Queue[i].live
    BY <1>5, <2>1 DEF IsFlag
  <2> QED BY <1>1, <2>1, <2>2
<1>6. ASSUME NEW fd \in Fds, Removed(fd)
      PROVE  Shifted
  <2>1. /\ Places' = Places /\ Queue'[0].packet = NoPacket
        /\ Queue'[0].live => Queue[0].live
        /\ \A i \in Places : i # 0 => Queue'[i] = Queue[i]
    BY <1>6, PlacesOf
  <2>2. ~ IsFlag(Queue'[0])
    BY <2>1 DEF IsFlag, NoPacket
  <2> QED BY <1>1, <2>1, <2>2
<1>7. ASSUME NEW fd \in Fds, Moved(fd)
      PROVE  Shifted
  <2>1. \A i \in Places' : i + 1 \in Places /\ i \in Nat /\ Queue'[i] = Queue[i + 1]
    BY <1>7, PlacesOf
  <2> WITNESS 1 \in Nat
  <2> QED BY <2>1
<1> QED BY <1>2, <1>3, <1>4, <1>5, <1>6, <1>7 DEF NoFlagSent

\* What the steps of the daemon's write and of the control program's send add.
LEMMA OrderWritten ==
  ASSUME Loop = "accept", WireInv, WireInv', OrderInv, NEW fd \in Fds, Removed(fd), Written(fd),
         Flag \in Nat, Flag' = Flag
  PROVE  OrderInv' /\ applied' >= applied
<1> DEFINE m == Queue[0].packet.msg
<1>1. /\ fd = 1 /\ Places' = Places /\ Queue'[0].packet = NoPacket
      /\ Queue'[0].live => Queue[0].live
      /\ \A i \in Places : i # 0 => Queue'[i] = Queue[i]
  BY PlacesOf
<1>2. /\ \A i \in Places : Queue[i].packet.msg \in Nat
      /\ Places \in SUBSET Nat /\ applied \in Nat /\ 0 \in Places
  BY PlaceTypes
<1>3. Queue[0] = conn[1]
  BY <1>2 DEF Queue
<1>4. IsFlag(Queue[0]) /\ applied' = m
  BY <1>1, <1>3 DEF Written, IsFlag
<1>5. InOrder(Queue, Places, applied, Flag) /\ m \in Nat
  BY <1>2 DEF OrderInv
<1>6. m \in applied .. Flag
  BY <1>2, <1>4, <1>5 DEF InOrder
<1>7. ~ IsFlag(Queue'[0])
  BY <1>1 DEF IsFlag, NoPacket
<1> HIDE DEF m
<1>8. ASSUME NEW i \in Places, IsFlag(Queue'[i])
      PROVE  i # 0 /\ IsFlag(Queue[i]) /\ Queue'[i] = Queue[i] /\ Queue'[i].packet.msg \in m .. Flag
  <2>1. i # 0 /\ Queue'[i] = Queue[i] /\ IsFlag(Queue[i]) /\ 0 < i
    BY <1>1, <1>2, <1>7, <1>8
  <2>2. m <= Queue[i].packet.msg /\ Queue[i].packet.msg \in applied .. Flag
    BY <1>2, <1>4, <1>5, <2>1 DEF InOrder, m
  <2> QED BY <1>5, <2>1, <2>2
<1>9. \A i, j \in Places : i < j /\ IsFlag(Queue'[i]) /\ IsFlag(Queue'[j])
                           => Queue'[i].packet.msg <= Queue'[j].packet.msg
  BY <1>5, <1>8 DEF InOrder
<1>10. \A i, j \in Places : i < j /\ Queue'[i].live => ~ IsFlag(Queue'[j])
  <2> SUFFICES ASSUME NEW i \in Places, NEW j \in Places, i < j, Queue'[i].live, IsFlag(Queue'[j])
               PROVE  FALSE
    OBVIOUS
  <2>1. Queue[i].live
    BY <1>1
  <2> QED BY <1>5, <1>8, <2>1 DEF InOrder
<1>11. InOrder(Queue', Places, m, Flag)
  BY <1>8, <1>9, <1>10 DEF InOrder
<1> QED BY <1>1, <1>2, <1>4, <1>5, <1>6, <1>11 DEF OrderInv

LEMMA OrderSent ==
  ASSUME Loop = "accept", WireInv, WireInv', OrderInv, Sends(GodFlag, FALSE),
         Flag \in Nat, Flag' = Flag, applied' = applied
  PROVE  OrderInv'
<1>1. /\ Places' = Places
      /\ \A i \in Places : IF Queue[i].live THEN Queue'[i].packet = GodFlag /\ (Queue'[i].live <=> FALSE)
                                       ELSE Queue'[i] = Queue[i]
  BY PlacesOf
<1>2. /\ \A i \in Places : Queue[i].packet.msg \in Nat
      /\ Places \in SUBSET Nat /\ applied \in Nat
  BY PlaceTypes
<1>3. InOrder(Queue, Places, applied, Flag) /\ applied <= Flag
  BY DEF OrderInv
<1>4. ASSUME NEW i \in Places, IsFlag(Queue'[i])
      PROVE  \/ Queue[i].live /\ Queue'[i].packet.msg = Flag
             \/ Queue'[i] = Queue[i] /\ IsFlag(Queue[i]) /\ ~ Queue[i].live
  BY <1>1, <1>4 DEF GodFlag
<1>5. \A i \in Places : IsFlag(Queue'[i]) => Queue'[i].packet.msg \in applied .. Flag
  <2> SUFFICES ASSUME NEW i \in Places, IsFlag(Queue'[i])
               PROVE  Queue'[i].packet.msg \in applied .. Flag
    OBVIOUS
  <2>1. IsFlag(Queue[i]) => Queue[i].packet.msg \in applied .. Flag
    BY <1>3 DEF InOrder
  <2> QED BY <1>2, <1>3, <1>4, <2>1
<1>6. \A i, j \in Places : i < j /\ IsFlag(Queue'[i]) /\ IsFlag(Queue'[j])
                           => Queue'[i].packet.msg <= Queue'[j].packet.msg
  <2> SUFFICES ASSUME NEW i \in Places, NEW j \in Places, i < j, IsFlag(Queue'[i]), IsFlag(Queue'[j])
               PROVE  Queue'[i].packet.msg <= Queue'[j].packet.msg
    OBVIOUS
  <2>1. Queue'[i].packet.msg \in applied .. Flag /\ Queue'[j].packet.msg \in applied .. Flag
    BY <1>5
  <2>2. CASE Queue[j].live
    BY <1>2, <1>4, <2>1, <2>2
  <2>3. CASE ~ Queue[j].live
    <3>1. Queue'[j] = Queue[j] /\ IsFlag(Queue[j])
      BY <1>4, <2>3
    <3>2. ~ Queue[i].live
      BY <1>3, <3>1 DEF InOrder
    <3>3. Queue'[i] = Queue[i] /\ IsFlag(Queue[i])
      BY <1>4, <3>2
    <3> QED BY <1>3, <3>1, <3>3 DEF InOrder
  <2> QED BY <2>2, <2>3
<1>7. \A i \in Places : ~ Queue'[i].live
  BY <1>1
<1>8. InOrder(Queue', Places, applied, Flag)
  BY <1>5, <1>6, <1>7 DEF InOrder
<1> QED BY <1>1, <1>3, <1>8 DEF OrderInv

LEMMA OrderStep ==
  ASSUME Loop = "accept", WireInv, WireInv', GP!FirstInv, LineInv, VisitInv, OrderInv, [Next]_vars
  PROVE  OrderInv' /\ applied' >= applied
<1>1. /\ Flag \in Nat /\ Flag' \in Nat /\ Flag' >= Flag
      /\ pc' \in {"visit", "send", "recv"} => Flag' = Flag
  BY LineStep DEF LineInv
<1>2. applied \in Nat
  BY PlaceTypes
<1>3. CASE GodStep \/ GodStart
  <2>1. GodEffect
    BY <1>3, GodDoes
  <2>2. applied' = applied
    BY <2>1 DEF GodEffect, Rest
  <2>3. CASE Kept \/ Joined(NewConn("god")) \/ RequestSent \/ Received
    <3>1. NoFlagSent
      BY <2>3 DEF RequestSent, Received, NoFlagSent
    <3> QED BY <1>1, <1>2, <2>2, <3>1, OrderSame
  <2>4. ASSUME NEW ok \in BOOLEAN, FlagSent(ok) PROVE OrderInv' /\ applied' >= applied
    BY <1>1, <1>2, <2>2, <2>4, OrderSent DEF FlagSent
  <2> QED BY <2>1, <2>3, <2>4 DEF GodEffect
<1>4. CASE UNCHANGED godVars /\ Daemon
  <2>1. DaemonEffect
    BY <1>4, DaemonDoes
  <2>2. Flag' = Flag
    BY <1>4 DEF godVars, Flag, Lines, InPlace
  <2>3. ASSUME NEW fd \in Fds, Opened(fd) PROVE Kept
    BY <2>3 DEF Opened, Kept
  <2>4. ASSUME NEW fd \in Fds, Ends(fd) PROVE OrderInv' /\ applied' >= applied
    <3>1. CASE Written(fd)
      BY <1>1, <2>2, <2>4, <3>1, OrderWritten DEF Ends
    <3>2. CASE Lost(fd) \/ Answered(fd)
      <4>1. NoFlagSent /\ applied' = applied
        BY <2>4, <3>2 DEF Ends, Lost, Answered, NoFlagSent
      <4> QED BY <1>1, <1>2, <4>1, OrderSame
    <3> QED BY <2>4, <3>1, <3>2 DEF Ends
  <2>5. CASE UNCHANGED applied /\ (Kept \/ Cleared \/ \E fd \in Fds : Moved(fd))
    <3>1. NoFlagSent
      BY <2>5 DEF NoFlagSent
    <3> QED BY <1>1, <1>2, <2>5, <3>1, OrderSame
  <2> QED BY <2>1, <2>3, <2>4, <2>5 DEF DaemonEffect, Opened
<1>5. CASE UNCHANGED godVars /\ Alone
  <2>1. AloneEffect
    BY <1>5, AloneDoes
  <2>2. NoFlagSent /\ applied' = applied
    BY <2>1 DEF AloneEffect, NoFlagSent
  <2> QED BY <1>1, <1>2, <2>2, OrderSame
<1> QED BY <1>3, <1>4, <1>5, OtherSteps

-----------------------------------------------------------------------------
(* The inductive invariant of the two programs together.                   *)

SystemInv == WireInv /\ GP!FirstInv /\ LineInv /\ VisitInv /\ LiveInv

LEMMA SystemInit == Init => SystemInv
<1>1. Init => GP!FirstInv
  BY GodAssumptions, GodStarts, GP!FirstInit
<1>2. Init => VisitInv
  BY DEF Init, God!Init, God!NoVisit, VisitInv
<1> QED BY <1>1, <1>2, WireInit, LineInit, LiveInit DEF SystemInv

LEMMA SystemStep == ASSUME SystemInv, [Next]_vars PROVE SystemInv'
<1> USE DEF SystemInv
<1>1. GP!FirstInv'
  <2>1. [GP!Next]_(GP!vars)
    BY GodNext DEF WireInv
  <2> QED BY <2>1, GodAssumptions, GP!FirstStep
<1>2. LineInv' /\ VisitInv'
  BY LineStep, VisitStep
<1>3. WireInv'
  BY OtherSteps, WireDaemon, WireGod, WireOthers DEF LineInv
<1>4. \/ UNCHANGED <<godVars, issued, hurried>> /\ (DaemonEffect \/ AloneEffect)
      \/ GodEffect
  BY OtherSteps, DaemonDoes, AloneDoes, GodDoes
<1>5. LiveInv'
  BY <1>3, <1>4, LiveStep
<1> QED BY <1>1, <1>2, <1>3, <1>5

\* What the control program does next to a daemon is what its own module allows, so
\* all that is proved of it there holds in the system, whatever the daemon, the network
\* and strangers do.
THEOREM GodImplemented == Spec => GP!Spec
<1>1. SystemInv => ReplyOK /\ GP!FirstInv
  BY DEF SystemInv, WireInv
<1> QED BY <1>1, SystemInit, SystemStep, GodStarts, GodNext, PTL DEF Spec, GP!Spec

\* The accept loop never puts an older flag after a newer one, whatever is delayed,
\* blocked or restarted, for every number of connections, crashes and strangers: the
\* flags on their way are in order and nothing is sent behind the open connection.
THEOREM AcceptNeverRegresses == Loop = "accept" => (Spec => NoRegress)
<1> SUFFICES ASSUME Loop = "accept" PROVE Spec => NoRegress
  OBVIOUS
<1>1. SystemInv /\ SystemInv' /\ OrderInv /\ [Next]_vars => OrderInv' /\ [applied' >= applied]_vars
  BY OrderStep DEF SystemInv
<1> QED BY <1>1, SystemInit, SystemStep, OrderInit, PTL DEF Spec, NoRegress

\* The control program has at most one connection open.
LEMMA OneLiveCounts ==
  ASSUME OneLive
  PROVE  Cardinality({fd \in Fds : conn[fd].live}) + Cardinality({i \in DOMAIN backlog : backlog[i].live}) <= 1
<1> DEFINE A == {fd \in Fds : conn[fd].live}
           B == {i \in DOMAIN backlog : backlog[i].live}
<1>1. /\ \A a, b \in A : a = b
      /\ \A a, b \in B : a = b
      /\ A = {} \/ B = {}
  BY DEF OneLive
<1> HIDE DEF A, B
<1>2. A = {} \/ \E a \in A : A = {a}
  BY <1>1
<1>3. B = {} \/ \E b \in B : B = {b}
  BY <1>1
<1>4. Cardinality({}) = 0
  BY FS_EmptySet
<1>5. (A = {} \/ Cardinality(A) = 1) /\ (B = {} \/ Cardinality(B) = 1)
  BY <1>2, <1>3, FS_Singleton
<1>6. Cardinality(A) + Cardinality(B) <= 1
  BY <1>1, <1>4, <1>5
<1> QED BY <1>6 DEF A, B

\* The variables of the two programs keep their types; a flag is being written exactly
\* while the daemon serves a descriptor, and the control program never has two
\* connections, whatever becomes of the daemon between two of its commands.
THEOREM SystemTypeCorrect == Spec => []TypeOK
<1>1. SystemInv => TypeOK
  <2> SUFFICES ASSUME SystemInv PROVE TypeOK
    OBVIOUS
  <2>1. God!TypeOK
    BY DEF SystemInv, GP!FirstInv, GP!TypeOK, God!TypeOK, God!SUCCESS, GP!SUCCESS, God!FAIL, GP!FAIL,
       God!KILLED, GP!KILLED
  <2> QED BY <2>1, OneLiveCounts DEF SystemInv, LiveInv, WireInv, Flags, TypeOK
<1> QED BY <1>1, SystemInit, SystemStep, PTL DEF Spec

-----------------------------------------------------------------------------
(* The accept loop: what was sent last is what the file holds in the end.  *)

LastFlagIs(q, places, f) ==
  \E i \in places : /\ IsFlag(q[i]) /\ q[i].packet.msg = f
                    /\ \A j \in places : i < j => ~ IsFlag(q[j])
NoFlags(q, places) == \A i \in places : ~ IsFlag(q[i])

\* While nobody disturbs the daemon, the flag issued last is the last one on its way,
\* or none is and it is in the file.
SettledInv ==
  ~ disturbed /\ inited /\ issued.flag # 0 =>
    \/ LastFlagIs(Queue, Places, issued.flag)
    \/ NoFlags(Queue, Places) /\ file = issued.flag

\* The flags of queue q are those of queue r, k places further to the front.
SameFlags(q, from, r, to, k) ==
  /\ \A i \in to : IsFlag(r[i]) => i + k \in from /\ r[i].packet = q[i + k].packet
  /\ \A i \in from : IsFlag(q[i]) => i - k \in to /\ r[i - k].packet = q[i].packet

LEMMA LastKept ==
  ASSUME NEW q, NEW r, NEW from \in SUBSET Nat, NEW to \in SUBSET Nat, NEW k \in Nat, NEW f,
         SameFlags(q, from, r, to, k)
  PROVE  /\ LastFlagIs(q, from, f) => LastFlagIs(r, to, f)
         /\ NoFlags(q, from) => NoFlags(r, to)
<1>1. ASSUME NEW i \in to, IsFlag(r[i]) PROVE i + k \in from /\ IsFlag(q[i + k])
  BY <1>1 DEF SameFlags, IsFlag
<1>2. ASSUME LastFlagIs(q, from, f) PROVE LastFlagIs(r, to, f)
  <2>1. PICK i \in from : /\ IsFlag(q[i]) /\ q[i].packet.msg = f
                          /\ \A j \in from : i < j => ~ IsFlag(q[j])
    BY <1>2 DEF LastFlagIs
  <2>2. i - k \in to /\ r[i - k].packet = q[i].packet
    BY <2>1 DEF SameFlags
  <2>3. ASSUME NEW j \in to, i - k < j PROVE ~ IsFlag(r[j])
    <3>1. i < j + k
      BY <2>3
    <3> QED BY <1>1, <2>1, <3>1
  <2> QED BY <2>1, <2>2, <2>3 DEF LastFlagIs, IsFlag
<1>3. NoFlags(q, from) => NoFlags(r, to)
  BY <1>1 DEF NoFlags
<1> QED BY <1>2, <1>3

\* A step that neither brings a flag nor takes one.
LEMMA FlagsKept ==
  ASSUME Loop = "accept", WireInv, WireInv',
         \/ Kept \/ Hangs
         \/ \E who \in {"god", "stranger"} : Joined(NewConn(who))
         \/ \E p \in Packet : Sends(p, TRUE) /\ p.id \in 1 .. 3
         \/ \E fd \in Fds : (Removed(fd) /\ conn[fd].packet.id # 4) \/ Moved(fd)
  PROVE  \E k \in Nat : SameFlags(Queue, Places, Queue', Places', k)
<1>0. /\ \A i \in Places : Queue[i] \in Sound
      /\ Len(backlog) \in Nat /\ Places \in SUBSET Nat /\ 0 \in Places
  BY PlaceTypes
<1>1. ASSUME Places' = Places,
             \A i \in Places : IsFlag(Queue'[i]) \/ IsFlag(Queue[i]) => Queue'[i].packet = Queue[i].packet
      PROVE  \E k \in Nat : SameFlags(Queue, Places, Queue', Places', k)
  <2>1. \A i \in Places : i + 0 = i /\ i - 0 = i
    BY <1>0
  <2>2. SameFlags(Queue, Places, Queue', Places', 0)
    BY <1>1, <2>1 DEF SameFlags
  <2> QED BY <2>2
<1>2. CASE Kept \/ Hangs
  BY <1>1, <1>2, PlacesOf
<1>3. ASSUME NEW who \in {"god", "stranger"}, Joined(NewConn(who))
      PROVE  \E k \in Nat : SameFlags(Queue, Places, Queue', Places', k)
  <2> DEFINE n == Len(backlog) + 1
             c == NewConn(who)
  <2>1. c.packet.id = 0
    BY NewSound DEF NoPacket
  <2> HIDE DEF n, c
  <2>2. Places' = Places \cup {n} /\ Queue'[n] = c /\ \A i \in Places : i < n /\ Queue'[i] = Queue[i]
    BY <1>3, PlacesOf DEF n, c
  <2>3. ~ IsFlag(Queue'[n])
    BY <2>1, <2>2 DEF IsFlag
  <2>4. \A i \in Places : i + 0 = i /\ i - 0 = i
    BY <1>0
  <2>5. SameFlags(Queue, Places, Queue', Places', 0)
    BY <2>2, <2>3, <2>4 DEF SameFlags
  <2> QED BY <2>5
<1>4. ASSUME NEW p \in Packet, Sends(p, TRUE), p.id \in 1 .. 3
      PROVE  \E k \in Nat : SameFlags(Queue, Places, Queue', Places', k)
  <2>1. /\ Places' = Places
        /\ \A i \in Places : IF Queue[i].live THEN Queue'[i].packet = p /\ (Queue'[i].live <=> TRUE)
                                         ELSE Queue'[i] = Queue[i]
    BY <1>4, PlacesOf
  <2>2. \A i \in Places : Queue[i].live => ~ IsFlag(Queue[i]) /\ ~ IsFlag(Queue'[i])
    BY <1>0, <1>4, <2>1 DEF IsFlag, Sound
  <2> QED BY <1>1, <2>1, <2>2
<1>5. ASSUME NEW fd \in Fds, Removed(fd), conn[fd].packet.id # 4
      PROVE  \E k \in Nat : SameFlags(Queue, Places, Queue', Places', k)
  <2>1. /\ fd = 1 /\ Places' = Places /\ Queue'[0].packet = NoPacket
        /\ \A i \in Places : i # 0 => Queue'[i] = Queue[i]
    BY <1>5, PlacesOf
  <2>2. ~ IsFlag(Queue'[0]) /\ ~ IsFlag(Queue[0])
    BY <1>0, <1>5, <2>1 DEF IsFlag, NoPacket, Queue
  <2> QED BY <1>1, <2>1, <2>2
<1>6. ASSUME NEW fd \in Fds, Moved(fd)
      PROVE  \E k \in Nat : SameFlags(Queue, Places, Queue', Places', k)
  <2>1. /\ \A i \in Places' : i + 1 \in Places /\ i \in Nat /\ Queue'[i] = Queue[i + 1]
        /\ \A i \in Places : i # 0 => i - 1 \in Places' /\ Queue'[i - 1] = Queue[i]
        /\ ~ IsFlag(Queue[0])
    BY <1>6, PlacesOf DEF IsFlag, NoConn, NoPacket
  <2>2. SameFlags(Queue, Places, Queue', Places', 1)
    BY <2>1 DEF SameFlags
  <2> QED BY <2>2
<1> QED BY <1>2, <1>3, <1>4, <1>5, <1>6

\* So SettledInv goes on, if the flag file and what was issued do.
LEMMA SettledSame ==
  ASSUME WireInv, SettledInv, \E k \in Nat : SameFlags(Queue, Places, Queue', Places', k),
         ~ disturbed' => ~ disturbed, inited' => inited,
         issued' = issued, file' = file \/ ~ NoFlags(Queue, Places)
  PROVE  SettledInv'
<1>1. Places \in SUBSET Nat /\ Places' \in SUBSET Nat
  BY PlaceTypes DEF Places
<1>2. PICK k \in Nat : SameFlags(Queue, Places, Queue', Places', k)
  OBVIOUS
<1>3. /\ \A f : LastFlagIs(Queue, Places, f) => LastFlagIs(Queue', Places', f)
      /\ NoFlags(Queue, Places) => NoFlags(Queue', Places')
  BY <1>1, <1>2, LastKept
<1> QED BY <1>3 DEF SettledInv

\* The daemon takes the flag at the front and writes it.
LEMMA SettledWritten ==
  ASSUME Loop = "accept", WireInv, WireInv', SettledInv, NEW fd \in Fds, Removed(fd), Written(fd),
         UNCHANGED <<inited, issued>>
  PROVE  SettledInv'
<1>1. /\ fd = 1 /\ Places' = Places /\ Queue'[0].packet = NoPacket
      /\ \A i \in Places : i # 0 => Queue'[i] = Queue[i]
  BY PlacesOf
<1>2. Places \in SUBSET Nat /\ 0 \in Places
  BY PlaceTypes
<1>3. IsFlag(Queue[0]) /\ ~ IsFlag(Queue'[0]) /\ file' = Queue[0].packet.msg
  BY <1>1, <1>2 DEF IsFlag, NoPacket, Written, Queue
<1>4. ASSUME LastFlagIs(Queue, Places, issued.flag)
      PROVE  \/ LastFlagIs(Queue', Places', issued.flag)
             \/ NoFlags(Queue', Places') /\ file' = issued.flag
  <2>1. PICK i \in Places : /\ IsFlag(Queue[i]) /\ Queue[i].packet.msg = issued.flag
                            /\ \A j \in Places : i < j => ~ IsFlag(Queue[j])
    BY <1>4 DEF LastFlagIs
  <2>2. CASE i = 0
    <3>1. \A j \in Places : j # 0 => 0 < j
      BY <1>2
    <3> QED BY <1>1, <1>3, <2>1, <2>2, <3>1 DEF NoFlags
  <2>3. CASE i # 0
    <3>1. \A j \in Places : i < j => j # 0
      BY <1>2
    <3> QED BY <1>1, <2>1, <2>3, <3>1 DEF LastFlagIs
  <2> QED BY <2>2, <2>3
<1>5. ~ NoFlags(Queue, Places)
  BY <1>2, <1>3 DEF NoFlags
<1> QED BY <1>4, <1>5 DEF SettledInv, Written

\* The control program sends a flag to a daemon that has lived.
LEMMA SettledSent ==
  ASSUME Loop = "accept", WireInv, WireInv', LiveInv, OrderInv, NEW ok \in BOOLEAN, FlagSent(ok)
  PROVE  SettledInv'
<1> SUFFICES ASSUME ~ disturbed' PROVE LastFlagIs(Queue', Places', issued'.flag)
  BY DEF SettledInv
<1>0. disturbed \in BOOLEAN /\ disturbed' \in BOOLEAN
  BY DEF WireInv, Flags
<1>1. /\ Places' = Places
      /\ \A i \in Places : IF Queue[i].live THEN Queue'[i].packet = GodFlag /\ (Queue'[i].live <=> FALSE)
                                       ELSE Queue'[i] = Queue[i]
  BY PlacesOf DEF FlagSent
<1>2. Live /\ ok
  BY <1>0 DEF FlagSent, LiveInv
<1>3. issued'.flag = Flag
  BY <1>2 DEF FlagSent
<1>4. PICK i \in Places : Queue[i].live
  <2>1. (\E fd \in Fds : conn[fd].live) \/ (\E i \in DOMAIN backlog : backlog[i].live)
    BY <1>2, LiveIs
  <2>2. ASSUME NEW fd \in Fds, conn[fd].live PROVE 0 \in Places /\ Queue[0].live
    <3>1. fd = 1 /\ 0 \in Places
      BY <2>2, PlaceTypes DEF WireInv, NoConn
    <3> QED BY <2>2, <3>1 DEF Queue
  <2>3. ASSUME NEW i \in DOMAIN backlog, backlog[i].live PROVE i \in Places /\ Queue[i].live
    <3>1. i \in Places /\ i # 0
      BY PlaceTypes DEF Places
    <3> QED BY <2>3, <3>1 DEF Queue
  <2> QED BY <2>1, <2>2, <2>3
<1>5. IsFlag(Queue'[i]) /\ Queue'[i].packet.msg = Flag
  BY <1>1, <1>4 DEF IsFlag, GodFlag
<1>6. \A j \in Places : i < j => ~ IsFlag(Queue[j]) /\ ~ Queue[j].live
  <2>1. \A j \in Places : i < j => ~ IsFlag(Queue[j])
    BY <1>4 DEF OrderInv, InOrder
  <2>2. ASSUME NEW j \in Places, i < j, Queue[j].live PROVE FALSE
    <3>1. j # 0 /\ j \in DOMAIN backlog /\ (i = 0 \/ i \in DOMAIN backlog)
      BY <2>2, PlaceTypes DEF Places
    <3>2. Queue[j] = backlog[j] /\ Queue[i] = (IF i = 0 THEN conn[1] ELSE backlog[i])
      BY <3>1 DEF Queue
    <3>3. i # j
      BY <2>2, PlaceTypes
    <3> QED BY <1>4, <2>2, <3>1, <3>2, <3>3, FdsType DEF LiveInv, OneLive
  <2> QED BY <2>1, <2>2
<1>7. \A j \in Places' : i < j => ~ IsFlag(Queue'[j])
  BY <1>1, <1>6
<1> QED BY <1>1, <1>3, <1>5, <1>7 DEF LastFlagIs

LEMMA SettledInit == Init => SettledInv
BY DEF Init, SettledInv

LEMMA SettledStep ==
  ASSUME Loop = "accept", SystemInv, SystemInv', OrderInv, SettledInv, [Next]_vars
  PROVE  SettledInv'
<1> USE DEF SystemInv
<1>0. Flags
  BY DEF WireInv
<1>1. CASE GodStep \/ GodStart
  <2>1. GodEffect
    BY <1>1, GodDoes
  <2>2. UNCHANGED <<inited, file>>
    BY <2>1 DEF GodEffect, Rest
  <2>3. CASE UNCHANGED <<disturbed, issued>> /\ (Kept \/ Joined(NewConn("god")) \/ RequestSent \/ Received)
    <3>1. \E k \in Nat : SameFlags(Queue, Places, Queue', Places', k)
      BY <2>3, FlagsKept DEF RequestSent, Received
    <3> QED BY <2>2, <2>3, <3>1, SettledSame
  <2>4. ASSUME NEW ok \in BOOLEAN, FlagSent(ok) PROVE SettledInv'
    BY <2>4, SettledSent
  <2> QED BY <2>1, <2>3, <2>4 DEF GodEffect, RequestSent, Received
<1>2. CASE UNCHANGED <<godVars, issued, hurried>> /\ Daemon
  <2>1. DaemonEffect
    BY <1>2, DaemonDoes
  <2>2. UNCHANGED issued
    BY <1>2
  <2>3. CASE UNCHANGED <<inited, file, disturbed>> /\ (Kept \/ \E fd \in Fds : Moved(fd))
    <3>1. \E k \in Nat : SameFlags(Queue, Places, Queue', Places', k)
      BY <2>3, FlagsKept
    <3> QED BY <2>2, <2>3, <3>1, SettledSame
  <2>4. ASSUME NEW fd \in Fds, Opened(fd), UNCHANGED inited PROVE SettledInv'
    <3>1. Kept /\ UNCHANGED disturbed
      BY <2>4 DEF Opened, Kept
    <3>2. \E k \in Nat : SameFlags(Queue, Places, Queue', Places', k)
      BY <3>1, FlagsKept
    <3>3. fd = 1
      BY <2>4 DEF Opened, WireInv, NoConn, NoPacket
    <3>4. ~ NoFlags(Queue, Places)
      BY <2>4, <3>3, PlaceTypes DEF Opened, NoFlags, IsFlag, Queue
    <3> QED BY <2>2, <2>4, <3>1, <3>2, <3>4, SettledSame
  <2>5. ASSUME NEW fd \in Fds, Ends(fd), UNCHANGED inited PROVE SettledInv'
    <3>1. CASE Written(fd)
      BY <2>2, <2>5, <3>1, SettledWritten DEF Ends
    <3>2. CASE Lost(fd)
      BY <1>0, <2>2, <2>5, <3>2 DEF Lost, SettledInv, Flags
    <3>3. CASE Answered(fd)
      <4>1. \E k \in Nat : SameFlags(Queue, Places, Queue', Places', k)
        BY <2>5, <3>3, FlagsKept DEF Ends, Answered
      <4> QED BY <2>2, <2>5, <3>3, <4>1, SettledSame DEF Answered
    <3> QED BY <2>5, <3>1, <3>2, <3>3 DEF Ends
  <2>6. Cleared => SettledInv'
    BY DEF Cleared, SettledInv
  <2> QED BY <2>1, <2>3, <2>4, <2>5, <2>6 DEF DaemonEffect
<1>3. CASE UNCHANGED <<godVars, issued, hurried>> /\ Alone
  <2>1. AloneEffect
    BY <1>3, AloneDoes
  <2>2. CASE disturbed'
    BY <2>2 DEF SettledInv
  <2>3. CASE Kept /\ dpc = "down" /\ UNCHANGED disturbed
    BY <1>3, <2>3 DEF LiveInv, SettledInv
  <2>4. CASE /\ Kept \/ Joined(NewConn("stranger"))
             /\ UNCHANGED <<inited, file, disturbed>>
    <3>1. \E k \in Nat : SameFlags(Queue, Places, Queue', Places', k)
      BY <2>4, FlagsKept
    <3> QED BY <1>3, <2>4, <3>1, SettledSame
  <2> QED BY <2>1, <2>2, <2>3, <2>4 DEF AloneEffect, Cleared
<1> QED BY <1>1, <1>2, <1>3, OtherSteps

LEMMA SettledHolds == ASSUME Loop = "accept", WireInv, SettledInv PROVE Settled
<1> SUFFICES ASSUME Quiet, inited, issued.flag # 0, ~ disturbed PROVE file = issued.flag
  BY DEF Settled
<1>1. \A i \in Places : Queue[i] \in Connections
  <2>1. conn[1] \in Connections /\ \A i \in DOMAIN backlog : backlog[i] \in Connections
    BY FdsType DEF Connections, ToSet
  <2>2. \A i \in Places : i # 0 => i \in DOMAIN backlog
    BY PlaceTypes DEF Places
  <2> QED BY <2>1, <2>2 DEF Queue
<1>2. \A i \in Places : ~ IsFlag(Queue[i])
  BY <1>1 DEF Quiet, IsFlag, NoPacket
<1> QED BY <1>2 DEF SettledInv, LastFlagIs

\* The reply to a check of the flag, and the verdict on it: what it says is the flag
\* issued last.
PwnInv ==
  /\ reply # NoPacket /\ cmd.op = "checkflag" /\ ~ disturbed /\ ~ unread /\ issued.flag # 0
     => reply.msg = issued.flag
  /\ NoFalsePwned

LEMMA PwnInit == Init => PwnInv
BY DEF Init, God!Init, DaemonInit, God!NoVisit, PwnInv, NoFalsePwned

\* A reply is sent when nothing is on its way any more: the daemon took its packet
\* from the open connection, and flags are never sent behind that.
LEMMA PwnAnswered ==
  ASSUME Loop = "accept", SystemInv, OrderInv, SettledInv, NEW fd \in Fds, Removed(fd), Answered(fd),
         ~ disturbed, ~ unread', issued.flag # 0, cmd.op = "checkflag", reply' # reply
  PROVE  reply'.msg = issued.flag
<1> USE DEF SystemInv
<1>1. fd = 1 /\ conn[1].live /\ inited /\ conn[1].packet.id # 0
      /\ (conn[1].packet.id = 3 => reply'.msg = (IF file = MISSING THEN 0 ELSE file))
  <2>1. fd = 1
    BY DEF Removed, WireInv, Readable, NoConn
  <2> QED BY <2>1 DEF Answered
<1>2. conn[1].packet.id = 3
  BY <1>1 DEF LiveInv, LiveOK
<1>3. Queue[0] = conn[1] /\ 0 \in Places /\ Places \subseteq Nat
  BY PlaceTypes DEF Queue
<1>4. ~ IsFlag(Queue[0]) /\ \A j \in Places : 0 < j => ~ IsFlag(Queue[j])
  BY <1>1, <1>2, <1>3 DEF IsFlag, OrderInv, InOrder
<1>5. NoFlags(Queue, Places)
  <2>1. \A j \in Places : j = 0 \/ 0 < j
    BY <1>3
  <2> QED BY <1>4, <2>1 DEF NoFlags
<1>6. file = issued.flag
  BY <1>1, <1>5 DEF SettledInv, LastFlagIs, NoFlags
<1>7. issued.flag \in Nat
  BY DEF WireInv, Flags
<1> QED BY <1>1, <1>2, <1>6, <1>7 DEF MISSING

LEMMA PwnStep ==
  ASSUME Loop = "accept", SystemInv, SystemInv', OrderInv, SettledInv, PwnInv, [Next]_vars
  PROVE  PwnInv'
<1> USE DEF SystemInv
<1>0. Flags /\ issued.flag \in Nat
  BY DEF WireInv, Flags
<1>1. CASE GodStep \/ GodStart
  <2>1. GodEffect
    BY <1>1, GodDoes
  <2>3. CASE /\ pc \notin {"send", "recv"} /\ UNCHANGED <<reply, unread, disturbed, issued>>
             /\ UNCHANGED <<visited, cmd>> \/ visited'.what # "reply"
    BY <2>3 DEF PwnInv, NoFalsePwned, LiveInv
  <2>4. CASE reply' = NoPacket /\ visited'.what # "reply"
    BY <2>4 DEF PwnInv, NoFalsePwned
  <2>5. CASE RequestSent
    BY <2>5 DEF RequestSent, PwnInv, NoFalsePwned, LiveInv
  <2>6. ASSUME NEW ok \in BOOLEAN, FlagSent(ok) PROVE PwnInv'
    BY <2>6 DEF FlagSent, PwnInv, NoFalsePwned, LiveInv
  <2>7. CASE Received
    <3>1. /\ reply' = NoPacket /\ visited'.node.flag = Flag /\ Flag # 0
          /\ \/ visited'.reply.kind # "packet"
             \/ reply # NoPacket /\ visited'.reply.msg = reply.msg
          /\ UNCHANGED <<cmd, unread, disturbed, issued>>
      BY <2>7 DEF Received, LineInv
    <3> QED BY <3>1 DEF PwnInv, NoFalsePwned
  <2> QED BY <2>1, <2>3, <2>4, <2>5, <2>6, <2>7 DEF GodEffect
<1>2. CASE UNCHANGED <<godVars, issued, hurried>> /\ Daemon
  <2>1. DaemonEffect
    BY <1>2, DaemonDoes
  <2>2. UNCHANGED <<issued, cmd, visited>>
    BY <1>2 DEF godVars
  <2>3. (~ disturbed' => ~ disturbed) /\ (~ unread' => ~ unread)
    BY <1>0, <2>1 DEF DaemonEffect, Opened, Ends, Written, Lost, Answered, Cleared, Flags
  <2>4. ASSUME reply' # NoPacket, cmd.op = "checkflag", ~ disturbed', ~ unread', issued.flag # 0
        PROVE  reply'.msg = issued.flag
    <3>1. CASE reply' = reply
      BY <2>3, <2>4, <3>1 DEF PwnInv
    <3>2. ASSUME NEW fd \in Fds, Removed(fd), Answered(fd), reply' # reply PROVE reply'.msg = issued.flag
      BY <2>3, <2>4, <3>2, PwnAnswered
    <3> QED BY <2>1, <3>1, <3>2 DEF DaemonEffect, Opened, Ends, Written, Lost, Answered
  <2> QED BY <2>2, <2>3, <2>4 DEF PwnInv, NoFalsePwned
<1>3. CASE UNCHANGED <<godVars, issued, hurried>> /\ Alone
  <2>1. AloneEffect
    BY <1>3, AloneDoes
  <2>2. UNCHANGED <<issued, cmd, visited, reply, unread>> /\ (~ disturbed' => ~ disturbed)
    BY <1>3, <2>1 DEF AloneEffect, Cleared, godVars
  <2> QED BY <2>2 DEF PwnInv, NoFalsePwned
<1> QED BY <1>1, <1>2, <1>3, OtherSteps

\* Next to the accept loop a check of the flag that follows a propagation never says
\* that the flag is lost, while the daemon lived and could open the file whenever it
\* had to, and nobody else wrote it.
THEOREM AcceptNeverPwns == Loop = "accept" => (Spec => []NoFalsePwned)
<1> SUFFICES ASSUME Loop = "accept" PROVE Spec => []NoFalsePwned
  OBVIOUS
<1> DEFINE Inv == SystemInv /\ OrderInv /\ SettledInv /\ PwnInv
<1>1. Init => Inv
  BY SystemInit, OrderInit, SettledInit, PwnInit
<1>2. Inv /\ [Next]_vars => Inv'
  <2> SUFFICES ASSUME Inv, [Next]_vars PROVE Inv'
    OBVIOUS
  <2>1. SystemInv'
    BY SystemStep
  <2>2. OrderInv'
    BY <2>1, OrderStep DEF SystemInv
  <2> QED BY <2>1, <2>2, SettledStep, PwnStep
<1>3. Inv => NoFalsePwned
  BY DEF PwnInv
<1> QED BY <1>1, <1>2, <1>3, PTL DEF Spec

-----------------------------------------------------------------------------
(* The select loop: it may take the flags in any order, so the old ones    *)
(* must be stale when a new one is sent.                                   *)

Waiting == {p \in Packet : /\ p.id = 4
                           /\ \/ \E fd \in Fds : conn[fd].packet = p
                              \/ \E i \in DOMAIN backlog : backlog[i].packet = p}

\* The flags that wait to be read after each kind of step.
LEMMA WaitingAfter ==
  ASSUME WireInv, WireInv'
  PROVE  /\ Kept \/ Hangs => Waiting' = Waiting
         /\ \A who \in {"god", "stranger"} : Joined(NewConn(who)) => Waiting' = Waiting
         /\ \A p \in Packet : Sends(p, TRUE) /\ p.id \in 1 .. 3 => Waiting' = Waiting
         /\ \A p \in Packet : Sends(p, FALSE) /\ p.id = 4 =>
              Waiting' = IF Live THEN Waiting \cup {p} ELSE Waiting
         /\ \A fd \in Fds : Moved(fd) => Waiting' = Waiting
         /\ \A fd \in Fds : Removed(fd) =>
              Waiting' \subseteq Waiting /\ Waiting \subseteq Waiting' \cup {conn[fd].packet}
         /\ Cleared => Waiting' = {}
<1>0. /\ \A fd \in Fds : conn[fd] \in Sound /\ conn'[fd] \in Sound
      /\ backlog \in Seq(Sound) /\ backlog' \in Seq(Sound)
      /\ DOMAIN backlog = 1 .. Len(backlog) /\ Len(backlog) \in Nat
      /\ DOMAIN backlog' = 1 .. Len(backlog')
      /\ \A i \in DOMAIN backlog : backlog[i] \in Sound
  BY DEF WireInv
<1>a. \A c \in Sound : c.live => c.packet.id # 4
  BY DEF Sound
<1>1. Kept \/ Hangs => Waiting' = Waiting
  <2> SUFFICES ASSUME Kept \/ Hangs PROVE Waiting' = Waiting
    OBVIOUS
  <2>1. /\ DOMAIN backlog' = DOMAIN backlog
        /\ \A i \in DOMAIN backlog : backlog'[i].packet = backlog[i].packet
        /\ \A fd \in Fds : conn'[fd].packet = conn[fd].packet
    BY <1>0 DEF Kept, Hangs
  <2> QED BY <2>1 DEF Waiting
<1>2. ASSUME NEW who \in {"god", "stranger"}, Joined(NewConn(who)) PROVE Waiting' = Waiting
  <2> DEFINE n == Len(backlog) + 1
             c == NewConn(who)
  <2>1. c.packet.id = 0
    BY NewSound DEF NoPacket
  <2>2. /\ DOMAIN backlog' = DOMAIN backlog \cup {n} /\ backlog'[n] = c /\ conn' = conn
        /\ \A i \in DOMAIN backlog : backlog'[i] = backlog[i]
    BY <1>0, <1>2 DEF Joined
  <2> HIDE DEF n, c
  <2> QED BY <2>1, <2>2 DEF Waiting
<1>3. ASSUME NEW p \in Packet, Sends(p, TRUE), p.id \in 1 .. 3 PROVE Waiting' = Waiting
  <2>1. /\ DOMAIN backlog' = DOMAIN backlog
        /\ \A i \in DOMAIN backlog : IF backlog[i].live THEN backlog'[i].packet = p ELSE backlog'[i] = backlog[i]
        /\ \A fd \in Fds : IF conn[fd].live THEN conn'[fd].packet = p ELSE conn'[fd] = conn[fd]
        /\ p.id # 4
    BY <1>0, <1>3 DEF Sends
  <2> QED BY <1>0, <1>a, <2>1 DEF Waiting
<1>4. ASSUME NEW p \in Packet, Sends(p, FALSE), p.id = 4
      PROVE  Waiting' = IF Live THEN Waiting \cup {p} ELSE Waiting
  <2>1. /\ DOMAIN backlog' = DOMAIN backlog
        /\ \A i \in DOMAIN backlog : IF backlog[i].live THEN backlog'[i].packet = p ELSE backlog'[i] = backlog[i]
        /\ \A fd \in Fds : IF conn[fd].live THEN conn'[fd].packet = p ELSE conn'[fd] = conn[fd]
    BY <1>0, <1>4 DEF Sends
  <2>2. Waiting' \subseteq Waiting \cup {p}
    BY <2>1 DEF Waiting
  <2>3. Waiting \subseteq Waiting'
    BY <1>0, <1>a, <2>1 DEF Waiting
  <2>4. Live => p \in Waiting'
    BY <1>4, <2>1, LiveIs DEF Waiting
  <2>5. ~ Live => Waiting' = Waiting
    BY <2>1, LiveIs DEF Waiting
  <2> QED BY <2>2, <2>3, <2>4, <2>5
<1>5. ASSUME NEW fd \in Fds, Moved(fd) PROVE Waiting' = Waiting
  <2>1. /\ conn'[fd] = backlog[1] /\ \A x \in Fds : x # fd => conn'[x] = conn[x]
        /\ 1 \in DOMAIN backlog /\ conn[fd].packet.id = 0
    BY <1>0, <1>5 DEF Moved, NoConn, NoPacket, WireInv
  <2>2. \A i \in DOMAIN backlog' : i + 1 \in DOMAIN backlog /\ backlog'[i] = backlog[i + 1]
    BY <1>0, <1>5 DEF Moved
  <2>3. \A i \in DOMAIN backlog : i # 1 => i - 1 \in DOMAIN backlog' /\ backlog'[i - 1] = backlog[i]
    BY <1>0, <1>5 DEF Moved
  <2>4. Waiting' \subseteq Waiting
    BY <2>1, <2>2 DEF Waiting
  <2>5. ASSUME NEW p \in Waiting PROVE p \in Waiting'
    <3>1. ASSUME NEW x \in Fds, conn[x].packet = p PROVE p \in Waiting'
      BY <2>1, <3>1 DEF Waiting
    <3>2. ASSUME NEW i \in DOMAIN backlog, backlog[i].packet = p PROVE p \in Waiting'
      BY <2>1, <2>3, <3>2 DEF Waiting
    <3> QED BY <3>1, <3>2 DEF Waiting
  <2> QED BY <2>4, <2>5
<1>6. ASSUME NEW fd \in Fds, Removed(fd)
      PROVE  Waiting' \subseteq Waiting /\ Waiting \subseteq Waiting' \cup {conn[fd].packet}
  BY <1>6 DEF Removed, Waiting, NoPacket
<1>7. Cleared => Waiting' = {}
  <2> SUFFICES ASSUME Cleared PROVE Waiting' = {}
    OBVIOUS
  <2>1. DOMAIN backlog' = {} /\ \A fd \in Fds : conn'[fd].packet.id = 0
    BY DEF Cleared, NoConn, NoPacket
  <2> QED BY <2>1 DEF Waiting
<1> QED BY <1>1, <1>2, <1>3, <1>4, <1>5, <1>6, <1>7

\* Unless a flag was issued in a hurry, every flag that waits is the last one issued,
\* or it is stale; and unless the daemon was disturbed the last one waits or is written.
StaleInv ==
  ~ hurried =>
    /\ issued.ts <= now
    /\ \A p \in Waiting :
         /\ issued.flag # 0 /\ p.ts <= now
         /\ p.msg = issued.flag => p.ts <= issued.ts
         /\ p.msg # issued.flag => now + Skew - p.ts >= Timeout

WaitsInv ==
  ~ hurried /\ ~ disturbed /\ inited /\ issued.flag # 0 =>
    \/ \E p \in Waiting : p.msg = issued.flag
    \/ file = issued.flag /\ dpc # "write"

LEMMA StaleInit == Init => StaleInv /\ WaitsInv
<1>1. ASSUME Init PROVE Waiting = {}
  <2>1. DOMAIN backlog = {} /\ \A fd \in Fds : conn[fd].packet.id = 0
    BY <1>1 DEF Init, DaemonInit, NoConn, NoPacket
  <2> QED BY <2>1 DEF Waiting
<1> SUFFICES ASSUME Init PROVE StaleInv /\ WaitsInv
  OBVIOUS
<1>2. issued = [flag |-> 0, ts |-> 0] /\ now = 0
  BY DEF Init, DaemonInit
<1>3. Waiting = {}
  BY <1>1
<1> QED BY <1>2, <1>3 DEF StaleInv, WaitsInv

LEMMA StaleSent ==
  ASSUME WireInv, WireInv', LineInv, StaleInv, NEW ok \in BOOLEAN, FlagSent(ok), UNCHANGED now
  PROVE  StaleInv'
<1> SUFFICES ASSUME ~ hurried'
             PROVE  /\ issued'.ts <= now
                    /\ \A p \in Waiting' :
                         /\ issued'.flag # 0 /\ p.ts <= now
                         /\ p.msg = issued'.flag => p.ts <= issued'.ts
                         /\ p.msg # issued'.flag => now + Skew - p.ts >= Timeout
  BY DEF StaleInv
<1>0. /\ now \in Nat /\ issued \in [flag : Nat, ts : Nat] /\ Flag \in Nat \ {0}
      /\ Timeout \in Nat /\ Skew \in Int /\ hurried \in BOOLEAN /\ hurried' \in BOOLEAN
  BY DaemonAssumption DEF WireInv, Flags, LineInv
<1>1. GodFlag \in Packet /\ GodFlag.id = 4 /\ GodFlag.msg = Flag /\ GodFlag.ts = now
  BY <1>0 DEF GodFlag, Packet
<1>2. Waiting' = IF Live THEN Waiting \cup {GodFlag} ELSE Waiting
  BY <1>1, WaitingAfter DEF FlagSent
<1>3. /\ ~ hurried
      /\ issued.ts <= now
      /\ \A p \in Waiting :
           /\ issued.flag # 0 /\ p.ts <= now
           /\ p.msg = issued.flag => p.ts <= issued.ts
           /\ p.msg # issued.flag => now + Skew - p.ts >= Timeout
  <2>1. ~ hurried
    BY <1>0 DEF FlagSent
  <2> QED BY <2>1 DEF StaleInv
<1>4. CASE ~ ok
  <2>1. Waiting' = Waiting /\ issued' = issued
    BY <1>2, <1>4 DEF FlagSent
  <2> QED BY <1>3, <2>1
<1>5. CASE ok
  <2>1. issued' = [flag |-> Flag, ts |-> now]
    BY <1>5 DEF FlagSent
  <2>2. issued.flag \in {0, Flag} \/ now - issued.ts >= Timeout - Skew
    <3>1. ~ (issued.flag \notin {0, Flag} /\ now - issued.ts < Timeout - Skew)
      BY <1>0, <1>5 DEF FlagSent
    <3> QED BY <1>0, <3>1
  <2>3. ASSUME NEW p \in Waiting
        PROVE  p.msg # Flag => now + Skew - p.ts >= Timeout
    <3>1. p.ts \in Nat
      BY DEF Waiting, Packet
    <3>3. p.msg # issued.flag => now + Skew - p.ts >= Timeout
      BY <1>3
    <3>4. CASE p.msg = issued.flag /\ p.msg # Flag
      <4>1. now - issued.ts >= Timeout - Skew /\ p.ts <= issued.ts
        BY <1>3, <2>2, <3>4
      <4> QED BY <1>0, <3>1, <4>1
    <3> QED BY <3>3, <3>4
  <2>4. \A p \in Waiting' : p \in Waiting \/ (p.msg = Flag /\ p.ts = now)
    BY <1>1, <1>2
  <2> QED BY <1>0, <1>3, <2>1, <2>3, <2>4
<1> QED BY <1>4, <1>5

\* The step of the control program that sends a flag is the only one that matters.
LEMMA WaitingShrinks ==
  ASSUME SystemInv, SystemInv', [Next]_vars, ~ \E ok \in BOOLEAN : FlagSent(ok)
  PROVE  /\ Waiting' \subseteq Waiting /\ now' >= now
         /\ UNCHANGED <<issued, hurried>>
<1> USE DEF SystemInv
<1>0. now \in Nat
  BY DEF WireInv, Flags
<1>1. CASE GodStep \/ GodStart
  <2>1. GodEffect
    BY <1>1, GodDoes
  <2>2. Kept \/ Joined(NewConn("god")) \/ RequestSent \/ Received => Waiting' = Waiting
    BY WaitingAfter DEF RequestSent, Received
  <2>3. UNCHANGED now
    BY <2>1 DEF GodEffect, Rest
  <2>4. /\ Kept \/ Joined(NewConn("god")) \/ RequestSent \/ Received
        /\ UNCHANGED <<issued, hurried>>
    BY <2>1 DEF GodEffect, RequestSent, Received
  <2> QED BY <1>0, <2>2, <2>3, <2>4
<1>2. CASE UNCHANGED <<godVars, issued, hurried>> /\ Daemon
  <2>1. DaemonEffect
    BY <1>2, DaemonDoes
  <2>2. Waiting' \subseteq Waiting
    BY <2>1, WaitingAfter DEF DaemonEffect, Opened, Ends, Kept
  <2> QED BY <1>0, <1>2, <2>1, <2>2 DEF DaemonEffect
<1>3. CASE UNCHANGED <<godVars, issued, hurried>> /\ Alone
  <2>1. AloneEffect
    BY <1>3, AloneDoes
  <2>2. Waiting' \subseteq Waiting
    BY <2>1, WaitingAfter DEF AloneEffect
  <2> QED BY <1>0, <1>3, <2>1, <2>2 DEF AloneEffect
<1> QED BY <1>1, <1>2, <1>3, OtherSteps

LEMMA StaleStep == ASSUME SystemInv, SystemInv', StaleInv, [Next]_vars PROVE StaleInv'
<1>1. ASSUME NEW ok \in BOOLEAN, FlagSent(ok) PROVE StaleInv'
  <2>1. CASE GodStep \/ GodStart
    <3>1. GodEffect
      BY <2>1, GodDoes DEF SystemInv
    <3>2. UNCHANGED now
      BY <3>1 DEF GodEffect, Rest
    <3> QED BY <1>1, <3>2, StaleSent DEF SystemInv
  <2>2. CASE UNCHANGED godVars
    BY <1>1, <2>2 DEF FlagSent, godVars
  <2> QED BY <2>1, <2>2, OtherSteps DEF godVars
<1>2. CASE ~ \E ok \in BOOLEAN : FlagSent(ok)
  <2>1. Waiting' \subseteq Waiting /\ now' >= now /\ UNCHANGED <<issued, hurried>>
    BY <1>2, WaitingShrinks
  <2>2. /\ now \in Nat /\ now' \in Nat /\ issued.ts \in Nat /\ Timeout \in Nat /\ Skew \in Int
        /\ \A p \in Waiting : p.ts \in Nat
    BY DaemonAssumption DEF SystemInv, WireInv, Flags, Waiting, Packet
  <2> SUFFICES ASSUME ~ hurried
               PROVE  /\ issued.ts <= now'
                      /\ \A p \in Waiting :
                           /\ issued.flag # 0 /\ p.ts <= now'
                           /\ p.msg = issued.flag => p.ts <= issued.ts
                           /\ p.msg # issued.flag => now' + Skew - p.ts >= Timeout
    BY <2>1 DEF StaleInv
  <2>3. /\ issued.ts <= now
        /\ \A p \in Waiting :
             /\ issued.flag # 0 /\ p.ts <= now
             /\ p.msg = issued.flag => p.ts <= issued.ts
             /\ p.msg # issued.flag => now + Skew - p.ts >= Timeout
    BY DEF StaleInv
  <2> QED BY <2>1, <2>2, <2>3
<1> QED BY <1>1, <1>2

\* A flag that is still fresh is the last one issued.
LEMMA FreshIsLast ==
  ASSUME WireInv, StaleInv, ~ hurried, NEW fd \in Fds, conn[fd].packet.id = 4, Fresh(conn[fd].packet)
  PROVE  conn[fd].packet \in Waiting /\ conn[fd].packet.msg = issued.flag
<1> DEFINE p == conn[fd].packet
<1>1. p \in Packet
  BY DEF WireInv, Sound, Conn
<1>2. p \in Waiting
  BY <1>1 DEF Waiting
<1>3. now \in Nat /\ p.ts \in Nat /\ Timeout \in Nat /\ Skew \in Int
  BY <1>1, DaemonAssumption DEF WireInv, Flags, Packet
<1>4. ~ (now + Skew - p.ts >= Timeout)
  BY <1>3 DEF Fresh
<1> QED BY <1>2, <1>4 DEF StaleInv

LEMMA WaitsStep ==
  ASSUME SystemInv, SystemInv', StaleInv, WaitsInv, [Next]_vars
  PROVE  WaitsInv'
<1> USE DEF SystemInv
<1>0. Flags /\ Flags'
  BY DEF WireInv
<1>1. CASE GodStep \/ GodStart
  <2>1. GodEffect
    BY <1>1, GodDoes
  <2>2. UNCHANGED <<inited, file, dpc>>
    BY <2>1 DEF GodEffect, Rest
  <2>3. CASE /\ UNCHANGED <<disturbed, issued, hurried>>
             /\ Kept \/ Joined(NewConn("god")) \/ RequestSent \/ Received
    <3>1. Waiting' = Waiting
      BY <2>3, WaitingAfter DEF RequestSent, Received
    <3> QED BY <2>2, <2>3, <3>1 DEF WaitsInv
  <2>4. ASSUME NEW ok \in BOOLEAN, FlagSent(ok) PROVE WaitsInv'
    <3> SUFFICES ASSUME ~ disturbed' PROVE \E p \in Waiting' : p.msg = issued'.flag
      BY DEF WaitsInv
    <3>1. Live /\ ok
      BY <1>0, <2>4 DEF FlagSent, LiveInv, Flags
    <3>2. GodFlag \in Packet /\ GodFlag.id = 4 /\ GodFlag.msg = Flag
      BY <1>0 DEF GodFlag, Packet, Flags, LineInv
    <3>3. GodFlag \in Waiting'
      BY <2>4, <3>1, <3>2, WaitingAfter DEF FlagSent
    <3> QED BY <2>4, <3>1, <3>2, <3>3 DEF FlagSent
  <2> QED BY <2>1, <2>3, <2>4 DEF GodEffect, RequestSent, Received
<1>2. CASE UNCHANGED <<godVars, issued, hurried>> /\ Daemon
  <2>1. DaemonEffect
    BY <1>2, DaemonDoes
  <2>3. CASE /\ Kept \/ \E fd \in Fds : Moved(fd)
             /\ UNCHANGED <<inited, file, disturbed>> /\ dpc' # "write"
    <3>1. Waiting' = Waiting
      BY <2>3, WaitingAfter
    <3> QED BY <1>2, <2>3, <3>1 DEF WaitsInv
  <2>4. ASSUME NEW fd \in Fds, Opened(fd), UNCHANGED inited PROVE WaitsInv'
    <3> SUFFICES ASSUME ~ hurried PROVE \E p \in Waiting' : p.msg = issued.flag
      BY <1>2 DEF WaitsInv
    <3>1. Kept
      BY <2>4 DEF Opened, Kept
    <3>2. Waiting' = Waiting
      BY <3>1, WaitingAfter
    <3> QED BY <2>4, <3>2, FreshIsLast DEF Opened
  <2>5. ASSUME NEW fd \in Fds, Ends(fd), UNCHANGED inited PROVE WaitsInv'
    <3>1. dpc' # "write" /\ Waiting' \subseteq Waiting /\ Waiting \subseteq Waiting' \cup {conn[fd].packet}
      BY <2>5, WaitingAfter DEF Ends
    <3>2. CASE Written(fd)
      BY <1>2, <2>5, <3>1, <3>2 DEF Written, WaitsInv
    <3>3. CASE Lost(fd)
      BY <1>0, <2>5, <3>3 DEF Lost, WaitsInv, Flags
    <3>4. CASE Answered(fd)
      <4>1. conn[fd].packet \notin Waiting
        BY <3>4 DEF Answered, Waiting
      <4> QED BY <1>2, <2>5, <3>1, <3>4, <4>1 DEF Answered, WaitsInv
    <3> QED BY <2>5, <3>2, <3>3, <3>4 DEF Ends
  <2>6. Cleared => WaitsInv'
    BY DEF Cleared, WaitsInv
  <2> QED BY <2>1, <2>3, <2>4, <2>5, <2>6 DEF DaemonEffect
<1>3. CASE UNCHANGED <<godVars, issued, hurried>> /\ Alone
  <2>1. AloneEffect
    BY <1>3, AloneDoes
  <2>2. CASE disturbed'
    BY <2>2 DEF WaitsInv
  <2>3. CASE Kept /\ dpc = "down" /\ UNCHANGED disturbed
    BY <1>3, <2>3 DEF LiveInv, WaitsInv
  <2>4. CASE /\ Kept \/ Joined(NewConn("stranger"))
             /\ UNCHANGED <<dpc, inited, file, disturbed>>
    <3>1. Waiting' = Waiting
      BY <2>4, WaitingAfter
    <3> QED BY <1>3, <2>4, <3>1 DEF WaitsInv
  <2> QED BY <2>1, <2>2, <2>3, <2>4 DEF AloneEffect, Cleared
<1> QED BY <1>1, <1>2, <1>3, OtherSteps

\* When all is read, the file holds the flag issued last.
LEMMA WaitsHolds == ASSUME WireInv, WaitsInv, ~ hurried PROVE Settled
<1> SUFFICES ASSUME Quiet, inited, issued.flag # 0, ~ disturbed PROVE file = issued.flag
  BY DEF Settled
<1>1. \A p \in Waiting : p = NoPacket
  BY DEF Waiting, Quiet, Connections, ToSet
<1>2. \A p \in Waiting : p.id = 4
  BY DEF Waiting
<1>3. Waiting = {}
  BY <1>1, <1>2 DEF NoPacket
<1> QED BY <1>3 DEF WaitsInv

\* When everything sent has been read, the file holds the flag issued last, if since
\* then the daemon lived, could open and write the file, and nobody else wrote it: for
\* the accept loop because it keeps the order, for the select loop because older flags
\* are stale by then, whatever the skew of the clocks.
THEOREM FlagsSettle == Spec => []Settled
<1> DEFINE Inv == /\ SystemInv /\ StaleInv /\ WaitsInv
                  /\ Loop = "accept" => OrderInv /\ SettledInv
<1>1. Init => Inv
  BY SystemInit, StaleInit, OrderInit, SettledInit
<1>2. Inv /\ [Next]_vars => Inv'
  <2> SUFFICES ASSUME Inv, [Next]_vars PROVE Inv'
    OBVIOUS
  <2>1. SystemInv'
    BY SystemStep
  <2>2. StaleInv' /\ WaitsInv'
    BY <2>1, StaleStep, WaitsStep
  <2>3. Loop = "accept" => OrderInv' /\ SettledInv'
    BY <2>1, OrderStep, SettledStep DEF SystemInv
  <2> QED BY <2>1, <2>2, <2>3
<1>3. Inv => Settled
  <2> SUFFICES ASSUME Inv PROVE Settled
    OBVIOUS
  <2>1. CASE Loop = "accept"
    BY <2>1, SettledHolds DEF SystemInv
  <2>2. CASE Loop = "select" /\ ~ hurried
    BY <2>2, WaitsHolds DEF SystemInv
  <2>3. CASE Loop = "select" /\ hurried
    BY <2>3 DEF Settled
  <2> QED BY <2>1, <2>2, <2>3, DaemonAssumption
<1> QED BY <1>1, <1>2, <1>3, PTL DEF Spec

=============================================================================
