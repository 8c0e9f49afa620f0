------------------------------ MODULE BitSteal ------------------------------
(***************************************************************************)
(* The schaurakith daemon of bit_steal: main re-reads flag and seed every  *)
(* two minutes (PoolFlagChange), one thread broadcasts the flag encrypted  *)
(* with a key made from the seed, another answers one request per          *)
(* connection with one bit of the seed; and the program that puts the two  *)
(* together, solution.py.                                                  *)
(*                                                                         *)
(* Data: flag, seed and key are the number of the PoolFlagChange they come *)
(* from, 0 before the first.  The dump file is external: every read may    *)
(* find it missing, empty, with a flag only, or complete.                  *)
(***************************************************************************)
EXTENDS Integers, Sequences, SequencesExt

CONSTANTS
  Bytes, Bits,      \* what the reader takes of the seed: 8 bytes of 8 bits
  TalkKeys,         \* bTalkKey is in 0..TalkKeys-1
  StrangerPackets,  \* what other clients send, <<>> for nothing at all
  MaxChanges,       \* bound: calls of PoolFlagChange
  MaxNet,           \* bound: broadcasts waiting in the sniffer's buffer
  MaxStrangers      \* bound: connections of other clients

ASSUME BitStealAssumption ==
  /\ Bytes \in Nat \ {0} /\ Bits \in Nat \ {0} /\ TalkKeys \in Nat \ {0}
  /\ StrangerPackets \subseteq Seq(Nat)
  /\ MaxChanges \in Nat \ {0} /\ MaxNet \in Nat /\ MaxStrangers \in Nat

VARIABLES
  mpc,        \* main
  bpc,        \* BroadcastTraffic
  spc,        \* ProcessIncomingTraffic
  mutex,      \* owner of mutex1
  time_to_quit,
  bTalkKey,
  change,     \* number of the latest PoolFlagChange
  second,     \* its line has a second token
  cXorFlag,   \* the buffer: flag, and the key it is encrypted with (0: none)
  cSeed,
  backlog,    \* connections not accepted yet, each what its client sends
  conn,       \* the connection being served
  timed,      \* its SO_RCVTIMEO is in force
  net,        \* broadcasts in the sniffer's buffer
  rpc,        \* solution.py
  x,          \* the talk key it tries, and then uses
  pos,        \* how many bits it has asked for
  cur_bits,   \* some bit of the byte it is at has come
  answer,     \* what its connection has got
  packet,     \* encPacket.dmp
  got,        \* the bits it has, by the change their seed is from
  strangers

mainVars   == <<mpc, time_to_quit, change, second, cXorFlag, cSeed>>
socketVars == <<spc, backlog, conn, timed, strangers>>
readerVars == <<rpc, x, pos, cur_bits, packet, got>>
vars == <<mainVars, bpc, mutex, bTalkKey, net, socketVars, readerVars, answer>>

Change == 0 .. MaxChanges
Flag == [flag : Change, key : Change]
Packet == {<<k, b, i>> : k \in 0 .. TalkKeys, b \in 0 .. Bytes - 1, i \in 0 .. Bits - 1}
Conn == [from : {"reader"}, data : Packet] \cup [from : {"stranger"}, data : StrangerPackets]
Answer == [kind : {"none", "asked", "closed", "reset", "bit"}, change : Change]
Without(kind) == [kind |-> kind, change |-> 0]
NoAnswer == Without("none")

\* The values the variables range over.
TypeOK ==
  /\ mpc \in {"fopen", "lock", "flag", "seed", "encrypt", "wait", "exited"}
  /\ bpc \in {"new", "lock", "send", "unlock", "closed"}
  /\ spc \in {"new", "bind", "accept", "read", "lock", "char"}
  /\ mutex \in {"none", "main", "broadcast", "incoming"}
  /\ time_to_quit \in BOOLEAN /\ second \in BOOLEAN
  /\ bTalkKey \in 0 .. TalkKeys - 1
  /\ change \in Change /\ cSeed \in Change
  /\ cXorFlag \in Flag /\ packet \in Flag
  /\ backlog \in Seq(Conn)
  /\ spc \in {"read", "lock", "char"} => conn \in Conn
  /\ timed \in BOOLEAN /\ cur_bits \in BOOLEAN
  /\ net \in Seq(Flag)
  /\ rpc \in {"sniff", "brute", "bits", "decoded", "stopped"}
  /\ x \in 0 .. TalkKeys /\ pos \in 0 .. Bytes * Bits
  /\ answer \in Answer
  /\ got \in Seq(Change)
  /\ strangers \in 0 .. MaxStrangers

-----------------------------------------------------------------------------
Init ==
  /\ mpc = "fopen" /\ bpc = "new" /\ spc = "new" /\ mutex = "none"
  /\ time_to_quit = FALSE
  /\ bTalkKey \in 0 .. TalkKeys - 1
  /\ change = 0 /\ second = FALSE /\ cSeed = 0
  /\ cXorFlag = [flag |-> 0, key |-> 0]
  /\ backlog = <<>> /\ conn = <<>> /\ timed = FALSE /\ strangers = 0
  /\ net = <<>>
  /\ rpc = "sniff" /\ x = 0 /\ pos = 0 /\ cur_bits = FALSE /\ got = <<>>
  /\ answer = NoAnswer
  /\ packet = [flag |-> 0, key |-> 0]

Alive == mpc # "exited"
Listening == Alive /\ spc \notin {"new", "bind"}

(***************************************************************************)
(* main and PoolFlagChange                                                 *)
(***************************************************************************)
\* fopen, fgets, fclose and the first strtok, which find no, one or two tokens.
\* An empty file leaves `line' as it was on the stack, so it may be any of these.
ReadFlagFile ==
  /\ mpc = "fopen"
  /\ change' = change + 1
  /\ \/ mpc' = "exited" /\ UNCHANGED second
     \/ mpc' = "lock" /\ second' \in BOOLEAN
  /\ UNCHANGED <<time_to_quit, cXorFlag, cSeed, bpc, mutex, bTalkKey, net, socketVars,
                 readerVars, answer>>

\* Mutant of LockPool: PoolFlagChange does not take mutex1.
LockPoolMutant ==
  /\ mpc = "lock"
  /\ mpc' = "flag" /\ UNCHANGED mutex
  /\ UNCHANGED <<time_to_quit, change, second, cXorFlag, cSeed, bpc, bTalkKey, net,
                 socketVars, readerVars, answer>>

LockPool ==
  /\ mpc = "lock" /\ mutex = "none"
  /\ mutex' = "main" /\ mpc' = "flag"
  /\ UNCHANGED <<time_to_quit, change, second, cXorFlag, cSeed, bpc, bTalkKey, net,
                 socketVars, readerVars, answer>>

\* The flag is copied before the second strtok; without a seed the process ends.
CopyFlag ==
  /\ mpc = "flag"
  /\ cXorFlag' = [flag |-> change, key |-> 0]
  /\ mpc' = IF second THEN "seed" ELSE "exited"
  /\ UNCHANGED <<time_to_quit, change, second, cSeed, bpc, mutex, bTalkKey, net,
                 socketVars, readerVars, answer>>

CopySeed ==
  /\ mpc = "seed"
  /\ cSeed' = change
  /\ mpc' = "encrypt"
  /\ UNCHANGED <<time_to_quit, change, second, cXorFlag, bpc, mutex, bTalkKey, net,
                 socketVars, readerVars, answer>>

\* _srand and the key from the seed, the flag encrypted in place, the mutex
\* released.  After the first time main starts the threads.
EncryptFlag ==
  /\ mpc = "encrypt"
  /\ cXorFlag' = [cXorFlag EXCEPT !.key = cSeed]
  /\ mutex' = "none" /\ mpc' = "wait"
  /\ bpc' = IF bpc = "new" THEN "lock" ELSE bpc
  /\ spc' = IF spc = "new" THEN "bind" ELSE spc
  /\ UNCHANGED <<time_to_quit, change, second, cSeed, bTalkKey, net, backlog, conn,
                 timed, strangers, readerVars, answer>>

PoolFlagChange == ReadFlagFile \/ LockPool \/ CopyFlag \/ CopySeed \/ EncryptFlag

\* main's loop: more than 120 s have passed, or the signal was seen.
PoolAgain ==
  /\ mpc = "wait" /\ ~time_to_quit /\ change < MaxChanges
  /\ mpc' = "fopen"
  /\ UNCHANGED <<time_to_quit, change, second, cXorFlag, cSeed, bpc, mutex, bTalkKey, net,
                 socketVars, readerVars, answer>>

Leave ==
  /\ mpc = "wait" /\ time_to_quit
  /\ mpc' = "exited"
  /\ UNCHANGED <<time_to_quit, change, second, cXorFlag, cSeed, bpc, mutex, bTalkKey, net,
                 socketVars, readerVars, answer>>

\* signal_handler on SIGINT or SIGTERM.
Signal ==
  /\ Alive /\ ~time_to_quit
  /\ time_to_quit' = TRUE
  /\ UNCHANGED <<mpc, change, second, cXorFlag, cSeed, bpc, mutex, bTalkKey, net,
                 socketVars, readerVars, answer>>

(***************************************************************************)
(* BroadcastTraffic                                                        *)
(***************************************************************************)
LockBroadcast ==
  /\ Alive /\ bpc = "lock" /\ ~time_to_quit
  /\ mutex = "none"
  /\ mutex' = "broadcast" /\ bpc' = "send"
  /\ UNCHANGED <<mainVars, bTalkKey, net, socketVars, readerVars, answer>>

\* The datagram may be lost.
SendBroadcast ==
  /\ Alive /\ bpc = "send"
  /\ bpc' = "unlock"
  /\ \/ Len(net) < MaxNet /\ net' = Append(net, cXorFlag)
     \/ UNCHANGED net
  /\ UNCHANGED <<mainVars, mutex, bTalkKey, socketVars, readerVars, answer>>

UnlockBroadcast ==
  /\ Alive /\ bpc = "unlock"
  /\ mutex' = "none" /\ bpc' = "lock"
  /\ UNCHANGED <<mainVars, bTalkKey, net, socketVars, readerVars, answer>>

CloseBroadcast ==
  /\ Alive /\ bpc = "lock" /\ time_to_quit
  /\ bpc' = "closed"
  /\ UNCHANGED <<mainVars, mutex, bTalkKey, net, socketVars, readerVars, answer>>

BroadcastTraffic == LockBroadcast \/ SendBroadcast \/ UnlockBroadcast \/ CloseBroadcast

(***************************************************************************)
(* ProcessIncomingTraffic and ProcessPacket                                *)
(***************************************************************************)
\* socket(), bind() and listen().  A port in use ends the process, wherever the other
\* threads are.
Bind ==
  /\ Alive /\ spc = "bind"
  /\ \/ spc' = "accept" /\ UNCHANGED mpc
     \/ mpc' = "exited" /\ UNCHANGED spc
  /\ UNCHANGED <<time_to_quit, change, second, cXorFlag, cSeed, bpc, mutex, bTalkKey, net,
                 backlog, conn, timed, strangers, readerVars, answer>>

\* The time limit of read() has its seconds set and its microseconds left as they were on the
\* stack; setsockopt() refuses what is no number of microseconds, and nobody looks.
Accept ==
  /\ Alive /\ spc = "accept" /\ backlog # <<>>
  /\ conn' = Head(backlog) /\ backlog' = Tail(backlog)
  /\ timed' \in BOOLEAN
  /\ spc' = "read"
  /\ UNCHANGED <<mainVars, bpc, mutex, bTalkKey, net, strangers, readerVars, answer>>

\* The connection is closed; only the reader's is followed further.
Reply(a) == answer' = IF conn.from = "reader" THEN a ELSE answer

\* ProcessPacket's tests.  Both ranges are one longer than the reader's.
WellFormed(data) ==
  /\ Len(data) = 3 /\ data[1] = bTalkKey
  /\ data[2] \in 0 .. Bytes /\ data[3] \in 0 .. Bits

\* Mutant of ReadPacket: no SO_RCVTIMEO, so read() waits for a silent client.
ReadPacketMutant ==
  /\ Alive /\ spc = "read" /\ conn.data # <<>>
  /\ \/ WellFormed(conn.data) /\ spc' = "lock" /\ UNCHANGED answer
     \/ ~WellFormed(conn.data) /\ spc' = "accept" /\ Reply(Without("closed"))
     \/ spc' = "accept" /\ Reply(Without("reset"))
  /\ UNCHANGED <<mainVars, bpc, mutex, bTalkKey, net, backlog, conn, timed, strangers, readerVars>>

\* One read().  What is not a good request is closed without an answer, and so is one that
\* came too late or of which a part has come: the rest then meets a closed connection.
ReadPacket ==
  /\ Alive /\ spc = "read"
  /\ \/ WellFormed(conn.data) /\ spc' = "lock" /\ UNCHANGED answer
     \/ conn.data # <<>> /\ ~WellFormed(conn.data) /\ spc' = "accept" /\ Reply(Without("closed"))
     \/ (conn.data = <<>> => timed) /\ spc' = "accept" /\ Reply(Without("reset"))
  /\ UNCHANGED <<mainVars, bpc, mutex, bTalkKey, net, backlog, conn, timed, strangers, readerVars>>

\* A client that has sent nothing ends its connection; read() returns 0.
StrangerLeaves ==
  /\ Alive /\ spc = "read" /\ conn.data = <<>>
  /\ spc' = "accept"
  /\ UNCHANGED <<mainVars, bpc, mutex, bTalkKey, net, backlog, conn, timed, strangers, readerVars,
                 answer>>

LockSeed ==
  /\ Alive /\ spc = "lock" /\ mutex = "none"
  /\ mutex' = "incoming" /\ spc' = "char"
  /\ UNCHANGED <<mainVars, bpc, bTalkKey, net, backlog, conn, timed, strangers, readerVars,
                 answer>>

\* The character is read under the mutex; the answer is written after it.
SendBit ==
  /\ Alive /\ spc = "char"
  /\ mutex' = "none" /\ spc' = "accept"
  /\ Reply([kind |-> "bit", change |-> cSeed])
  /\ UNCHANGED <<mainVars, bpc, bTalkKey, net, backlog, conn, timed, strangers, readerVars>>

ProcessIncomingTraffic == Bind \/ Accept \/ ReadPacket \/ LockSeed \/ SendBit

Stranger ==
  /\ Listening /\ strangers < MaxStrangers
  /\ \E data \in StrangerPackets :
       backlog' = Append(backlog, [from |-> "stranger", data |-> data])
  /\ strangers' = strangers + 1
  /\ UNCHANGED <<mainVars, bpc, mutex, bTalkKey, net, spc, conn, timed, readerVars, answer>>

(***************************************************************************)
(* solution.py                                                             *)
(***************************************************************************)
\* Mutant of Sniff: full_key is not emptied for the next packet.
SniffMutant ==
  /\ rpc = "sniff" /\ net # <<>>
  /\ packet' = Head(net) /\ net' = Tail(net)
  /\ rpc' = "brute" /\ x' = 0 /\ pos' = 0 /\ cur_bits' = FALSE
  /\ UNCHANGED <<mainVars, bpc, mutex, bTalkKey, socketVars, answer, got>>

\* WaitForVictim: the oldest packet the sniffer has.
Sniff ==
  /\ rpc = "sniff" /\ net # <<>>
  /\ packet' = Head(net) /\ net' = Tail(net)
  /\ rpc' = "brute" /\ x' = 0 /\ pos' = 0 /\ cur_bits' = FALSE /\ got' = <<>>
  /\ UNCHANGED <<mainVars, bpc, mutex, bTalkKey, socketVars, answer>>

\* A connection with the next request; connect() raises when nobody listens.
Ask ==
  /\ rpc \in {"brute", "bits"} /\ answer.kind = "none"
  /\ IF Listening
     THEN /\ backlog' = Append(backlog, [from |-> "reader",
                                         data |-> <<x, pos \div Bits, pos % Bits>>])
          /\ answer' = Without("asked")
          /\ UNCHANGED rpc
     ELSE rpc' = "stopped" /\ UNCHANGED <<backlog, answer>>
  /\ UNCHANGED <<mainVars, bpc, mutex, bTalkKey, net, spc, conn, timed, strangers, x, pos, cur_bits,
                 packet, got>>

\* The daemon has ended, or has closed a connection that it has not read to the end: recv()
\* returns nothing or raises.
Reset ==
  /\ \/ answer.kind = "asked" /\ ~Alive
     \/ answer.kind = "reset"
  /\ \/ answer' = Without("closed") /\ UNCHANGED rpc
     \/ answer' = NoAnswer /\ rpc' = "stopped"
  /\ UNCHANGED <<mainVars, bpc, mutex, bTalkKey, net, socketVars, x, pos, cur_bits, packet, got>>

\* BruteTalkKey: an answer of four bytes means the talk key is right.  Were no key
\* right, it would return None, which the next struct.pack does not take.
TakeKey ==
  /\ rpc = "brute" /\ answer.kind \in {"closed", "bit"}
  /\ answer' = NoAnswer
  /\ IF answer.kind = "bit" THEN rpc' = "bits" /\ UNCHANGED x
     ELSE IF x < TalkKeys THEN x' = x + 1 /\ UNCHANGED rpc
     ELSE rpc' = "stopped" /\ UNCHANGED x
  /\ UNCHANGED <<mainVars, bpc, mutex, bTalkKey, net, socketVars, pos, cur_bits, packet, got>>

\* One bit; a connection that was closed leaves it out.  A byte without any is no number,
\* and int() raises.
TakeBit ==
  LET bit  == answer.kind = "bit"
      last == (pos + 1) % Bits = 0
  IN
  /\ rpc = "bits" /\ answer.kind \in {"closed", "bit"}
  /\ answer' = NoAnswer
  /\ got' = IF bit THEN Append(got, answer.change) ELSE got
  /\ cur_bits' = (~last /\ (cur_bits \/ bit))
  /\ pos' = IF pos + 1 < Bytes * Bits THEN pos + 1 ELSE 0
  /\ rpc' = IF last /\ ~cur_bits /\ ~bit THEN "stopped"
            ELSE IF pos + 1 < Bytes * Bits THEN "bits" ELSE "decoded"
  /\ UNCHANGED <<mainVars, bpc, mutex, bTalkKey, net, socketVars, x, packet>>

\* solution_pt2 is given the seed and the packet; then the loop goes on.
Decode ==
  /\ rpc = "decoded"
  /\ rpc' = "sniff"
  /\ UNCHANGED <<mainVars, bpc, mutex, bTalkKey, net, socketVars, x, pos, cur_bits, packet, got,
                 answer>>

Solution == Sniff \/ Ask \/ Reset \/ TakeKey \/ TakeBit \/ Decode

-----------------------------------------------------------------------------
Next ==
  \/ PoolFlagChange \/ PoolAgain \/ Leave \/ Signal
  \/ BroadcastTraffic
  \/ ProcessIncomingTraffic
  \/ Stranger \/ StrangerLeaves
  \/ Solution

Spec == Init /\ [][Next]_vars

\* What Bytes * Bits bits from the seeds of some changes give: the seed that
\* encrypted the packet, if every bit is there and from it.
Right == packet.key = packet.flag /\ Len(got) = Bytes * Bits
         /\ \A i \in DOMAIN got : got[i] = packet.key

\* Every broadcast is one flag encrypted with the key of the seed that came with
\* it, whatever fails in PoolFlagChange: sendto never sees a flag in the clear, nor
\* one encrypted with the seed before it.
BroadcastWhole ==
  \A p \in ToSet(net) : p.key = p.flag /\ p.key > 0

\* What solution.py decodes.  The bits come from seeds no older than the packet
\* and never go back to an older one, so with no change of the pool between the
\* packet and the last bit a seed of full length is right, and otherwise it is the
\* beginning of older seeds and the end of newer ones.  Bits may be missing: of
\* requests that came late or in parts, and of those after the daemon's end.
TornOnlyByChange ==
  rpc = "decoded" =>
    /\ \A i, j \in DOMAIN got : i < j => packet.key <= got[i] /\ got[i] <= got[j]
    /\ Len(got) = Bytes * Bits /\ got[Len(got)] = packet.key => Right

\* A request that was sent is answered or closed, however many clients connect and
\* stay silent, unless one of them is read without a time limit and never leaves.
Answered ==
  answer.kind = "asked"
    ~> \/ answer.kind # "asked"
       \/ spc = "read" /\ conn.data = <<>> /\ ~timed
=============================================================================
