------------------------------ MODULE KeyServer ------------------------------
(***************************************************************************)
(* The server of WhatJustHappened (Server.py) and those who read from it   *)
(* (Client.cpp, getKey.py).  Three threads share a key and a message that  *)
(* is encrypted with it, under threadLock: one replaces both every five    *)
(* minutes, one sends the message on a TCP port, one answers getKey and    *)
(* getMessage by XML-RPC.  Each of the two servers serves one client at a  *)
(* time.  A client takes the message and the key in two calls.             *)
(*                                                                         *)
(* Data: a key is the sequence of its digits.  The message is known by the *)
(* key that encrypts it, <<>> while it is empty.  Letters and the dash of  *)
(* a mangled key are the numbers from 10 on.  logLock is only ever taken   *)
(* by a thread that has threadLock, so it never makes anybody wait.        *)
(***************************************************************************)
EXTENDS Lists

CONSTANTS
  Clients,
  PrefixList,      \* PrefixList16 of generateKey
  Fills,         \* random digits: sequences of at least 15 digits
  Cuts,          \* random places of the four letters, within the groups
  MaxRotations,  \* bound: new keys
  MaxResets      \* bound: clients that reset their connection

Digit == 0 .. 9
KEY_LENGTH == 16
Group == <<4, 5, 2, 5>>

ASSUME KeyServerAssumption ==
  /\ \A p \in PrefixList : p \in Seq(Digit) /\ Len(p) < KEY_LENGTH
  /\ \A f \in Fills : f \in Seq(Digit) /\ Len(f) >= KEY_LENGTH - 1
  /\ \A r \in Cuts : r \in [1 .. 4 -> 0 .. 5] /\ \A g \in 1 .. 4 : r[g] <= Group[g]
  /\ MaxRotations \in Nat /\ MaxResets \in Nat

VARIABLES
  lock,      \* who has threadLock: "free", "rotate", "tcp"
  key, encMsg,
  rotator,   \* keyRotateThread: "idle", "locked", "keyed", "cleared"
  tcp,       \* the connection that the TCP server works on: [client, step]
  client,    \* "new", "message" (connected), "key" (has the message), "gone" (reset), "done", "over"
  cEncBuff,  \* the message a client got
  outcome,   \* what came of it: "none", "badkey", "decrypted", "garbled"
  resets,
  era,       \* history: rotations so far
  msgEra, keyEra  \* history: the rotation a client's message and key are from

vars == <<lock, key, encMsg, rotator, tcp, client, cEncBuff, outcome, resets,
          era, msgEra, keyEra>>
shared == <<key, encMsg, rotator, era>>
clients == <<client, cEncBuff, outcome, msgEra, keyEra>>

-----------------------------------------------------------------------------
(* completed_number and the Luhn tests of the clients.                     *)

\* Digits are counted from the right; twice a digit, its own digits summed up.
FromRight(s, i) == Len(s) - i
Twice(d) == IF d * 2 > 9 THEN d * 2 - 9 ELSE d * 2

\* Mutant of CheckDigit: the rest of the division itself.
CheckDigitRest(sum) == sum % 10
CheckDigit(sum) == ((sum \div 10 + 1) * 10 - sum) % 10

\* Mutant of CompletedNumber: one random digit too many.
CompletedLong(prefix, fill) ==
  LET payload == prefix \o fill
  IN Append(SubSeq(payload, 1, KEY_LENGTH), CheckDigit(0))

CompletedNumber(prefix, fill) ==
  LET payload == SubSeq(prefix \o fill, 1, KEY_LENGTH - 1)
      weight == [i \in DOMAIN payload |->
                   IF FromRight(payload, i) % 2 = 0 THEN Twice(payload[i]) ELSE payload[i]]
  IN Append(payload, CheckDigit(Total(weight, Len(payload))))

\* is_luhn_valid, verifyLuhn
LuhnValid(s) ==
  LET DigitSum(n) == (n \div 10) + (n % 10)
      weight == [i \in DOMAIN s |->
                   IF FromRight(s, i) % 2 = 1 THEN DigitSum(2 * s[i]) ELSE s[i]]
  IN Total(weight, Len(s)) % 10 = 0

\* A slice of Python, of a key that may be empty.
Slice(s, from, to) == IF s = <<>> THEN <<>> ELSE SubSeq(s, from, to)

Dash == 13
Letter == <<10, 11, 10, 12>>

\* mangleKey: a letter at a random place of each of four groups.
MangleKey(k, r) ==
  LET Before(g) == <<0, 4, 9, 11>>[g]
      Mangled(g) == Slice(k, Before(g) + 1, Before(g) + r[g]) \o <<Letter[g]>>
                    \o Slice(k, Before(g) + r[g] + 1, Before(g) + Group[g])
  IN Mangled(1) \o <<Dash>> \o Mangled(2) \o <<Dash>> \o Mangled(3) \o <<Dash>> \o Mangled(4)

\* makeCleanKey
CleanKey(m) == Keep(m, Digit)

-----------------------------------------------------------------------------
Idle == [client |-> "none", step |-> "idle"]

Init ==
  /\ lock = "free" /\ key = <<>> /\ encMsg = <<>> /\ rotator = "idle"
  /\ tcp = Idle
  /\ client = [c \in Clients |-> "new"] /\ cEncBuff = [c \in Clients |-> <<>>]
  /\ outcome = [c \in Clients |-> "none"] /\ resets = 0
  /\ era = 0 /\ msgEra = [c \in Clients |-> 0] /\ keyEra = [c \in Clients |-> 0]

(* keyRotateThread                                                         *)

\* rotateTime is over, or it is the first round: lastTime is set, the lock taken.
RotateAcquire ==
  /\ rotator = "idle" /\ era < MaxRotations /\ lock = "free"
  /\ lock' = "rotate" /\ rotator' = "locked"
  /\ UNCHANGED <<key, encMsg, tcp, clients, resets, era>>

\* generateKey; blacklistKey, which does nothing.
GenerateKey ==
  /\ rotator = "locked"
  /\ \E p \in PrefixList, f \in Fills : key' = CompletedNumber(p, f)
  /\ rotator' = "keyed"
  /\ UNCHANGED <<lock, encMsg, tcp, clients, resets, era>>

\* encryptMessage starts from an empty message and appends to it.
ClearMessage ==
  /\ rotator = "keyed"
  /\ encMsg' = <<>> /\ rotator' = "cleared"
  /\ UNCHANGED <<lock, key, tcp, clients, resets, era>>

\* Mutant of EncryptMessage: the lock is not released.
EncryptNoRelease ==
  /\ rotator = "cleared"
  /\ encMsg' = key /\ rotator' = "idle" /\ era' = era + 1
  /\ UNCHANGED <<lock, key, tcp, clients, resets>>

\* Its last round, and the release of the lock.
EncryptMessage ==
  /\ rotator = "cleared"
  /\ encMsg' = key /\ rotator' = "idle" /\ lock' = "free" /\ era' = era + 1
  /\ UNCHANGED <<key, tcp, clients, resets>>

Rotate == RotateAcquire \/ GenerateKey \/ ClearMessage \/ EncryptMessage

-----------------------------------------------------------------------------
(* The TCP server: MyTCPHandler.handle.                                    *)

Connect(c) ==
  /\ client[c] = "new"
  /\ client' = [client EXCEPT ![c] = "message"]
  /\ UNCHANGED <<lock, shared, tcp, cEncBuff, outcome, msgEra, keyEra, resets>>

\* The peer resets its connection instead of reading the message.
Reset(c) ==
  /\ client[c] = "message" /\ resets < MaxResets
  /\ client' = [client EXCEPT ![c] = "gone"] /\ resets' = resets + 1
  /\ UNCHANGED <<lock, shared, tcp, cEncBuff, outcome, msgEra, keyEra>>

\* serve_forever: the next connection, one that was reset meanwhile included.
TcpServe(c) ==
  /\ tcp = Idle /\ client[c] \in {"message", "gone"}
  /\ tcp' = [client |-> c, step |-> "acquire"]
  /\ UNCHANGED <<lock, shared, clients, resets>>

\* Mutant of TcpAcquire: the handler releases threadLock but never takes it.
TcpUnlocked ==
  /\ tcp.step = "acquire"
  /\ tcp' = [tcp EXCEPT !.step = "send"]
  /\ UNCHANGED <<lock, shared, clients, resets>>

TcpAcquire ==
  /\ tcp.step = "acquire" /\ lock = "free"
  /\ lock' = "tcp" /\ tcp' = [tcp EXCEPT !.step = "send"]
  /\ UNCHANGED <<shared, clients, resets>>

\* send() works and the lock is released.
TcpSend ==
  LET c == tcp.client
  IN /\ tcp.step = "send"
     /\ lock' = "free" /\ tcp' = Idle
     /\ client' = [client EXCEPT ![c] = IF @ = "gone" THEN "over" ELSE "key"]
     /\ cEncBuff' = [cEncBuff EXCEPT ![c] = encMsg] /\ msgEra' = [msgEra EXCEPT ![c] = era]
     /\ UNCHANGED <<shared, outcome, keyEra, resets>>

\* send() raises on a connection that was reset.  The server catches that and
\* goes on with the next connection; the lock stays taken.
TcpSendRaises ==
  /\ tcp.step = "send" /\ client[tcp.client] = "gone"
  /\ tcp' = Idle
  /\ client' = [client EXCEPT ![tcp.client] = "over"]
  /\ UNCHANGED <<lock, shared, cEncBuff, outcome, msgEra, keyEra, resets>>

Tcp == (\E c \in Clients : TcpServe(c)) \/ TcpAcquire \/ TcpSend \/ TcpSendRaises

-----------------------------------------------------------------------------
(* The XML-RPC server.  Its calls hold the lock for a read only.           *)

\* getMessage, instead of the TCP port.
GetMessage(c) ==
  /\ client[c] = "new" /\ lock = "free"
  /\ client' = [client EXCEPT ![c] = "key"]
  /\ cEncBuff' = [cEncBuff EXCEPT ![c] = encMsg] /\ msgEra' = [msgEra EXCEPT ![c] = era]
  /\ UNCHANGED <<lock, shared, tcp, outcome, keyEra, resets>>

\* What a client makes of a mangled key: its length, the Luhn test, decryption.
Outcome(c, m) ==
  IF Len(m) # 23 \/ ~LuhnValid(CleanKey(m)) THEN "badkey"
  ELSE IF CleanKey(m) = cEncBuff[c] THEN "decrypted" ELSE "garbled"

\* getKey, and the rest of the client.
GetKey(c) ==
  /\ client[c] = "key" /\ lock = "free"
  /\ client' = [client EXCEPT ![c] = "done"] /\ keyEra' = [keyEra EXCEPT ![c] = era]
  /\ \E m \in {MangleKey(key, r) : r \in Cuts} : outcome' = [outcome EXCEPT ![c] = Outcome(c, m)]
  /\ UNCHANGED <<lock, shared, tcp, cEncBuff, msgEra, resets>>

Next ==
  \/ Rotate \/ Tcp
  \/ \E c \in Clients : Connect(c) \/ Reset(c) \/ GetMessage(c) \/ GetKey(c)

Spec == Init /\ [][Next]_vars

\* The threads run, and a client that has its message asks for the key.  A thread
\* that waits for the lock gets it: in the code the lock is free for minutes.
FairSpec ==
  Spec /\ WF_vars(Rotate) /\ WF_vars(Tcp) /\ \A c \in Clients : WF_vars(GetKey(c))

-----------------------------------------------------------------------------
\* The values of the globals of Server.py and of the clients' buffers.
TypeOK ==
  /\ lock \in {"free", "rotate", "tcp"}
  /\ \A s \in {key, encMsg} \cup {cEncBuff[c] : c \in Clients} :
       s = <<>> \/ (Len(s) = KEY_LENGTH /\ \A i \in 1 .. KEY_LENGTH : s[i] \in Digit)
  /\ rotator \in {"idle", "locked", "keyed", "cleared"}
  /\ tcp \in {Idle} \cup [client : Clients, step : {"acquire", "send"}]
  /\ era \in 0 .. MaxRotations

\* Whenever threadLock is free, encMsg is encrypted with key, although they are
\* replaced in several steps.
PairIntact == lock = "free" => encMsg = key

\* A client that is told a wrong message has met a new key between its two calls,
\* and one that refuses the key has asked before there was one: neither threads
\* nor mangling nor the check digit can spoil a fetch.
FetchSound ==
  \A c \in Clients : client[c] = "done" =>
    /\ outcome[c] = "garbled" => msgEra[c] # keyEra[c]
    /\ outcome[c] = "badkey" => keyEra[c] = 0

\* send() raised: nobody will release threadLock.
Stuck == lock = "tcp" /\ tcp.step # "send"

\* Every client that has connected gets its answers, unless another one has reset
\* its connection at the moment that leaves the server stuck.
Answered ==
  \A c \in Clients : client[c] \in {"message", "key"} ~> client[c] \in {"gone", "over", "done"} \/ Stuck
=============================================================================
