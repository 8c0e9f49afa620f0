-------------------------- MODULE KeyServerProofs --------------------------
(* What threadLock protects in Server.py, and what a client of it gets, for *)
(* any number of clients, keys, cuts and rotations.                        *)
EXTENDS KeyServer, ListProofs, TLAPS

\* Who is inside the lock: the rotation from its acquire to its last round, the
\* handler from its acquire to its send, or a handler whose send raised.
LockInv ==
  /\ lock \in {"free", "rotate", "tcp"}
  /\ rotator \in {"idle", "locked", "keyed", "cleared"}
  /\ lock = "rotate" <=> rotator # "idle"
  /\ tcp.step = "send" => lock = "tcp"
  /\ rotator \in {"idle", "locked"} => encMsg = key

LEMMA LockInit == Init => LockInv
BY DEF Init, LockInv, Idle

\* Every step of every thread keeps to the lock.
LEMMA LockStep == ASSUME LockInv, [Next]_vars PROVE LockInv'
<1> USE DEF LockInv, Idle, shared, clients
<1>1. CASE RotateAcquire
  BY <1>1 DEF RotateAcquire
<1>2. CASE GenerateKey
  BY <1>2 DEF GenerateKey
<1>3. CASE ClearMessage
  BY <1>3 DEF ClearMessage
<1>4. CASE EncryptMessage
  BY <1>4 DEF EncryptMessage
<1>5. ASSUME NEW c \in Clients, TcpServe(c) PROVE LockInv'
  BY <1>5 DEF TcpServe
<1>6. CASE TcpAcquire
  BY <1>6 DEF TcpAcquire
<1>7. CASE TcpSend
  BY <1>7 DEF TcpSend
<1>8. CASE TcpSendRaises
  BY <1>8 DEF TcpSendRaises
<1>9. ASSUME NEW c \in Clients, Connect(c) \/ Reset(c) PROVE LockInv'
  BY <1>9 DEF Connect, Reset
<1>10. ASSUME NEW c \in Clients, GetMessage(c) \/ GetKey(c) PROVE LockInv'
  BY <1>10 DEF GetMessage, GetKey
<1>11. CASE UNCHANGED vars
  BY <1>11 DEF vars
<1> QED
  BY <1>1, <1>2, <1>3, <1>4, <1>5, <1>6, <1>7, <1>8, <1>9, <1>10, <1>11
  DEF Next, Rotate, Tcp

\* Outside threadLock the message is always encrypted with the key that getKey
\* gives out, also after a handler has died with the lock.
THEOREM PairStaysIntact == Spec => []PairIntact
<1>1. LockInv => PairIntact
  BY DEF LockInv, PairIntact
<1> QED BY <1>1, LockInit, LockStep, PTL DEF Spec

-----------------------------------------------------------------------------
(* Keys: what completed_number makes, mangleKey spoils and makeCleanKey    *)
(* restores.                                                               *)

Keys == {k \in Seq(Digit) : Len(k) = KEY_LENGTH}

\* The check digit makes the sum a multiple of ten.
LEMMA CheckDigitRight ==
  ASSUME NEW n \in Nat
  PROVE  CheckDigit(n) \in Digit /\ (n + CheckDigit(n)) % 10 = 0
BY DEF CheckDigit, Digit

\* Both ways to count twice a digit.
LEMMA TwiceRight ==
  ASSUME NEW d \in Digit
  PROVE  Twice(d) \in Nat /\ Twice(d) = ((2 * d) \div 10) + ((2 * d) % 10)
BY DEF Twice, Digit

\* 15 digits with their check digit are a key that passes verifyLuhn.
LEMMA LuhnCompleted ==
  ASSUME NEW q \in Seq(Digit), Len(q) = 15
  PROVE  LET w == [i \in DOMAIN q |-> IF FromRight(q, i) % 2 = 0 THEN Twice(q[i]) ELSE q[i]]
             s == Append(q, CheckDigit(Total(w, Len(q))))
         IN  s \in Keys /\ LuhnValid(s)
<1> DEFINE w == [i \in DOMAIN q |-> IF FromRight(q, i) % 2 = 0 THEN Twice(q[i]) ELSE q[i]]
           sum == Total(w, Len(q))
           s == Append(q, CheckDigit(sum))
           v == [i \in DOMAIN s |->
                   IF FromRight(s, i) % 2 = 1 THEN ((2 * s[i]) \div 10) + ((2 * s[i]) % 10)
                                              ELSE s[i]]
<1>3. LuhnValid(s) <=> Total(v, Len(s)) % 10 = 0
  BY DEF LuhnValid
<1>4. \A i \in 1 .. 15 : q[i] \in Digit /\ i \in DOMAIN q
  BY LenProperties
<1>5. \A i \in 1 .. 15 : w[i] \in Nat
  <2>1. ASSUME NEW d \in Digit PROVE d \in Nat /\ Twice(d) \in Nat
    BY TwiceRight DEF Digit
  <2> QED BY <1>4, <2>1
<1>6. sum \in Nat
  <2> HIDE DEF w
  <2> QED BY <1>5, TotalType
<1>7. CheckDigit(sum) \in Digit /\ (sum + CheckDigit(sum)) % 10 = 0
  BY <1>6, CheckDigitRight
<1>8. s \in Seq(Digit) /\ Len(s) = 16 /\ s[16] = CheckDigit(sum) /\ DOMAIN s = 1 .. 16
      /\ \A i \in 1 .. 15 : s[i] = q[i]
  <2> HIDE DEF sum
  <2>1. /\ s \in Seq(Digit) /\ Len(s) = 15 + 1 /\ DOMAIN s = 1 .. 15 + 1
        /\ s[15 + 1] = CheckDigit(sum) /\ \A i \in 1 .. 15 : s[i] = q[i]
    <3> DEFINE d == CheckDigit(sum)
    <3>1. d \in Digit
      BY <1>7
    <3> HIDE DEF d
    <3>2. AppendsTo(Digit, q, d, 15)
      BY <3>1, AppendTo
    <3> QED BY <3>2 DEF d, AppendsTo
  <2> HIDE DEF s
  <2> QED BY <2>1
<1> HIDE DEF sum
<1>9. \A i \in 1 .. 15 : v[i] = w[i]
  <2> SUFFICES ASSUME NEW i \in 1 .. 15 PROVE v[i] = w[i]
    OBVIOUS
  <2> HIDE DEF s
  <2>1. FromRight(q, i) = 15 - i /\ FromRight(s, i) = 16 - i
    BY <1>8 DEF FromRight
  <2>2. (15 - i) % 2 = 0 <=> (16 - i) % 2 = 1
    OBVIOUS
  <2>3. i \in DOMAIN q /\ i \in DOMAIN s
    BY <1>8
  <2>4. Twice(q[i]) = ((2 * q[i]) \div 10) + ((2 * q[i]) % 10)
    BY <1>4, TwiceRight
  <2>5. v[i] = IF FromRight(s, i) % 2 = 1 THEN ((2 * q[i]) \div 10) + ((2 * q[i]) % 10) ELSE q[i]
    BY <1>8, <2>3
  <2>6. w[i] = IF FromRight(q, i) % 2 = 0 THEN Twice(q[i]) ELSE q[i]
    BY <2>3
  <2> QED BY <2>1, <2>2, <2>4, <2>5, <2>6
<1>10. v[16] = CheckDigit(sum)
  <2> HIDE DEF s
  <2>1. FromRight(s, 16) = 0 /\ 16 \in DOMAIN s
    BY <1>8 DEF FromRight
  <2> QED BY <1>8, <2>1
<1>11. Total(v, 16) = sum + CheckDigit(sum)
  <2> HIDE DEF v, w, s
  <2>1. Total(v, 15 + 1) = Total(w, 15) + v[15 + 1]
    BY <1>9, TotalNext
  <2> QED BY <1>10, <2>1 DEF sum
<1>12. s \in Keys /\ LuhnValid(s)
  <2> HIDE DEF s, v
  <2> QED BY <1>3, <1>7, <1>8, <1>11 DEF Keys, KEY_LENGTH
<1> QED BY <1>12 DEF sum

\* The 15 digits before the check digit.
PayloadOf(s, t) == SubSeq(s \o t, 1, 15) \in Seq(Digit) /\ Len(SubSeq(s \o t, 1, 15)) = 15

LEMMA PayloadRight ==
  ASSUME NEW s \in Seq(Digit), NEW t \in Seq(Digit), Len(t) >= 15
  PROVE  PayloadOf(s, t)
<1>1. s \o t \in Seq(Digit) /\ Len(s \o t) = Len(s) + Len(t) /\ Len(s) \in Nat /\ Len(t) \in Nat
  BY ConcatProperties, LenProperties
<1> DEFINE z == s \o t
<1>2. z \in Seq(Digit) /\ Len(z) >= 15
  BY <1>1
<1> HIDE DEF z
<1>3. \A i \in 1 .. 15 : z[i] \in Digit
  BY <1>2, ElementOfSeq
<1>4. SubSeq(z, 1, 15) \in Seq(Digit) /\ Len(SubSeq(z, 1, 15)) = 15
  BY <1>3, SubSeqProperties
<1> QED BY <1>4 DEF z, PayloadOf

\* Every key of generateKey has 16 digits and passes verifyLuhn.
LEMMA CompletedNumberRight ==
  ASSUME NEW p \in PrefixList, NEW f \in Fills
  PROVE  CompletedNumber(p, f) \in Keys /\ LuhnValid(CompletedNumber(p, f))
<1>1. p \in Seq(Digit) /\ f \in Seq(Digit) /\ Len(f) >= 15
  BY KeyServerAssumption DEF KEY_LENGTH
<1> DEFINE q == SubSeq(p \o f, 1, KEY_LENGTH - 1)
<1>2. q \in Seq(Digit) /\ Len(q) = 15
  <2>1. PayloadOf(p, f)
    BY <1>1, PayloadRight
  <2>2. KEY_LENGTH - 1 = 15
    BY DEF KEY_LENGTH
  <2>3. q = SubSeq(p \o f, 1, 15)
    BY <2>2
  <2> HIDE DEF q
  <2> QED BY <2>1, <2>3 DEF PayloadOf
<1> HIDE DEF q
<1>3. LET w == [i \in DOMAIN q |-> IF FromRight(q, i) % 2 = 0 THEN Twice(q[i]) ELSE q[i]]
          s == Append(q, CheckDigit(Total(w, Len(q))))
      IN  s \in Keys /\ LuhnValid(s)
  BY <1>2, LuhnCompleted
<1> QED BY <1>3 DEF CompletedNumber, q

-----------------------------------------------------------------------------
\* What the provers are to know of lists of numbers.
LEMMA NumberLists ==
  /\ \A s, t \in Seq(Nat) : s \o t \in Seq(Nat) /\ Len(s \o t) = Len(s) + Len(t)
  /\ \A s, t \in Seq(Nat) : Keep(s \o t, Digit) = Keep(s, Digit) \o Keep(t, Digit)
  /\ \A n \in Nat : <<n>> \in Seq(Nat) /\ Len(<<n>>) = 1
  /\ \A n \in Nat : n > 9 => Keep(<<n>>, Digit) = <<>>
<1>1. \A s, t \in Seq(Nat) : s \o t \in Seq(Nat) /\ Len(s \o t) = Len(s) + Len(t)
  OBVIOUS
<1>2. \A s, t \in Seq(Nat) : Keep(s \o t, Digit) = Keep(s, Digit) \o Keep(t, Digit)
  <2>1. KeepsBoth(Nat, Digit)
    BY KeepConcat
  <2> QED BY <2>1 DEF KeepsBoth
<1>3. \A n \in Nat : <<n>> \in Seq(Nat) /\ Len(<<n>>) = 1
  OBVIOUS
<1>4. ASSUME NEW n \in Nat, n > 9 PROVE Keep(<<n>>, Digit) = <<>>
  <2>1. n \notin Digit
    BY <1>4 DEF Digit
  <2> QED BY <2>1, KeepOne
<1> QED BY <1>1, <1>2, <1>3, <1>4

\* A letter behind the first r of a group of n digits, which starts behind b of them.
MangledGroup(k, b, n, r, l) ==
  LET m == SubSeq(k, b + 1, b + r) \o <<l>> \o SubSeq(k, b + r + 1, b + n)
  IN  m \in Seq(Nat) /\ Len(m) = n + 1 /\ Keep(m, Digit) = SubSeq(k, b + 1, b + n)

LEMMA GroupMangled ==
  ASSUME NEW k \in Seq(Digit), Len(k) = 16, NEW b \in Nat, NEW n \in Nat, b + n <= 16,
         NEW r \in 0 .. n, NEW l \in 10 .. 13
  PROVE  MangledGroup(k, b, n, r, l)
<1> DEFINE x == SubSeq(k, b + 1, b + r)
           y == SubSeq(k, b + r + 1, b + n)
<1>0. CutsAt(Digit, k, b, n, r)
  BY SliceCut
<1>1. x \in Seq(Digit) /\ y \in Seq(Digit) /\ Len(x) = r /\ Len(y) = n - r
  BY <1>0 DEF CutsAt
<1>2. x \o y = SubSeq(k, b + 1, b + n)
  BY <1>0 DEF CutsAt
<1> HIDE DEF x, y
<1>3. x \in Seq(Nat) /\ y \in Seq(Nat) /\ <<l>> \in Seq(Nat) /\ l \in Nat /\ l > 9
  <2>1. x \in Seq(Nat) /\ y \in Seq(Nat)
    BY <1>1, SeqMonotonic DEF Digit
  <2> QED BY <2>1
<1>4. x \o <<l>> \in Seq(Nat) /\ Len(x \o <<l>>) = r + 1
  BY <1>1, <1>3, NumberLists
<1>5. (x \o <<l>>) \o y \in Seq(Nat) /\ Len((x \o <<l>>) \o y) = n + 1
  <2> DEFINE z == x \o <<l>>
  <2>1. z \in Seq(Nat) /\ Len(z) = r + 1
    BY <1>4
  <2> HIDE DEF z
  <2>2. z \o y \in Seq(Nat) /\ Len(z \o y) = Len(z) + Len(y)
    BY <1>3, <2>1, NumberLists
  <2>3. (r + 1) + (n - r) = n + 1
    OBVIOUS
  <2> QED BY <1>1, <2>1, <2>2, <2>3 DEF z
<1>6. Keep((x \o <<l>>) \o y, Digit) = Keep(x \o <<l>>, Digit) \o Keep(y, Digit)
  BY <1>3, <1>4, NumberLists
<1>7. Keep(x \o <<l>>, Digit) = Keep(x, Digit) \o <<>>
  BY <1>3, NumberLists
<1>8. Keep(x, Digit) = x /\ Keep(y, Digit) = y
  BY <1>1, KeepAll
<1>9. x \o <<>> = x
  BY <1>1, ConcatEmptySeq
<1> QED BY <1>2, <1>5, <1>6, <1>7, <1>8, <1>9 DEF x, y, MangledGroup

\* One more group, behind a dash.
Dashed(s, t) ==
  /\ s \o <<Dash>> \o t \in Seq(Nat)
  /\ Len(s \o <<Dash>> \o t) = Len(s) + 1 + Len(t)
  /\ Keep(s \o <<Dash>> \o t, Digit) = Keep(s, Digit) \o Keep(t, Digit)

LEMMA DashAndGroup == ASSUME NEW s \in Seq(Nat), NEW t \in Seq(Nat) PROVE Dashed(s, t)
<1> DEFINE d == <<Dash>>
           u == s \o d
<1>1. d \in Seq(Nat) /\ Len(d) = 1 /\ Keep(d, Digit) = <<>>
  BY NumberLists DEF Dash
<1> HIDE DEF d
<1>2. u \in Seq(Nat) /\ Len(u) = Len(s) + 1 /\ Keep(u, Digit) = Keep(s, Digit) \o <<>>
  BY <1>1, NumberLists
<1>3. Keep(s, Digit) \in Seq(Nat \cap Digit)
  BY KeepType
<1>4. Keep(s, Digit) \o <<>> = Keep(s, Digit)
  BY <1>3, ConcatEmptySeq
<1> HIDE DEF u
<1>5. u \o t \in Seq(Nat) /\ Len(u \o t) = Len(u) + Len(t)
      /\ Keep(u \o t, Digit) = Keep(u, Digit) \o Keep(t, Digit)
  BY <1>2, NumberLists
<1> QED BY <1>2, <1>4, <1>5 DEF u, d, Dashed

LEMMA KeyNotEmpty == \A k \in Keys : k # <<>>
<1> SUFFICES ASSUME NEW k \in Keys PROVE k # <<>>
  OBVIOUS
<1>1. Len(k) = 16
  BY DEF Keys, KEY_LENGTH
<1>2. Len(<<>>) # 16
  OBVIOUS
<1> QED BY <1>1, <1>2, Zenon

\* makeCleanKey undoes mangleKey, wherever the letters are.
LEMMA CleanMangled ==
  ASSUME NEW k \in Keys, NEW r \in Cuts
  PROVE  Len(MangleKey(k, r)) = 23 /\ CleanKey(MangleKey(k, r)) = k
<1>0. k \in Seq(Digit) /\ Len(k) = 16 /\ k # <<>>
  BY KeyNotEmpty DEF Keys, KEY_LENGTH
<1>1. r[1] \in 0 .. 4 /\ r[2] \in 0 .. 5 /\ r[3] \in 0 .. 2 /\ r[4] \in 0 .. 5
  BY KeyServerAssumption DEF Group
<1> DEFINE M(b, n, i, l) == SubSeq(k, b + 1, b + i) \o <<l>> \o SubSeq(k, b + i + 1, b + n)
           a == M(0, 4, r[1], 10)
           b == M(4, 5, r[2], 11)
           c == M(9, 2, r[3], 10)
           d == M(11, 5, r[4], 12)
<1>2. MangleKey(k, r) = a \o <<Dash>> \o b \o <<Dash>> \o c \o <<Dash>> \o d
  BY <1>0 DEF MangleKey, Slice, Group, Letter
<1>3. a \in Seq(Nat) /\ Len(a) = 5 /\ Keep(a, Digit) = SubSeq(k, 1, 4)
  <2>1. MangledGroup(k, 0, 4, r[1], 10)
    BY <1>0, <1>1, GroupMangled
  <2> QED BY <2>1 DEF MangledGroup
<1>4. b \in Seq(Nat) /\ Len(b) = 6 /\ Keep(b, Digit) = SubSeq(k, 5, 9)
  <2>1. MangledGroup(k, 4, 5, r[2], 11)
    BY <1>0, <1>1, GroupMangled
  <2> QED BY <2>1 DEF MangledGroup
<1>5. c \in Seq(Nat) /\ Len(c) = 3 /\ Keep(c, Digit) = SubSeq(k, 10, 11)
  <2>1. MangledGroup(k, 9, 2, r[3], 10)
    BY <1>0, <1>1, GroupMangled
  <2> QED BY <2>1 DEF MangledGroup
<1>6. d \in Seq(Nat) /\ Len(d) = 6 /\ Keep(d, Digit) = SubSeq(k, 12, 16)
  <2>1. MangledGroup(k, 11, 5, r[4], 12)
    BY <1>0, <1>1, GroupMangled
  <2> QED BY <2>1 DEF MangledGroup
<1> HIDE DEF a, b, c, d
<1>7. SubSeq(k, 1, 4) \o SubSeq(k, 5, 9) = SubSeq(k, 1, 9)
  <2>0. 0 + 9 <= Len(k) /\ 4 \in 0 .. 9 /\ 0 \in Nat /\ 9 \in Nat
    BY <1>0
  <2>1. CutsAt(Digit, k, 0, 9, 4)
    BY <1>0, <2>0, SliceCut
  <2> QED BY <2>1 DEF CutsAt
<1>8. SubSeq(k, 1, 9) \o SubSeq(k, 10, 11) = SubSeq(k, 1, 11)
  <2>0. 0 + 11 <= Len(k) /\ 9 \in 0 .. 11 /\ 0 \in Nat /\ 11 \in Nat
    BY <1>0
  <2>1. CutsAt(Digit, k, 0, 11, 9)
    BY <1>0, <2>0, SliceCut
  <2> QED BY <2>1 DEF CutsAt
<1>9. SubSeq(k, 1, 11) \o SubSeq(k, 12, 16) = k
  <2>0. 0 + 16 <= Len(k) /\ 11 \in 0 .. 16 /\ 0 \in Nat /\ 16 \in Nat
    BY <1>0
  <2>1. CutsAt(Digit, k, 0, 16, 11)
    BY <1>0, <2>0, SliceCut
  <2>2. SubSeq(k, 1, 16) = k
    BY <1>0, SubSeqFull
  <2> QED BY <2>1, <2>2 DEF CutsAt
<1> DEFINE ab == a \o <<Dash>> \o b
           abc == ab \o <<Dash>> \o c
           abcd == abc \o <<Dash>> \o d
<1>10. ab \in Seq(Nat) /\ Len(ab) = 12 /\ Keep(ab, Digit) = SubSeq(k, 1, 9)
  <2>1. Dashed(a, b)
    BY <1>3, <1>4, <1>7, DashAndGroup
  <2>2. /\ ab \in Seq(Nat) /\ Len(ab) = Len(a) + 1 + Len(b)
        /\ Keep(ab, Digit) = Keep(a, Digit) \o Keep(b, Digit)
    BY <2>1 DEF Dashed
  <2> HIDE DEF ab
  <2> QED BY <1>3, <1>4, <1>7, <2>2
<1> HIDE DEF ab
<1>11. abc \in Seq(Nat) /\ Len(abc) = 16 /\ Keep(abc, Digit) = SubSeq(k, 1, 11)
  <2>1. Dashed(ab, c)
    BY <1>5, <1>8, <1>10, DashAndGroup
  <2>2. /\ abc \in Seq(Nat) /\ Len(abc) = Len(ab) + 1 + Len(c)
        /\ Keep(abc, Digit) = Keep(ab, Digit) \o Keep(c, Digit)
    BY <2>1 DEF Dashed
  <2> HIDE DEF abc
  <2> QED BY <1>5, <1>8, <1>10, <2>2
<1> HIDE DEF abc
<1>12. Len(abcd) = 23 /\ Keep(abcd, Digit) = k
  <2>1. Dashed(abc, d)
    BY <1>6, <1>9, <1>11, DashAndGroup
  <2>2. /\ abcd \in Seq(Nat) /\ Len(abcd) = Len(abc) + 1 + Len(d)
        /\ Keep(abcd, Digit) = Keep(abc, Digit) \o Keep(d, Digit)
    BY <2>1 DEF Dashed
  <2> HIDE DEF abcd
  <2> QED BY <1>6, <1>9, <1>11, <2>2
<1> QED BY <1>2, <1>12 DEF CleanKey, ab, abc

\* The key that there is not before the first rotation: its letters and dashes.
LEMMA EmptyMangled == ASSUME NEW r PROVE Len(MangleKey(<<>>, r)) = 7
<1> DEFINE m == <<10>> \o <<13>> \o <<11>> \o <<13>> \o <<10>> \o <<13>> \o <<12>>
<1>1. \A l : <<>> \o <<l>> \o <<>> = <<l>>
  OBVIOUS
<1>2. MangleKey(<<>>, r) = m
  BY <1>1 DEF MangleKey, Slice, Letter, Dash
<1>3. Len(m) = 7
  OBVIOUS
<1> QED BY <1>2, <1>3

-----------------------------------------------------------------------------
(* The server's globals and the clients' buffers.                          *)

KeyOrNone == Keys \cup {<<>>}

\* The connection that the TCP server works on is one that still waits.
TcpInv ==
  \/ tcp = Idle
  \/ /\ tcp \in [client : Clients, step : {"acquire", "send"}]
     /\ client[tcp.client] \in {"message", "gone"}

TypeInv ==
  /\ key \in KeyOrNone /\ encMsg \in KeyOrNone
  /\ cEncBuff \in [Clients -> KeyOrNone]
  /\ client \in [Clients -> {"new", "message", "key", "gone", "done", "over"}]
  /\ outcome \in [Clients -> {"none", "badkey", "decrypted", "garbled"}]
  /\ msgEra \in [Clients -> Nat] /\ keyEra \in [Clients -> Nat]
  /\ era \in 0 .. MaxRotations /\ (rotator # "idle" => era < MaxRotations)
  /\ TcpInv

LEMMA TypeInit == Init => TypeInv
BY KeyServerAssumption DEF Init, TypeInv, TcpInv, KeyOrNone

LEMMA TypeStep == ASSUME TypeInv, LockInv, [Next]_vars PROVE TypeInv'
<1> USE DEF TypeInv, TcpInv
<1>1. CASE RotateAcquire
  BY <1>1, KeyServerAssumption DEF RotateAcquire, clients
<1>2. CASE GenerateKey
  <2>1. key' \in KeyOrNone
    BY <1>2, CompletedNumberRight DEF GenerateKey, KeyOrNone
  <2> QED BY <1>2, <2>1 DEF GenerateKey, clients, LockInv
<1>3. CASE ClearMessage
  BY <1>3 DEF ClearMessage, clients, KeyOrNone, LockInv
<1>4. CASE EncryptMessage
  BY <1>4, KeyServerAssumption DEF EncryptMessage, clients, LockInv
<1>5. ASSUME NEW c \in Clients, TcpServe(c) PROVE TypeInv'
  BY <1>5 DEF TcpServe, shared, clients
<1>6. CASE TcpAcquire
  BY <1>6 DEF TcpAcquire, shared, clients, Idle
<1>7. CASE TcpSend
  BY <1>7, KeyServerAssumption DEF TcpSend, shared, Idle
<1>8. CASE TcpSendRaises
  BY <1>8 DEF TcpSendRaises, shared, Idle
<1>9. ASSUME NEW c \in Clients, Connect(c) \/ Reset(c) PROVE TypeInv'
  BY <1>9 DEF Connect, Reset, shared, Idle
<1>10. ASSUME NEW c \in Clients, GetMessage(c) PROVE TypeInv'
  BY <1>10, KeyServerAssumption DEF GetMessage, shared, Idle
<1>11. ASSUME NEW c \in Clients, GetKey(c) PROVE TypeInv'
  <2>1. \A m : Outcome(c, m) \in {"none", "badkey", "decrypted", "garbled"}
    BY DEF Outcome
  <2> QED BY <1>11, <2>1, KeyServerAssumption DEF GetKey, shared, Idle
<1>12. CASE UNCHANGED vars
  BY <1>12 DEF vars
<1> QED
  BY <1>1, <1>2, <1>3, <1>4, <1>5, <1>6, <1>7, <1>8, <1>9, <1>10, <1>11, <1>12
  DEF Next, Rotate, Tcp

LEMMA KeyDigits ==
  ASSUME NEW s \in KeyOrNone
  PROVE  s = <<>> \/ (Len(s) = KEY_LENGTH /\ \A i \in 1 .. KEY_LENGTH : s[i] \in Digit)
<1>1. CASE s \in Keys
  <2>1. s \in Seq(Digit) /\ Len(s) = KEY_LENGTH
    BY <1>1 DEF Keys
  <2> QED BY <2>1, ElementOfSeq
<1> QED BY <1>1 DEF KeyOrNone

\* The globals of Server.py and the clients' buffers keep their types, for every list of
\* prefixes, every choice of digits and every number of clients: completed_number never
\* makes a key of another length, nor one with something else than digits in it.
THEOREM ServerTypeCorrect == Spec => []TypeOK
<1>1. TypeInv /\ LockInv => TypeOK
  <2> SUFFICES ASSUME TypeInv, LockInv PROVE TypeOK
    OBVIOUS
  <2>1. ASSUME NEW s \in {key, encMsg} \cup {cEncBuff[c] : c \in Clients}
        PROVE  s \in KeyOrNone
    BY DEF TypeInv
  <2>2. \A s \in {key, encMsg} \cup {cEncBuff[c] : c \in Clients} :
          s = <<>> \/ (Len(s) = KEY_LENGTH /\ \A i \in 1 .. KEY_LENGTH : s[i] \in Digit)
    BY <2>1, KeyDigits
  <2>3. tcp \in {Idle} \cup [client : Clients, step : {"acquire", "send"}]
    BY DEF TypeInv, TcpInv
  <2> QED BY <2>2, <2>3 DEF TypeOK, TypeInv, LockInv
<1> QED BY <1>1, TypeInit, TypeStep, LockInit, LockStep, PTL DEF Spec

-----------------------------------------------------------------------------
(* What a client makes of its two calls.                                   *)

\* Unless the rotation is at work, there is a key since the first one, and a client
\* that has its message from the current one has the message of the key.
FetchInv ==
  /\ key # <<>> => LuhnValid(key)
  /\ rotator \in {"idle", "locked"} => (key = <<>> <=> era = 0)
  /\ rotator \in {"keyed", "cleared"} => key # <<>>
  /\ \A c \in Clients :
       /\ msgEra[c] <= era
       /\ client[c] = "key" /\ msgEra[c] = era /\ rotator \in {"idle", "locked"}
            => cEncBuff[c] = encMsg
  /\ FetchSound

LEMMA FetchInit == Init => FetchInv
BY DEF Init, FetchInv, FetchSound

\* getKey: the outcome depends on the two rotations alone.
LEMMA OutcomeRight ==
  ASSUME TypeInv, LockInv, FetchInv, NEW c \in Clients, NEW r \in Cuts,
         client[c] = "key", lock = "free"
  PROVE  /\ Outcome(c, MangleKey(key, r)) = "garbled" => msgEra[c] # era
         /\ Outcome(c, MangleKey(key, r)) = "badkey" => era = 0
<1>1. rotator = "idle" /\ encMsg = key
  BY DEF LockInv
<1>2. CASE key = <<>>
  <2>1. era = 0
    BY <1>1, <1>2 DEF FetchInv
  <2>2. Len(MangleKey(key, r)) # 23
    <3>1. Len(MangleKey(<<>>, r)) = 7 /\ 7 # 23
      BY EmptyMangled
    <3> QED BY <1>2, <3>1
  <2> QED BY <2>1, <2>2 DEF Outcome
<1>3. CASE key # <<>>
  <2>1. Len(MangleKey(key, r)) = 23 /\ CleanKey(MangleKey(key, r)) = key
    BY <1>3, CleanMangled DEF TypeInv, KeyOrNone
  <2>2. LuhnValid(key)
    BY <1>3 DEF FetchInv
  <2>3. Outcome(c, MangleKey(key, r)) = IF key = cEncBuff[c] THEN "decrypted" ELSE "garbled"
    BY <2>1, <2>2 DEF Outcome
  <2>4. msgEra[c] = era => cEncBuff[c] = key
    BY <1>1 DEF FetchInv
  <2> QED BY <2>3, <2>4
<1> QED BY <1>2, <1>3

LEMMA FetchStep == ASSUME TypeInv, LockInv, FetchInv, [Next]_vars PROVE FetchInv'
<1> USE DEF FetchInv, FetchSound
<1>1. CASE RotateAcquire
  BY <1>1 DEF RotateAcquire, clients
<1>2. CASE GenerateKey
  BY <1>2, CompletedNumberRight, KeyNotEmpty DEF GenerateKey, clients
<1>3. CASE ClearMessage
  BY <1>3 DEF ClearMessage, clients
<1>4. CASE EncryptMessage
  <2>1. era \in Nat /\ \A c \in Clients : msgEra[c] \in Nat /\ msgEra[c] <= era
    BY KeyServerAssumption DEF TypeInv
  <2>2. era' = era + 1 /\ era' # 0 /\ \A c \in Clients : msgEra[c] <= era' /\ msgEra[c] # era'
    BY <1>4, <2>1 DEF EncryptMessage
  <2> QED BY <1>4, <2>2 DEF EncryptMessage, clients
<1>5. ASSUME NEW c \in Clients, TcpServe(c) PROVE FetchInv'
  BY <1>5 DEF TcpServe, shared, clients
<1>6. CASE TcpAcquire
  BY <1>6 DEF TcpAcquire, shared, clients
<1>7. CASE TcpSend
  BY <1>7 DEF TcpSend, shared, TypeInv, TcpInv, Idle
<1>8. CASE TcpSendRaises
  BY <1>8 DEF TcpSendRaises, shared, TypeInv, TcpInv, Idle
<1>9. ASSUME NEW c \in Clients, Connect(c) \/ Reset(c) PROVE FetchInv'
  BY <1>9 DEF Connect, Reset, shared, TypeInv
<1>10. ASSUME NEW c \in Clients, GetMessage(c) PROVE FetchInv'
  BY <1>10 DEF GetMessage, shared, TypeInv
<1>11. ASSUME NEW c \in Clients, GetKey(c) PROVE FetchInv'
  BY <1>11, OutcomeRight DEF GetKey, shared, TypeInv
<1>12. CASE UNCHANGED vars
  BY <1>12 DEF vars
<1> QED
  BY <1>1, <1>2, <1>3, <1>4, <1>5, <1>6, <1>7, <1>8, <1>9, <1>10, <1>11, <1>12
  DEF Next, Rotate, Tcp

\* A fetch is spoiled by nothing but a new key between its two calls: a client that
\* decrypts garbage has met one, and one that refuses its key has asked before there was
\* any.  The letters, the dashes, the check digit and the threads never do it.
THEOREM FetchesSound == Spec => []FetchSound
<1>1. FetchInv => FetchSound
  BY DEF FetchInv
<1> QED
  BY <1>1, TypeInit, TypeStep, LockInit, LockStep, FetchInit, FetchStep, PTL DEF Spec
=============================================================================
