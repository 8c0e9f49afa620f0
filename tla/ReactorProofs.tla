--------------------------- MODULE ReactorProofs ---------------------------
(* What cs_mutex gives the virtual machine in daemon.c, and what the       *)
(* machine's verdict is worth, for any number of connections, challenges   *)
(* and responses.                                                          *)
EXTENDS Reactor, ListProofs, SequenceTheorems, TLAPS

\* A text copied over one that is no longer leaves nothing of it.
LEMMA Overwritten ==
  ASSUME NEW S, NEW old \in Seq(S), NEW new \in Seq(S), Len(old) <= Len(new)
  PROVE  Overwrite(old, new) = new
<1>1. SubSeq(old, Len(new) + 1, Len(old)) = <<>>
  BY SubSeqEmpty, LenProperties
<1> QED BY <1>1, ConcatEmptySeq DEF Overwrite

\* The empty text.
LEMMA LenEmpty == Len(<<>>) = 0
OBVIOUS

\* Where the virtual machine works on the texts.
Working == {"checksum", "form", "compare"}

\* The buffers always hold whole texts, of the one length that texts have there, and
\* whoever is past the lock owns the mutex.
OwnInv ==
  /\ pc \in [Conns -> Critical \cup {"out", "lost", "greet", "read", "lock", "answer", "closed"}]
  /\ chal \in [Conns -> Challenges \cup {<<>>}]
  /\ resp \in [Conns -> Responses \cup {<<>>}]
  /\ challenge \in Challenges \cup {<<>>}
  /\ response \in Responses \cup {<<>>} /\ Len(response) <= RESPONSE_LEN
  /\ \A c \in Conns : pc[c] \in Critical => owner = c
  /\ \A c \in Conns : pc[c] \in Critical \cup {"read", "lock"} => chal[c] \in Challenges
  /\ \A c \in Conns : pc[c] \in Working => challenge = chal[c] /\ response = resp[c]

LEMMA OwnInit == Init => OwnInv
BY LenEmpty DEF Init, OwnInv, Critical, Working, RESPONSE_LEN

\* A thread that goes on without touching the mutex or the texts keeps OwnInv, if it
\* stays on its side of the lock and does not skip CopyTexts.
LEMMA OwnGoto ==
  ASSUME OwnInv, NEW c \in Conns, NEW from, NEW to, Goto(c, from, to),
         UNCHANGED <<chal, resp, owner, texts>>,
         \/ /\ from \in {"out", "answer"}
            /\ to \in {"greet", "lost", "closed"}
         \/ from = "read" /\ to = "closed"
         \/ from \in Working /\ to \in Working \cup {"unlock"}
  PROVE  OwnInv'
BY DEF OwnInv, Goto, Critical, Working, texts

LEMMA OwnStep == ASSUME OwnInv, [Next]_vars PROVE OwnInv'
<1>1. ASSUME NEW c \in Conns, Accept(c) \/ AcceptNoThread(c) PROVE OwnInv'
  BY <1>1, OwnGoto DEF Accept, AcceptNoThread
<1>2. ASSUME NEW c \in Conns, Greet(c) PROVE OwnInv'
  BY <1>2 DEF Greet, Goto, OwnInv, Critical, Working, texts
<1>3. ASSUME NEW c \in Conns, ReadResponse(c) PROVE OwnInv'
  BY <1>3 DEF ReadResponse, Goto, OwnInv, Critical, Working, texts
<1>4. ASSUME NEW c \in Conns, ReadNothing(c) \/ Answer(c) PROVE OwnInv'
  BY <1>4, OwnGoto DEF ReadNothing, Answer
<1>5. ASSUME NEW c \in Conns, Lock(c) PROVE OwnInv'
  BY <1>5, ReactorAssumption DEF Lock, Goto, OwnInv, Critical, Working, texts
<1>6. ASSUME NEW c \in Conns, LengthRefused(c) \/ EndOfApp(c) PROVE OwnInv'
  BY <1>6 DEF LengthRefused, EndOfApp, Goto, OwnInv, Critical, Working, texts
<1>7. ASSUME NEW c \in Conns, CopyTexts(c) PROVE OwnInv'
  <2> USE <1>7 DEF OwnInv
  <2>1. pc[c] = "length" /\ owner = c /\ chal[c] \in Challenges /\ Len(resp[c]) = RESPONSE_LEN
    BY DEF CopyTexts, Goto, Critical
  <2>2. resp[c] \in Responses
    <3>1. Len(resp[c]) # 0
      BY <2>1 DEF RESPONSE_LEN
    <3> QED BY <3>1, LenEmpty
  <2>3. challenge' = chal[c]
    <3>1. chal[c] \in Seq(Nat \ {0}) /\ challenge \in Seq(Nat \ {0})
      BY <2>1, EmptySeq, ReactorAssumption
    <3>2. Len(challenge) <= Len(chal[c])
      BY <2>1, <3>1, EmptySeq, LenProperties, ReactorAssumption
    <3> QED BY <3>1, <3>2, Overwritten DEF CopyTexts
  <2>4. response' = resp[c]
    <3>1. resp[c] \in Seq(Char) /\ response \in Seq(Char)
      BY <2>2, EmptySeq, ReactorAssumption
    <3>2. Len(response) <= Len(resp[c])
      BY <2>1
    <3> QED BY <3>1, <3>2, Overwritten DEF CopyTexts
  <2>5. \A d \in Conns : d # c => pc[d] \notin Critical
    BY <2>1
  <2>6. Len(response') <= RESPONSE_LEN
    <3>1. RESPONSE_LEN <= RESPONSE_LEN
      BY DEF RESPONSE_LEN
    <3> QED BY ONLY <2>1, <2>4, <3>1, Zenon
  <2> QED BY <2>1, <2>2, <2>3, <2>4, <2>5, <2>6 DEF CopyTexts, Goto, Critical, Working
<1>8. ASSUME NEW c \in Conns,
             ChecksumChar(c) \/ ChecksumDone(c) \/ FormChar(c) \/ FormDone(c) \/ FormRefused(c)
             \/ Compare(c)
      PROVE  OwnInv'
  BY <1>8, OwnGoto
  DEF ChecksumChar, ChecksumDone, FormChar, FormDone, FormRefused, Compare, Working, machine
<1>9. CASE Exit \/ UNCHANGED vars
  BY <1>9 DEF Exit, vars, texts, OwnInv
<1> QED
  BY <1>1, <1>2, <1>3, <1>4, <1>5, <1>6, <1>7, <1>8, <1>9 DEF Next, Login, Verify

\* The virtual machine never works on the texts of another login.
THEOREM TextsAreOwn == Spec => []OwnTexts
<1>1. OwnInv => OwnTexts
  BY DEF OwnInv, OwnTexts, Critical, Working
<1> QED BY <1>1, OwnInit, OwnStep, PTL DEF Spec

-----------------------------------------------------------------------------
(* What the verdict flag, which outlives a login, can still give away.     *)

\* Whoever has set the flag has been compared with a whole response, and keeps the
\* mutex until it has its own verdict.
ComparedInv ==
  /\ next \in Nat \ {0} /\ good_bad_flag \in BOOLEAN
  /\ iRet \in [Conns -> {0, -1}]
  /\ \A c \in Conns : pc[c] \in Working \cup {"unlock"} => Len(resp[c]) = RESPONSE_LEN
  /\ \A c \in Conns : pc[c] = "form" => \A i \in 1 .. next - 1 : resp[c][i] # Other
  /\ \A c \in Conns : pc[c] = "compare" => Unbroken(resp[c])
  /\ \A c \in Conns : iRet[c] = 0 => c \in Judged /\ Len(resp[c]) = RESPONSE_LEN
  /\ good_bad_flag =>
       \E d \in Conns : Unbroken(resp[d]) /\ (pc[d] = "unlock" \/ iRet[d] = 0)
  /\ (\E c \in Conns : iRet[c] = 0) => \E d \in Conns : Unbroken(resp[d]) /\ iRet[d] = 0

LEMMA ComparedInit == Init => ComparedInv
<1> SUFFICES ASSUME Init PROVE ComparedInv
  OBVIOUS
<1>1. \A c \in Conns : iRet[c] = -1 /\ pc[c] = "out"
  BY DEF Init
<1>2. next = 1 /\ good_bad_flag = FALSE /\ iRet \in [Conns -> {0, -1}]
  <2>1. iRet = [c \in Conns |-> -1] /\ -1 \in {0, -1}
    BY DEF Init
  <2> QED BY <2>1 DEF Init
<1>3. good_bad_flag \in BOOLEAN /\ ~good_bad_flag
  BY <1>2, Zenon
<1>4. \A c \in Conns : iRet[c] # 0 /\ pc[c] \notin Working \cup {"unlock"} /\ pc[c] # "form" /\ pc[c] # "compare"
  BY <1>1 DEF Working
<1>5. next \in Nat \ {0}
  BY <1>2
<1> QED
  BY <1>2, <1>3, <1>4, <1>5, Zenon DEF ComparedInv

\* A thread that goes on keeps ComparedInv if it leaves the flag, the verdicts and the
\* responses, and does not enter the loops or leave the end of the application.
LEMMA ComparedGoto ==
  ASSUME OwnInv, ComparedInv, NEW c \in Conns, NEW from, NEW to, Goto(c, from, to),
         UNCHANGED <<resp, iRet, next, good_bad_flag>>,
         from \notin Working \cup {"unlock"}, to \notin Working \cup {"unlock"},
         c \in Judged => to \in {"answer", "closed"}
  PROVE  ComparedInv'
<1> USE DEF Goto
<1>1. UNCHANGED <<resp, iRet, next, good_bad_flag>> /\ pc' = [pc EXCEPT ![c] = to]
  OBVIOUS
<1>2. \A d \in Conns : pc'[d] = (IF d = c THEN to ELSE pc[d])
  BY <1>1 DEF OwnInv
<1>3. iRet[c] = 0 => to \in {"answer", "closed"}
  BY DEF ComparedInv
<1>4. \A d \in Conns : iRet[d] = 0 => d \in Judged' /\ Len(resp[d]) = RESPONSE_LEN
  BY <1>1, <1>2, <1>3 DEF ComparedInv, Judged
<1>5. good_bad_flag => \E d \in Conns : Unbroken(resp[d]) /\ (pc'[d] = "unlock" \/ iRet[d] = 0)
  BY <1>2 DEF ComparedInv, Working
<1> QED
  BY <1>1, <1>2, <1>4, <1>5 DEF ComparedInv, Working

LEMMA ComparedStep == ASSUME OwnInv, ComparedInv, [Next]_vars PROVE ComparedInv'
<1> USE DEF machine, texts
<1>1. ASSUME NEW c \in Conns,
             Accept(c) \/ AcceptNoThread(c) \/ Greet(c) \/ ReadNothing(c) \/ Lock(c)
             \/ LengthRefused(c) \/ Answer(c)
      PROVE  ComparedInv'
  BY <1>1, ComparedGoto
  DEF Accept, AcceptNoThread, Greet, ReadNothing, Lock, LengthRefused, Answer, Goto, Judged, Working
<1>2. ASSUME NEW c \in Conns, ReadResponse(c) PROVE ComparedInv'
  BY <1>2 DEF ReadResponse, Goto, OwnInv, ComparedInv, Working, Judged, Unbroken
<1>3. ASSUME NEW c \in Conns, CopyTexts(c) \/ ChecksumChar(c) PROVE ComparedInv'
  BY <1>3 DEF CopyTexts, ChecksumChar, Goto, OwnInv, ComparedInv, Critical, Working, Judged, Unbroken
<1>4. ASSUME NEW c \in Conns, ChecksumDone(c) PROVE ComparedInv'
  BY <1>4 DEF ChecksumDone, Goto, OwnInv, ComparedInv, Critical, Working, Judged, Unbroken
<1>5. ASSUME NEW c \in Conns, FormChar(c) PROVE ComparedInv'
  BY <1>5 DEF FormChar, Goto, OwnInv, ComparedInv, Critical, Working, Judged, Unbroken
<1>6. ASSUME NEW c \in Conns, FormRefused(c) PROVE ComparedInv'
  BY <1>6 DEF FormRefused, Goto, OwnInv, ComparedInv, Critical, Working, Judged, Unbroken
<1>7. ASSUME NEW c \in Conns, FormDone(c) PROVE ComparedInv'
  BY <1>7 DEF FormDone, Goto, OwnInv, ComparedInv, Critical, Working, Judged, Unbroken
<1>8. ASSUME NEW c \in Conns, Compare(c) PROVE ComparedInv'
  BY <1>8 DEF Compare, Goto, OwnInv, ComparedInv, Critical, Working, Judged, Unbroken
<1>9. ASSUME NEW c \in Conns, EndOfApp(c) PROVE ComparedInv'
  BY <1>9 DEF EndOfApp, Goto, OwnInv, ComparedInv, Critical, Working, Judged, Unbroken
<1>10. CASE Exit \/ UNCHANGED vars
  BY <1>10 DEF Exit, vars, ComparedInv, Judged, Unbroken
<1> QED
  BY <1>1, <1>2, <1>3, <1>4, <1>5, <1>6, <1>7, <1>8, <1>9, <1>10 DEF Next, Login, Verify

\* Nothing is accepted before some response of nine good characters was.
THEOREM AcceptedWasCompared == Spec => []ComparedOnce
<1>1. ComparedInv => ComparedOnce
  BY DEF ComparedInv, ComparedOnce, Judged
<1> QED BY <1>1, OwnInit, OwnStep, ComparedInit, ComparedStep, PTL DEF Spec

-----------------------------------------------------------------------------
(* The registers.                                                          *)

\* Registers are words.
Registers ==
  /\ alive \in BOOLEAN
  /\ owner \in Conns \cup {Nobody}
  /\ reg6 \in 0 .. Word - 1 /\ reg7 \in 0 .. Word - 1

\* A byte is at least four values, and a word four bytes.
LEMMA WordSize == Byte \in Nat /\ Byte > 1 /\ Word \in Nat /\ Byte <= Word
<1>1. Nibble \in Nat /\ Nibble > 1
  BY ReactorAssumption
<1>2. Byte \in Nat /\ Byte > 1
  BY <1>1 DEF Byte
<1>3. Byte * Byte \in Nat /\ Byte <= Byte * Byte
  BY <1>2
<1>4. Byte * Byte * Byte \in Nat /\ Byte <= Byte * Byte * Byte
  <2> DEFINE b == Byte * Byte
  <2>1. b \in Nat /\ b >= 1
    BY <1>2, <1>3
  <2> HIDE DEF b
  <2>2. b * Byte \in Nat /\ Byte <= b * Byte
    BY <2>1, <1>2
  <2> QED BY <2>2 DEF b
<1>5. Byte * Byte * Byte * Byte \in Nat /\ Byte <= Byte * Byte * Byte * Byte
  <2> DEFINE b == Byte * Byte * Byte
  <2>1. b \in Nat /\ b >= 1
    BY <1>2, <1>4
  <2> HIDE DEF b
  <2>2. b * Byte \in Nat /\ Byte <= b * Byte
    BY <2>1, <1>2
  <2> QED BY <2>2 DEF b
<1> QED BY <1>2, <1>5 DEF Word

\* The operations of the machine give words.
LEMMA Words ==
  ASSUME NEW w \in Nat, NEW v \in Nat
  PROVE  /\ Add(w, v) \in 0 .. Word - 1 /\ ChecksumRound(w, v) \in 0 .. Word - 1
         /\ Shl(w, Nibble) \in Nat
         /\ AndByte(Shr(w, Byte)) \in 0 .. Word - 1
<1>1. Word \in Nat /\ Word > 0 /\ Byte \in Nat /\ Byte > 0 /\ Byte <= Word /\ Nibble \in Nat
  BY WordSize, ReactorAssumption
<1>2. \A n \in Nat : n % Word \in 0 .. Word - 1 /\ n % Byte \in 0 .. Byte - 1
  BY <1>1
<1>3. Add(w, v) \in 0 .. Word - 1
  BY <1>2 DEF Add
<1>4. ChecksumRound(w, v) \in 0 .. Word - 1
  <2>1. \A n, m \in Nat : Add(n, m) \in Nat
    BY <1>1, <1>2 DEF Add
  <2>2. Add(Add(w, v), 47806) \in Nat
    BY <2>1
  <2>3. Add(Add(w, v), 47806) * 4 \in Nat
    BY <2>2
  <2> QED BY <1>2, <2>3 DEF ChecksumRound, Shl
<1>5. Shl(w, Nibble) \in Nat
  <2>1. w * Nibble \in Nat
    BY <1>1
  <2> QED BY <1>1, <1>2, <2>1 DEF Shl
<1>6. AndByte(Shr(w, Byte)) \in 0 .. Word - 1
  <2>1. w \div Byte \in Nat
    BY <1>1
  <2>2. (w \div Byte) % Byte \in 0 .. Byte - 1
    BY <1>2, <2>1
  <2> QED BY <1>1, <2>2 DEF AndByte, Shr
<1> QED BY <1>3, <1>4, <1>5, <1>6

LEMMA RegistersInit == Init => Registers
<1>1. 0 \in 0 .. Word - 1
  BY WordSize
<1> QED BY <1>1 DEF Init, Registers

LEMMA RegistersStep ==
  ASSUME OwnInv, ComparedInv, Registers, [Next]_vars
  PROVE  Registers'
<1> USE DEF machine, texts, Goto
<1>0. reg6 \in Nat /\ reg7 \in Nat /\ 0 \in 0 .. Word - 1
  BY WordSize DEF Registers
<1>1. ASSUME NEW c \in Conns, CopyTexts(c) PROVE Registers'
  BY <1>0, <1>1 DEF CopyTexts, Registers
<1>2. ASSUME NEW c \in Conns, ChecksumChar(c) PROVE Registers'
  <2>1. challenge \in Seq(Nat \ {0})
    BY EmptySeq, ReactorAssumption DEF OwnInv
  <2>2. challenge[next] \in Nat
    BY <1>2, <2>1 DEF ChecksumChar, ComparedInv
  <2>3. reg7' \in 0 .. Word - 1
    BY <1>0, <1>2, <2>2, Words DEF ChecksumChar
  <2> QED BY <1>2, <2>3 DEF ChecksumChar, Registers
<1>3. ASSUME NEW c \in Conns, FormChar(c) PROVE Registers'
  <2>1. response \in Seq(Char)
    BY EmptySeq, ReactorAssumption DEF OwnInv
  <2>2. response[next] \in Nat
    <3>1. response[next] \in Char
      BY <1>3, <2>1 DEF FormChar, ComparedInv
    <3>2. Nibble + 1 \in Int
      BY ReactorAssumption
    <3> QED BY <3>1, <3>2 DEF Char, Other
  <2>3. reg6' = reg6 \/ reg6' = Add(Shl(reg6, Nibble), response[next])
    BY <1>3 DEF FormChar
  <2>4. reg6' \in 0 .. Word - 1
    BY <1>0, <2>2, <2>3, Words DEF Registers
  <2> QED BY <1>3, <2>4 DEF FormChar, Registers
<1>4. ASSUME NEW c \in Conns, Compare(c) PROVE Registers'
  BY <1>0, <1>4, Words DEF Compare, Registers
<1>5. ASSUME NEW c \in Conns,
             Accept(c) \/ AcceptNoThread(c) \/ Greet(c) \/ ReadResponse(c) \/ ReadNothing(c)
             \/ Lock(c) \/ LengthRefused(c) \/ ChecksumDone(c) \/ FormRefused(c) \/ FormDone(c)
             \/ EndOfApp(c) \/ Answer(c)
      PROVE  Registers'
  BY <1>5 DEF Accept, AcceptNoThread, Greet, ReadResponse, ReadNothing, Lock, LengthRefused,
              ChecksumDone, FormRefused, FormDone, EndOfApp, Answer, Registers
<1>6. CASE Exit \/ UNCHANGED vars
  BY <1>6 DEF Exit, vars, Registers
<1> QED
  BY <1>1, <1>2, <1>3, <1>4, <1>5, <1>6 DEF Next, Login, Verify

\* The machine's registers stay words of 32 bits.
THEOREM ReactorTypeCorrect == Spec => []TypeOK
<1>1. OwnInv /\ ComparedInv /\ Registers => TypeOK
  BY DEF OwnInv, ComparedInv, Registers, TypeOK
<1> QED
  BY <1>1, OwnInit, OwnStep, ComparedInit, ComparedStep, RegistersInit, RegistersStep, PTL DEF Spec

-----------------------------------------------------------------------------
(* Words and their digits.                                                 *)

\* Division, by its quotient and remainder.
LEMMA DivMod ==
  ASSUME NEW m \in Nat \ {0}, NEW q \in Nat, NEW r \in 0 .. m - 1
  PROVE  (q * m + r) \div m = q /\ (q * m + r) % m = r
OBVIOUS

\* A number below m * k, divided by k.
LEMMA Divided ==
  ASSUME NEW m \in Nat \ {0}, NEW k \in Nat \ {0}, NEW u \in 0 .. m * k - 1
  PROVE  u = (u \div k) * k + (u % k) /\ u % k \in 0 .. k - 1 /\ u \div k \in 0 .. m - 1
<1>0. u \in Nat /\ u < m * k /\ m * k \in Nat
  OBVIOUS
<1>1. u = (u \div k) * k + (u % k) /\ u % k \in 0 .. k - 1 /\ u \div k \in Nat
  BY <1>0
<1> DEFINE q == u \div k
<1>2. q \in Nat /\ q * k <= u
  BY <1>0, <1>1
<1> HIDE DEF q
<1>3. ASSUME q >= m PROVE FALSE
  <2>1. q * k >= m * k
    BY <1>2, <1>3
  <2> QED BY <1>0, <1>2, <2>1
<1> QED BY <1>1, <1>2, <1>3 DEF q

\* Two digits of base m are a digit of base m * m.
LEMMA TwoDigits ==
  ASSUME NEW m \in Nat \ {0}, NEW n \in Nat \ {0}, NEW a \in 0 .. m - 1, NEW b \in 0 .. n - 1
  PROVE  a * n + b \in 0 .. m * n - 1
<1>1. a * n \in Nat /\ m * n \in Nat /\ (a + 1) * n <= m * n
  OBVIOUS
<1>2. (a + 1) * n = a * n + n
  OBVIOUS
<1> QED BY <1>1, <1>2

\* A byte of two hex digits, and a word of eight.
Pair(a, b) == a * Nibble + b
WordOf(d) ==
  ((Pair(d[1], d[2]) * Byte + Pair(d[3], d[4])) * Byte + Pair(d[5], d[6])) * Byte + Pair(d[7], d[8])
Digit == 0 .. Nibble - 1
EightDigits == [1 .. 8 -> Digit]

\* No base is zero.
LEMMA Sizes == /\ Nibble \in Nat \ {0} /\ Byte \in Nat \ {0} /\ Byte * Byte \in Nat \ {0}
               /\ Byte * Byte * Byte \in Nat \ {0} /\ Word \in Nat \ {0}
<1>1. Nibble \in Nat \ {0}
  BY ReactorAssumption
<1>2. \A m, n \in Nat \ {0} : m * n \in Nat \ {0}
  OBVIOUS
<1>3. Byte \in Nat \ {0}
  BY <1>1, <1>2 DEF Byte
<1>4. Byte * Byte \in Nat \ {0}
  BY <1>2, <1>3
<1>5. Byte * Byte * Byte \in Nat \ {0}
  BY <1>2, <1>3, <1>4
<1>6. Word \in Nat \ {0}
  BY <1>2, <1>3, <1>5 DEF Word
<1> QED BY <1>1, <1>3, <1>4, <1>5, <1>6

\* Four bytes.
Bytes(w, x, y, z) == ((w * Byte + x) * Byte + y) * Byte + z

\* Where such a word can be cut.
LEMMA BytesSplit ==
  ASSUME NEW w \in 0 .. Byte - 1, NEW x \in 0 .. Byte - 1, NEW y \in 0 .. Byte - 1, NEW z \in 0 .. Byte - 1
  PROVE  /\ Bytes(w, x, y, z) \in 0 .. Word - 1
         /\ Bytes(w, x, y, z) = ((w * Byte + x) * Byte + y) * Byte + z
         /\ Bytes(w, x, y, z) = (w * Byte + x) * (Byte * Byte) + (y * Byte + z)
         /\ Bytes(w, x, y, z) = w * (Byte * Byte * Byte) + ((x * Byte + y) * Byte + z)
         /\ w * Byte + x \in 0 .. Byte * Byte - 1 /\ y * Byte + z \in 0 .. Byte * Byte - 1
         /\ x * Byte + y \in 0 .. Byte * Byte - 1
         /\ (w * Byte + x) * Byte + y \in 0 .. Byte * Byte * Byte - 1
         /\ (x * Byte + y) * Byte + z \in 0 .. Byte * Byte * Byte - 1
<1> DEFINE b == Byte
           bb == Byte * Byte
           bbb == Byte * Byte * Byte
<1>1. b \in Nat \ {0} /\ bb \in Nat \ {0} /\ bbb \in Nat \ {0}
  BY Sizes
<1>2. bb = b * b /\ bbb = bb * b /\ Word = bbb * b
  BY DEF Word
<1>3. w \in 0 .. b - 1 /\ x \in 0 .. b - 1 /\ y \in 0 .. b - 1 /\ z \in 0 .. b - 1
  OBVIOUS
<1> HIDE DEF bb, bbb
<1>4. w * b + x \in 0 .. bb - 1 /\ y * b + z \in 0 .. bb - 1 /\ x * b + y \in 0 .. bb - 1
  BY <1>1, <1>2, <1>3, TwoDigits
<1>5. (w * b + x) * b + y \in 0 .. bbb - 1 /\ (x * b + y) * b + z \in 0 .. bbb - 1
  BY <1>1, <1>2, <1>3, <1>4, TwoDigits
<1>6. ((w * b + x) * b + y) * b + z \in 0 .. Word - 1
  BY <1>1, <1>2, <1>3, <1>5, TwoDigits
<1>7. \A p, q \in Int : (p * b + q) * b = p * bb + q * b
  BY <1>1, <1>2
<1>8. \A p, q \in Int : (p * bb + q) * b = p * bbb + q * b
  BY <1>1, <1>2
<1>9. ((w * b + x) * b + y) * b + z = (w * b + x) * bb + (y * b + z)
  <2>1. w * b + x \in Int /\ y * b \in Int
    BY <1>1, <1>3
  <2> QED BY <1>1, <1>3, <1>7, <2>1
<1>10. ((w * b + x) * b + y) * b + z = w * bbb + ((x * b + y) * b + z)
  <2>1. (w * b + x) * b + y = w * bb + (x * b + y)
    BY <1>1, <1>3, <1>7
  <2>2. x * b + y \in Int /\ w * bb \in Int
    BY <1>1, <1>3
  <2>3. (w * bb + (x * b + y)) * b = w * bbb + (x * b + y) * b
    BY <1>3, <1>8, <2>2
  <2> QED BY <1>1, <1>3, <2>1, <2>2, <2>3
<1> QED BY <1>4, <1>5, <1>6, <1>9, <1>10 DEF Bytes, bb, bbb

\* exit_forming_loop turns wxyz into zxwy.
LEMMA ReorderedBytes ==
  ASSUME NEW w \in 0 .. Byte - 1, NEW x \in 0 .. Byte - 1, NEW y \in 0 .. Byte - 1, NEW z \in 0 .. Byte - 1
  PROVE  Reordered(Bytes(w, x, y, z)) = Bytes(z, x, w, y)
<1> DEFINE b == Byte
           bb == Byte * Byte
           bbb == Byte * Byte * Byte
           v == Bytes(w, x, y, z)
<1>1. b \in Nat \ {0} /\ bb \in Nat \ {0} /\ bbb \in Nat \ {0} /\ Word \in Nat \ {0}
  BY Sizes
<1>2. bb = b * b /\ bbb = bb * b /\ Word = bbb * b
  BY DEF Word
<1>3. w \in 0 .. b - 1 /\ x \in 0 .. b - 1 /\ y \in 0 .. b - 1 /\ z \in 0 .. b - 1
  OBVIOUS
<1>4. /\ v = ((w * b + x) * b + y) * b + z /\ v = (w * b + x) * bb + (y * b + z)
      /\ v = w * bbb + ((x * b + y) * b + z)
      /\ w * b + x \in 0 .. bb - 1 /\ y * b + z \in 0 .. bb - 1
      /\ (w * b + x) * b + y \in 0 .. bbb - 1
      /\ (x * b + y) * b + z \in 0 .. bbb - 1
  BY BytesSplit
<1> HIDE DEF bb, bbb, v
<1>5. Shl(v, b) = ((x * b + y) * b + z) * b
  <2> DEFINE r == (x * b + y) * b + z
  <2>1. r \in 0 .. bbb - 1 /\ v = w * bbb + r
    BY <1>4
  <2> HIDE DEF r
  <2>2. v * b = w * Word + r * b
    BY <1>1, <1>2, <1>3, <2>1
  <2>3. r * b + 0 \in 0 .. Word - 1
    BY <1>1, <1>2, <2>1, TwoDigits
  <2>4. w \in Nat /\ r * b \in 0 .. Word - 1
    BY <1>1, <1>3, <2>1, <2>3
  <2> DEFINE t == r * b
  <2>5. t \in 0 .. Word - 1 /\ v * b = w * Word + t
    BY <2>2, <2>4
  <2> HIDE DEF t
  <2>6. (w * Word + t) % Word = t
    BY <1>1, <2>4, <2>5, DivMod
  <2> QED BY <2>5, <2>6 DEF Shl, r, t
<1>6. AndSecondByte(((x * b + y) * b + z) * b) = z * b
  <2> DEFINE s == ((x * b + y) * b + z) * b
             r == (x * b + y) * b + z
             q == x * b + y
  <2>1. q \in Nat /\ r \in Nat /\ s = r * b + 0 /\ s \in Nat
    BY <1>1, <1>3
  <2>2. s = q * bb + z * b
    <3>1. r = q * b + z /\ s = r * b
      OBVIOUS
    <3> HIDE DEF q, r, s
    <3> QED BY <1>1, <1>2, <1>3, <2>1, <3>1
  <2>3. z * b + 0 \in 0 .. bb - 1
    BY <1>1, <1>2, <1>3, TwoDigits
  <2>4. z * b \in 0 .. bb - 1
    BY <1>1, <1>3, <2>3
  <2> HIDE DEF q, r, s
  <2>5. s % bb = z * b
    <3> DEFINE t == z * b
    <3>1. t \in 0 .. bb - 1 /\ s = q * bb + t
      BY <2>2, <2>4
    <3> HIDE DEF t
    <3>2. (q * bb + t) % bb = t
      BY <1>1, <2>1, <3>1, DivMod
    <3> QED BY <3>1, <3>2 DEF t
  <2>6. s % b = 0
    BY <1>1, <2>1, DivMod
  <2> QED BY <2>4, <2>5, <2>6 DEF AndSecondByte, bb, s
<1>7. AndByte(Shr(v, bb)) = x
  <2>1. v \div bb = w * b + x
    BY <1>1, <1>3, <1>4, DivMod
  <2>2. w \in Nat /\ (w * b + x) % b = x
    BY <1>1, <1>3, DivMod
  <2> QED BY <2>1, <2>2 DEF AndByte, Shr
<1>8. Shr(v, bbb) = w
  BY <1>1, <1>3, <1>4, DivMod DEF Shr
<1>9. AndByte(Shr(v, b)) = y
  <2>1. v \div b = (w * b + x) * b + y
    BY <1>1, <1>3, <1>4, DivMod
  <2>2. w * b + x \in Nat
    BY <1>4
  <2> QED BY <1>1, <1>3, <2>1, <2>2, DivMod DEF AndByte, Shr
<1>10. ASSUME NEW p \in 0 .. Word - 1, p < bbb, NEW q \in 0 .. b - 1
       PROVE  Shl(p, b) = p * b /\ Add(p * b, q) = p * b + q /\ p * b + q \in 0 .. Word - 1
  <2>1. p * b + q \in 0 .. Word - 1 /\ p * b + 0 \in 0 .. Word - 1
    BY <1>1, <1>2, <1>10, TwoDigits
  <2>2. \A n \in 0 .. Word - 1 : n % Word = n
    BY <1>1
  <2> QED BY <1>1, <2>1, <2>2 DEF Shl, Add
<1>11. \A n \in 0 .. Word - 1 : n % Word = n
  BY <1>1
<1>12. b <= bb /\ bb <= bbb /\ bbb <= Word
  BY <1>1, <1>2
<1>13. Add(z * b, x) = z * b + x /\ z * b + x \in 0 .. bb - 1
  <2>1. z * b + x \in 0 .. bb - 1
    BY <1>1, <1>2, <1>3, TwoDigits
  <2> QED BY <1>1, <1>11, <1>12, <2>1 DEF Add
<1>14. /\ Shl(z * b + x, b) = (z * b + x) * b
       /\ Add((z * b + x) * b, w) = (z * b + x) * b + w
       /\ (z * b + x) * b + w \in 0 .. bbb - 1
  <2> DEFINE p == z * b + x
  <2>1. p \in 0 .. bb - 1
    BY <1>13
  <2> HIDE DEF p
  <2>2. p \in 0 .. Word - 1 /\ p < bbb
    BY <1>1, <1>12, <2>1
  <2>3. p * b + w \in 0 .. bbb - 1
    BY <1>1, <1>2, <1>3, <2>1, TwoDigits
  <2> QED BY <1>3, <1>10, <2>2, <2>3 DEF p
<1>15. /\ Shl((z * b + x) * b + w, b) = ((z * b + x) * b + w) * b
       /\ Add(((z * b + x) * b + w) * b, y) = ((z * b + x) * b + w) * b + y
  <2> DEFINE p == (z * b + x) * b + w
  <2>1. p \in 0 .. bbb - 1
    BY <1>14
  <2> HIDE DEF p
  <2>2. p \in 0 .. Word - 1 /\ p < bbb
    BY <1>1, <1>12, <2>1
  <2> QED BY <1>3, <1>10, <2>2 DEF p
<1> QED
  BY <1>5, <1>6, <1>7, <1>8, <1>9, <1>13, <1>14, <1>15 DEF Reordered, Bytes, bb, bbb, v

\* The two digits of the byte that is at the place p.
Placed(h, a, c, p, r) == (h * Byte + Pair(a, c)) * p + r

LEMMA HalfBytes ==
  ASSUME NEW p \in Nat \ {0}, NEW h \in Nat, NEW a \in Digit, NEW c \in Digit, NEW r \in 0 .. p - 1
  PROVE  /\ (Placed(h, a, c, p, r) \div p) % Nibble = c
         /\ (Placed(h, a, c, p, r) \div (p * Nibble)) % Nibble = a
<1> DEFINE n == Nibble
           v == Placed(h, a, c, p, r)
           q == h * n + a
           u == h * Byte + Pair(a, c)
<1>1. n \in Nat \ {0} /\ Byte = n * n /\ a \in 0 .. n - 1 /\ c \in 0 .. n - 1
  BY Sizes DEF Byte, Digit
<1>2. q \in Nat /\ q % n = a
  <2>1. q \in Nat
    BY <1>1
  <2>2. (h * n + a) % n = a
    BY <1>1, DivMod
  <2> QED BY <2>1, <2>2
<1>3. u = q * n + c
  BY <1>1 DEF Pair
<1>4. u \in Nat /\ v = u * p + r
  <2>1. u \in Nat
    BY <1>1, <1>2, <1>3
  <2> QED BY <2>1 DEF Placed
<1> HIDE DEF v
<1>5. (v \div p) % n = c
  <2> HIDE DEF q, u
  <2>1. v \div p = u
    BY <1>4, DivMod
  <2>2. (q * n + c) % n = c
    BY <1>1, <1>2, DivMod
  <2> QED BY <1>3, <2>1, <2>2
<1>6. (v \div (p * n)) % n = a
  <2> HIDE DEF q, u
  <2> DEFINE pn == p * n
             t == c * p + r
  <2>1. v = q * pn + t
    <3>1. (q * n + c) * p = q * (p * n) + c * p
      BY <1>1, <1>2
    <3>2. q * (p * n) \in Int /\ c * p \in Int
      BY <1>1, <1>2
    <3> QED BY <1>3, <1>4, <3>1, <3>2
  <2>2. t \in 0 .. pn - 1
    <3>1. c * p + r \in 0 .. n * p - 1
      BY <1>1, TwoDigits
    <3>2. n * p = p * n
      BY <1>1
    <3> QED BY <3>1, <3>2
  <2>3. pn \in Nat \ {0}
    BY <1>1
  <2> HIDE DEF pn, t
  <2>4. v \div pn = q
    BY <1>2, <2>1, <2>2, <2>3, DivMod
  <2> QED BY <1>2, <2>4 DEF pn
<1> QED BY <1>5, <1>6 DEF v

\* A word is eight digits, ...
LEMMA WordOfDigits ==
  ASSUME NEW d \in EightDigits
  PROVE  /\ WordOf(d) \in 0 .. Word - 1
         /\ HexDigits(WordOf(d)) = d
         /\ WordOf(d) = Bytes(Pair(d[1], d[2]), Pair(d[3], d[4]), Pair(d[5], d[6]), Pair(d[7], d[8]))
         /\ Pair(d[1], d[2]) \in 0 .. Byte - 1 /\ Pair(d[3], d[4]) \in 0 .. Byte - 1
         /\ Pair(d[5], d[6]) \in 0 .. Byte - 1 /\ Pair(d[7], d[8]) \in 0 .. Byte - 1
<1> DEFINE n == Nibble
           b == Byte
           bb == Byte * Byte
           bbb == Byte * Byte * Byte
           w == Pair(d[1], d[2])
           x == Pair(d[3], d[4])
           y == Pair(d[5], d[6])
           z == Pair(d[7], d[8])
           v == WordOf(d)
<1>1. n \in Nat \ {0} /\ b \in Nat \ {0} /\ bb \in Nat \ {0} /\ bbb \in Nat \ {0} /\ Word \in Nat \ {0}
  BY Sizes
<1>2. b = n * n /\ bb = b * b /\ bbb = bb * b /\ Word = bbb * b
  BY DEF Word, Byte
<1>3. \A i \in 1 .. 8 : d[i] \in 0 .. n - 1
  BY DEF EightDigits, Digit
<1>4. \A p, q \in 0 .. n - 1 : /\ Pair(p, q) \in 0 .. b - 1
                               /\ Pair(p, q) \div n = p /\ Pair(p, q) % n = q
  <2> SUFFICES ASSUME NEW p \in 0 .. n - 1, NEW q \in 0 .. n - 1
               PROVE  Pair(p, q) \in 0 .. b - 1 /\ Pair(p, q) \div n = p /\ Pair(p, q) % n = q
    OBVIOUS
  <2>1. p * n + q \in 0 .. b - 1
    BY <1>1, <1>2, TwoDigits
  <2> QED BY <1>1, <2>1, DivMod DEF Pair
<1>5. /\ d[1] \in 0 .. n - 1 /\ d[2] \in 0 .. n - 1 /\ d[3] \in 0 .. n - 1 /\ d[4] \in 0 .. n - 1
      /\ d[5] \in 0 .. n - 1 /\ d[6] \in 0 .. n - 1 /\ d[7] \in 0 .. n - 1 /\ d[8] \in 0 .. n - 1
  BY <1>3
<1>6. w \in 0 .. b - 1 /\ x \in 0 .. b - 1 /\ y \in 0 .. b - 1 /\ z \in 0 .. b - 1
  BY <1>4, <1>5
<1>7. /\ w \div n = d[1] /\ w % n = d[2] /\ x \div n = d[3] /\ x % n = d[4]
      /\ y \div n = d[5] /\ y % n = d[6] /\ z \div n = d[7] /\ z % n = d[8]
  BY <1>4, <1>5
<1>8. v = Bytes(w, x, y, z)
  BY DEF WordOf, Bytes
<1>9. /\ v \in 0 .. Word - 1
      /\ v = ((w * b + x) * b + y) * b + z
      /\ v = (w * b + x) * bb + (y * b + z) /\ v = w * bbb + ((x * b + y) * b + z)
      /\ w * b + x \in 0 .. bb - 1 /\ y * b + z \in 0 .. bb - 1
      /\ (w * b + x) * b + y \in 0 .. bbb - 1
      /\ (x * b + y) * b + z \in 0 .. bbb - 1
  BY <1>6, <1>8, BytesSplit
<1> HIDE DEF v
<1>10. (v \div 1) % n = d[8] /\ (v \div (1 * n)) % n = d[7]
  <2> DEFINE h == (w * b + x) * b + y
  <2>1. h \in Nat /\ d[7] \in Digit /\ d[8] \in Digit /\ 1 \in Nat \ {0} /\ 0 \in 0 .. 1 - 1
    BY <1>5, <1>9 DEF Digit
  <2>2. v = Placed(h, d[7], d[8], 1, 0)
    BY <1>9 DEF Placed
  <2> HIDE DEF h, n
  <2> QED BY <2>1, <2>2, HalfBytes DEF n
<1>11. (v \div b) % n = d[6] /\ (v \div (b * n)) % n = d[5]
  <2> DEFINE h == w * b + x
  <2>1. h \in Nat /\ d[5] \in Digit /\ d[6] \in Digit /\ b \in Nat \ {0} /\ z \in 0 .. b - 1
    BY <1>1, <1>5, <1>6, <1>9 DEF Digit
  <2>2. v = Placed(h, d[5], d[6], b, z)
    BY <1>9 DEF Placed
  <2> HIDE DEF h, b, z
  <2> QED BY <2>1, <2>2, HalfBytes
<1>12. (v \div bb) % n = d[4] /\ (v \div (bb * n)) % n = d[3]
  <2> DEFINE r == y * b + z
  <2>1. w \in Nat /\ d[3] \in Digit /\ d[4] \in Digit /\ bb \in Nat \ {0} /\ r \in 0 .. bb - 1
    BY <1>1, <1>5, <1>6, <1>9 DEF Digit
  <2>2. v = Placed(w, d[3], d[4], bb, r)
    BY <1>9 DEF Placed
  <2> HIDE DEF w, bb, r
  <2> QED BY <2>1, <2>2, HalfBytes
<1>13. (v \div bbb) % n = d[2] /\ (v \div (bbb * n)) % n = d[1]
  <2> DEFINE r == (x * b + y) * b + z
  <2>1. d[1] \in Digit /\ d[2] \in Digit /\ bbb \in Nat \ {0} /\ r \in 0 .. bbb - 1 /\ 0 \in Nat
    BY <1>1, <1>5, <1>9 DEF Digit
  <2>2. 0 * Byte + w = w
    BY <1>1, <1>6
  <2>3. v = Placed(0, d[1], d[2], bbb, r)
    BY <1>9, <2>2 DEF Placed
  <2> HIDE DEF bbb, r
  <2> QED BY <2>1, <2>3, HalfBytes
<1>14. 1 * n = n
  BY <1>1
<1>15. HexDigits(v) = d
  <2> HIDE DEF v, w, x, y, z
  <2>1. d = [i \in 1 .. 8 |-> d[i]]
    BY DEF EightDigits
  <2>2. \A i \in 1 .. 8 : i = 1 \/ i = 2 \/ i = 3 \/ i = 4 \/ i = 5 \/ i = 6 \/ i = 7 \/ i = 8
    OBVIOUS
  <2>3. /\ Place[1] = bbb * n /\ Place[2] = bbb /\ Place[3] = bb * n /\ Place[4] = bb
        /\ Place[5] = b * n /\ Place[6] = b /\ Place[7] = n /\ Place[8] = 1
    BY DEF Place
  <2>4. \A i \in 1 .. 8 : (v \div Place[i]) % n = d[i]
    <3> HIDE DEF n, b, bb, bbb
    <3> QED BY <1>10, <1>11, <1>12, <1>13, <1>14, <2>2, <2>3
  <2>5. HexDigits(v) = [i \in 1 .. 8 |-> (v \div Place[i]) % n]
    BY DEF HexDigits
  <2> QED BY <2>1, <2>4, <2>5
<1> QED BY <1>6, <1>8, <1>9, <1>15 DEF v

\* ... and eight digits are a word.
LEMMA DigitsOfWord ==
  ASSUME NEW v \in 0 .. Word - 1
  PROVE  HexDigits(v) \in EightDigits /\ WordOf(HexDigits(v)) = v
<1> DEFINE n == Nibble
           b == Byte
           bb == Byte * Byte
           bbb == Byte * Byte * Byte
<1>1. n \in Nat \ {0} /\ b \in Nat \ {0} /\ bb \in Nat \ {0} /\ bbb \in Nat \ {0} /\ Word \in Nat \ {0}
  BY Sizes
<1>2. b = n * n /\ bb = b * b /\ bbb = bb * b /\ Word = bbb * b
  BY DEF Word, Byte
<1> HIDE DEF n, b, bb, bbb
<1>3. v \in 0 .. bbb * b - 1
  BY <1>2
<1> DEFINE p3 == v \div b
           z == v % b
           p2 == p3 \div b
           y == p3 % b
           w == p2 \div b
           x == p2 % b
<1>4. p3 \in 0 .. bb * b - 1 /\ z \in 0 .. n * n - 1 /\ v = p3 * b + z
  BY <1>1, <1>2, <1>3, Divided
<1> HIDE DEF p3, z
<1>5. p2 \in 0 .. b * b - 1 /\ y \in 0 .. n * n - 1 /\ p3 = p2 * b + y
  BY <1>1, <1>2, <1>4, Divided
<1> HIDE DEF p2, y
<1>6. w \in 0 .. n * n - 1 /\ x \in 0 .. n * n - 1 /\ p2 = w * b + x
  BY <1>1, <1>2, <1>5, Divided
<1> HIDE DEF w, x
<1>7. ASSUME NEW u \in 0 .. n * n - 1
      PROVE  u \div n \in 0 .. n - 1 /\ u % n \in 0 .. n - 1 /\ u = (u \div n) * n + (u % n)
  BY <1>1, Divided
<1>8. PICK d1, d2 \in 0 .. n - 1 : w = d1 * n + d2
  BY <1>6, <1>7
<1>9. PICK d3, d4 \in 0 .. n - 1 : x = d3 * n + d4
  BY <1>6, <1>7
<1>10. PICK d5, d6 \in 0 .. n - 1 : y = d5 * n + d6
  BY <1>5, <1>7
<1>11. PICK d7, d8 \in 0 .. n - 1 : z = d7 * n + d8
  BY <1>4, <1>7
<1> DEFINE d == <<d1, d2, d3, d4, d5, d6, d7, d8>>
<1>12. d \in EightDigits
  BY DEF EightDigits, Digit, n
<1>13. WordOf(d) = v
  BY <1>4, <1>5, <1>6, <1>8, <1>9, <1>10, <1>11 DEF WordOf, Pair, n, b
<1> HIDE DEF d
<1> QED BY <1>12, <1>13, WordOfDigits

\* A word times the base: what the highest digit gives, and the other digits one place up.
LEMMA HighestDigit ==
  ASSUME NEW n \in Int, NEW a1 \in Int, NEW a2 \in Int, NEW a3 \in Int, NEW a4 \in Int,
         NEW a5 \in Int, NEW a6 \in Int, NEW a7 \in Int, NEW a8 \in Int
  PROVE  ((((a1 * n + a2) * (n * n) + (a3 * n + a4)) * (n * n) + (a5 * n + a6)) * (n * n) + (a7 * n + a8)) * n
         = a1 * ((n * n) * (n * n) * (n * n) * (n * n))
           + ((((a2 * n + a3) * (n * n) + (a4 * n + a5)) * (n * n) + (a6 * n + a7)) * (n * n) + (a8 * n + 0))
  OBVIOUS

\* forming_loop shifts a digit in.
LEMMA ShiftedIn ==
  ASSUME NEW v \in 0 .. Word - 1, NEW e \in Digit
  PROVE  /\ HexDigits(Add(Shl(v, Nibble), e))[8] = e
         /\ \A i \in 1 .. 7 : HexDigits(Add(Shl(v, Nibble), e))[i] = HexDigits(v)[i + 1]
<1> DEFINE n == Nibble
           b == Byte
           d == HexDigits(v)
           t == <<d[2], d[3], d[4], d[5], d[6], d[7], d[8], e>>
           s == <<d[2], d[3], d[4], d[5], d[6], d[7], d[8], 0>>
<1>1. n \in Nat \ {0} /\ b \in Nat \ {0} /\ Word \in Nat \ {0} /\ b = n * n /\ Word = b * b * b * b
  BY Sizes DEF Word, Byte
<1>2. d \in EightDigits /\ WordOf(d) = v
  BY DigitsOfWord
<1>3. \A i \in 1 .. 8 : d[i] \in 0 .. n - 1
  BY <1>2 DEF EightDigits, Digit
<1>4. e \in 0 .. n - 1 /\ 0 \in 0 .. n - 1
  BY <1>1 DEF Digit
<1> HIDE DEF d
<1>5. /\ d[1] \in 0 .. n - 1 /\ d[2] \in 0 .. n - 1 /\ d[3] \in 0 .. n - 1 /\ d[4] \in 0 .. n - 1
      /\ d[5] \in 0 .. n - 1 /\ d[6] \in 0 .. n - 1 /\ d[7] \in 0 .. n - 1 /\ d[8] \in 0 .. n - 1
  BY <1>3
<1>6. t \in EightDigits /\ s \in EightDigits
  BY <1>4, <1>5 DEF EightDigits, Digit
<1>7. WordOf(t) \in 0 .. Word - 1 /\ WordOf(s) \in 0 .. Word - 1 /\ HexDigits(WordOf(t)) = t
  BY <1>6, WordOfDigits
<1>8. WordOf(t) = WordOf(s) + e
  <2> DEFINE p == ((Pair(d[2], d[3]) * b + Pair(d[4], d[5])) * b + Pair(d[6], d[7])) * b
  <2>1. WordOf(t) = p + (d[8] * n + e) /\ WordOf(s) = p + (d[8] * n + 0)
    BY DEF WordOf, Pair
  <2>2. p \in Int /\ d[8] * n \in Int
    BY <1>1, <1>5 DEF Pair
  <2> HIDE DEF p
  <2> QED BY <1>4, <2>1, <2>2
<1>9. v * n = d[1] * Word + WordOf(s)
  <2>2. v = (((d[1] * n + d[2]) * (n * n) + (d[3] * n + d[4])) * (n * n) + (d[5] * n + d[6])) * (n * n)
              + (d[7] * n + d[8])
    BY <1>2 DEF WordOf, Pair, Byte
  <2>3. WordOf(s) =
          (((d[2] * n + d[3]) * (n * n) + (d[4] * n + d[5])) * (n * n) + (d[6] * n + d[7])) * (n * n)
                      + (d[8] * n + 0)
    BY DEF WordOf, Pair, Byte
  <2>4. Word = (n * n) * (n * n) * (n * n) * (n * n)
    BY DEF Word, Byte
  <2>5. n \in Int /\ \A i \in 1 .. 8 : d[i] \in Int
    BY <1>1, <1>3
  <2> HIDE DEF n, s
  <2> QED BY <1>5, <2>2, <2>3, <2>4, <2>5, HighestDigit
<1>10. Shl(v, n) = WordOf(s)
  <2> DEFINE r == WordOf(s)
  <2>1. r \in 0 .. Word - 1 /\ d[1] \in Nat /\ v * n = d[1] * Word + r
    BY <1>5, <1>7, <1>9
  <2> HIDE DEF r, s
  <2>2. (d[1] * Word + r) % Word = r
    BY <1>1, <2>1, DivMod
  <2> QED BY <2>1, <2>2 DEF Shl, r
<1>11. Add(Shl(v, n), e) = WordOf(t)
  <2>1. \A u \in 0 .. Word - 1 : u % Word = u
    BY <1>1
  <2>2. WordOf(t) % Word = WordOf(t)
    BY <1>7, <2>1
  <2> QED BY <1>8, <1>10, <2>2 DEF Add
<1>12. t[8] = e /\ \A i \in 1 .. 7 : t[i] = d[i + 1]
  <2>1. \A i \in 1 .. 7 : i = 1 \/ i = 2 \/ i = 3 \/ i = 4 \/ i = 5 \/ i = 6 \/ i = 7
    OBVIOUS
  <2> QED BY <2>1
<1> HIDE DEF t
<1> QED BY <1>7, <1>11, <1>12 DEF d, n

-----------------------------------------------------------------------------
(* The verdict.                                                            *)

\* The recursive function of Sums, up to the n-th character.
SumsUpTo(f, ch, n) ==
  f = [i \in 0 .. n |-> IF i = 0 THEN 0 ELSE SumRound(f[i - 1], ch[i])]

\* It exists, so that Sums is what its recursion says.
LEMMA SumsDefined ==
  ASSUME NEW ch \in Seq(Nat \ {0})
  PROVE  /\ Sums(ch)[0] = 0
         /\ \A n \in 1 .. Len(ch) : Sums(ch)[n] = SumRound(Sums(ch)[n - 1], ch[n])
         /\ \A n \in 0 .. Len(ch) : Sums(ch)[n] \in Nat
<1> DEFINE k == Len(ch)
           G == {n \in Nat : \E f : SumsUpTo(f, ch, n)}
<1>0. k \in Nat /\ \A i \in 1 .. k : ch[i] \in Nat
  OBVIOUS
<1>1. 0 \in G
  <2>1. SumsUpTo([i \in 0 .. 0 |-> 0], ch, 0)
    BY DEF SumsUpTo
  <2> QED BY <2>1
<1>2. ASSUME NEW n \in Nat, n \in G PROVE n + 1 \in G
  <2>1. PICK f : SumsUpTo(f, ch, n)
    BY <1>2
  <2> DEFINE g == [i \in 0 .. n + 1 |-> IF i = n + 1 THEN SumRound(f[i - 1], ch[i]) ELSE f[i]]
  <2>2. ASSUME NEW i \in 0 .. n + 1
        PROVE  g[i] = IF i = 0 THEN 0 ELSE SumRound(g[i - 1], ch[i])
    <3>1. CASE i = n + 1
      <4>1. i # 0 /\ n \in 0 .. n + 1 /\ n # n + 1 /\ i - 1 = n
        BY <3>1
      <4> QED BY <3>1, <4>1
    <3>2. CASE i \in 0 .. n
      <4>1. i # n + 1 /\ (i # 0 => i - 1 \in 0 .. n + 1 /\ i - 1 # n + 1)
        BY <3>2
      <4> QED BY <2>1, <3>2, <4>1 DEF SumsUpTo
    <3> QED BY <3>1, <3>2
  <2>3. SumsUpTo(g, ch, n + 1)
    <3> HIDE DEF g
    <3>1. g = [i \in 0 .. n + 1 |-> g[i]]
      BY DEF g
    <3> QED BY <2>2, <3>1 DEF SumsUpTo
  <2> HIDE DEF g
  <2> QED BY <2>3
<1>3. Nat \subseteq G
  <2> HIDE DEF G
  <2> QED BY <1>1, <1>2, Induction
<1>4. PICK f : SumsUpTo(f, ch, k)
  BY <1>0, <1>3
<1> DEFINE h == CHOOSE h : h = [i \in 0 .. k |-> IF i = 0 THEN 0 ELSE SumRound(h[i - 1], ch[i])]
<1>5. SumsUpTo(h, ch, k)
  BY <1>4 DEF SumsUpTo
<1>6. Sums(ch) = h
  BY DEF Sums
<1> HIDE DEF h
<1>7. h[0] = 0 /\ \A n \in 1 .. k : h[n] = SumRound(h[n - 1], ch[n])
  <2>1. 0 \in 0 .. k /\ \A n \in 1 .. k : n \in 0 .. k /\ n # 0
    BY <1>0
  <2> QED BY <1>5, <2>1 DEF SumsUpTo
<1> DEFINE T == {n \in Nat : n <= k => h[n] \in Nat}
<1>8. 0 \in T
  BY <1>7
<1>9. ASSUME NEW n \in Nat, n \in T PROVE n + 1 \in T
  <2> SUFFICES ASSUME n + 1 <= k PROVE h[n + 1] \in Nat
    OBVIOUS
  <2>1. h[n] \in Nat /\ ch[n + 1] \in Nat /\ n + 1 \in 1 .. k /\ (n + 1) - 1 = n
    BY <1>0, <1>9
  <2>2. h[n + 1] = SumRound(h[n], ch[n + 1])
    BY <1>7, <2>1
  <2> QED BY <2>1, <2>2 DEF SumRound
<1>10. \A n \in 0 .. k : h[n] \in Nat
  <2>1. Nat \subseteq T
    <3> HIDE DEF T
    <3> QED BY <1>8, <1>9, Induction
  <2> QED BY <1>0, <2>1
<1> QED BY <1>6, <1>7, <1>10

\* A round of checksum_loop does to the last digits what solution.py does to the whole number.
LEMMA RoundIsSum ==
  ASSUME NEW s \in Nat, NEW c \in Nat
  PROVE  ChecksumRound(s % Word, c) = SumRound(s, c) % Word
<1>1. Word \in Nat \ {0}
  BY Sizes
<1> DEFINE w == Word
<1> HIDE DEF w
<1>2. \A a, b \in Nat : ((a % w) + b) % w = (a + b) % w /\ ((a % w) * 4) % w = (a * 4) % w
  <2> SUFFICES ASSUME NEW a \in Nat, NEW b \in Nat
               PROVE  ((a % w) + b) % w = (a + b) % w /\ ((a % w) * 4) % w = (a * 4) % w
    OBVIOUS
  <2>0. w \in Nat \ {0}
    BY <1>1 DEF w
  <2> DEFINE q == a \div w
             r == a % w
  <2>1. q \in Nat /\ r \in 0 .. w - 1 /\ a = q * w + r
    BY <2>0
  <2> HIDE DEF q, r
  <2>2. ASSUME NEW m \in Nat, NEW l \in Nat PROVE (m * w + l) % w = l % w
    <3> DEFINE p == l \div w
               t == l % w
    <3>1. p \in Nat /\ t \in 0 .. w - 1 /\ l = p * w + t
      BY <2>0
    <3> HIDE DEF p, t
    <3>2. m * w + l = (m + p) * w + t /\ m + p \in Nat
      BY <2>0, <3>1
    <3>3. ((m + p) * w + t) % w = t
      BY <2>0, <3>1, <3>2, DivMod
    <3> QED BY <3>2, <3>3 DEF t
  <2>3. (q * w + (r + b)) % w = (r + b) % w
    BY <2>1, <2>2
  <2>4. a + b = q * w + (r + b)
    BY <2>0, <2>1
  <2>5. ((q * 4) * w + (r * 4)) % w = (r * 4) % w
    BY <2>1, <2>2
  <2>6. a * 4 = (q * 4) * w + (r * 4)
    BY <2>0, <2>1
  <2> QED BY <2>3, <2>4, <2>5, <2>6 DEF r
<1>3. Add(s % w, c) = (s + c) % w
  BY <1>2 DEF Add, w
<1>4. Add((s + c) % w, 47806) = (s + c + 47806) % w
  <2>1. s + c \in Nat /\ 47806 \in Nat
    OBVIOUS
  <2>2. (((s + c) % w) + 47806) % w = (s + c + 47806) % w
    BY <1>2, <2>1
  <2> QED BY <2>2 DEF Add, w
<1>5. Shl((s + c + 47806) % w, 4) = ((s + c + 47806) * 4) % w
  <2>1. s + c + 47806 \in Nat /\ 47806 \in Nat
    OBVIOUS
  <2>2. (((s + c + 47806) % w) * 4) % w = ((s + c + 47806) * 4) % w
    BY <1>2, <2>1
  <2> QED BY <2>2 DEF Shl, w
<1> QED BY <1>3, <1>4, <1>5 DEF ChecksumRound, SumRound, w

\* REG6 ends with the last digits of a text, as many as there are.
Holds(v, digits) ==
  \A j \in 1 .. 8 : j <= Len(digits) => HexDigits(v)[9 - j] = digits[Len(digits) + 1 - j]

\* forming_loop shifts one digit more into REG6, ...
LEMMA HoldsNext ==
  ASSUME NEW v \in 0 .. Word - 1, NEW digits \in Seq(Digit), NEW e \in Digit, Holds(v, digits)
  PROVE  Holds(Add(Shl(v, Nibble), e), Append(digits, e))
<1> DEFINE n == Len(digits)
           u == Add(Shl(v, Nibble), e)
           more == Append(digits, e)
<1>1. n \in Nat /\ Len(more) = n + 1 /\ more[n + 1] = e /\ \A i \in 1 .. n : more[i] = digits[i]
  OBVIOUS
<1>2. HexDigits(u)[8] = e /\ \A i \in 1 .. 7 : HexDigits(u)[i] = HexDigits(v)[i + 1]
  BY ShiftedIn
<1> HIDE DEF n, u, more
<1> SUFFICES ASSUME NEW j \in 1 .. 8, j <= n + 1 PROVE HexDigits(u)[9 - j] = more[n + 2 - j]
  <2>1. \A j \in 1 .. 8 : (n + 1) + 1 - j = n + 2 - j
    BY <1>1
  <2>2. Holds(u, more) <=> \A j \in 1 .. 8 : j <= n + 1 => HexDigits(u)[9 - j] = more[n + 2 - j]
    BY <1>1, <2>1 DEF Holds
  <2> QED BY <2>2 DEF u, more
<1>3. CASE j = 1
  <2>1. 9 - j = 8 /\ n + 2 - j = n + 1
    BY <1>1, <1>3
  <2> QED BY <1>1, <1>2, <2>1
<1>4. CASE j # 1
  <2> DEFINE i == j - 1
  <2>1. i \in 1 .. 8 /\ i <= n /\ 9 - j \in 1 .. 7 /\ (9 - j) + 1 = 9 - i
        /\ n + 2 - j = n + 1 - i /\ n + 1 - i \in 1 .. n
    BY <1>1, <1>4
  <2>2. HexDigits(v)[9 - i] = digits[n + 1 - i]
    BY <2>1 DEF Holds, n
  <2> QED BY <1>1, <1>2, <2>1, <2>2
<1> QED BY <1>3, <1>4

\* ... and eight digits fill it.
LEMMA HoldsAll ==
  ASSUME NEW v \in 0 .. Word - 1, NEW digits \in Seq(Digit), Len(digits) >= 8, Holds(v, digits)
  PROVE  LastEight(digits) = HexDigits(v)
<1> DEFINE n == Len(digits)
           last == LastEight(digits)
<1>1. n \in Nat /\ n >= 8
  OBVIOUS
<1>2. last = [i \in 1 .. 8 |-> digits[i + (n - 8)]]
  <2>1. n - 7 \in 1 .. n + 1 /\ n \in n - 8 .. n /\ n - (n - 7) + 1 = 8
    BY <1>1
  <2>2. \A i \in 1 .. 8 : (n - 7) + i - 1 = i + (n - 8)
    BY <1>1
  <2>3. last \in Seq(Digit) /\ Len(last) = 8 /\ \A i \in 1 .. 8 : last[i] = digits[(n - 7) + i - 1]
    BY <1>1, <2>1, SubSeqProperties DEF LastEight
  <2>4. last = [i \in 1 .. 8 |-> last[i]]
    BY <2>3
  <2> HIDE DEF last
  <2> QED BY <2>2, <2>3, <2>4
<1>3. HexDigits(v) = [i \in 1 .. 8 |-> HexDigits(v)[i]]
  BY DEF HexDigits
<1>4. ASSUME NEW i \in 1 .. 8 PROVE HexDigits(v)[i] = digits[i + (n - 8)]
  <2> DEFINE j == 9 - i
  <2>1. j \in 1 .. 8 /\ j <= n /\ 9 - j = i /\ n + 1 - j = i + (n - 8)
    BY <1>1
  <2> QED BY <2>1 DEF Holds
<1> QED BY <1>2, <1>3, <1>4

\* The digits of a text, character by character.
LEMMA DigitsNext ==
  ASSUME NEW text \in Seq(Char), NEW n \in 0 .. Len(text) - 1
  PROVE  DigitsOf(SubSeq(text, 1, n + 1)) =
           IF text[n + 1] \in Digit THEN Append(DigitsOf(SubSeq(text, 1, n)), text[n + 1])
           ELSE DigitsOf(SubSeq(text, 1, n))
<1> DEFINE s == SubSeq(text, 1, n)
           e == text[n + 1]
<1>1. s \in Seq(Char) /\ e \in Char /\ <<e>> \in Seq(Char)
  OBVIOUS
<1>2. SubSeq(text, 1, n + 1) = s \o <<e>>
  OBVIOUS
<1> HIDE DEF s, e
<1>3. Keep(s \o <<e>>, Digit) = Keep(s, Digit) \o Keep(<<e>>, Digit)
  BY <1>1, KeepConcat DEF KeepsBoth
<1>4. Keep(<<e>>, Digit) = IF e \in Digit THEN <<e>> ELSE <<>>
  BY KeepOne
<1>5. Keep(s, Digit) \in Seq(Char \cap Digit)
  BY <1>1, KeepType
<1>6. \A t \in Seq(Char \cap Digit), u \in Digit : t \o <<u>> = Append(t, u) /\ t \o <<>> = t
  OBVIOUS
<1>7. \A t \in Seq(Char \cap Digit) : t \o <<>> = t
  OBVIOUS
<1>8. DigitsOf(SubSeq(text, 1, n + 1)) = Keep(s, Digit) \o Keep(<<e>>, Digit) /\ DigitsOf(s) = Keep(s, Digit)
  BY <1>2, <1>3 DEF DigitsOf, Digit
<1>9. CASE e \in Digit
  BY <1>4, <1>5, <1>6, <1>8, <1>9 DEF s, e
<1>10. CASE e \notin Digit
  BY <1>4, <1>5, <1>7, <1>8, <1>10 DEF s, e
<1> QED BY <1>9, <1>10

\* Compare: REG6 has, in its order, the digits of solution.py's answer.
LEMMA ComparesDigits ==
  ASSUME NEW a \in 0 .. Word - 1, NEW x \in 0 .. Word - 1
  PROVE  LET d == HexDigits(a)
         IN  a = Reordered(x) <=> HexDigits(x) = <<d[5], d[6], d[3], d[4], d[7], d[8], d[1], d[2]>>
<1> DEFINE d == HexDigits(a)
           e == HexDigits(x)
           f == <<e[7], e[8], e[3], e[4], e[1], e[2], e[5], e[6]>>
           g == <<d[5], d[6], d[3], d[4], d[7], d[8], d[1], d[2]>>
<1>1. d \in EightDigits /\ e \in EightDigits /\ WordOf(d) = a /\ WordOf(e) = x
  BY DigitsOfWord
<1> HIDE DEF d, e
<1>2. \A i \in 1 .. 8 : e[i] \in Digit /\ d[i] \in Digit
  BY <1>1 DEF EightDigits
<1>3. f \in EightDigits
  <2>1. f \in [1 .. 8 -> Digit]
    BY <1>2
  <2> QED BY <2>1 DEF EightDigits
<1>4. Reordered(x) = WordOf(f)
  <2>1. /\ x = Bytes(Pair(e[1], e[2]), Pair(e[3], e[4]), Pair(e[5], e[6]), Pair(e[7], e[8]))
        /\ Pair(e[1], e[2]) \in 0 .. Byte - 1 /\ Pair(e[3], e[4]) \in 0 .. Byte - 1
        /\ Pair(e[5], e[6]) \in 0 .. Byte - 1 /\ Pair(e[7], e[8]) \in 0 .. Byte - 1
    BY <1>1, WordOfDigits
  <2>2. Reordered(x) = Bytes(Pair(e[7], e[8]), Pair(e[3], e[4]), Pair(e[1], e[2]), Pair(e[5], e[6]))
    BY <2>1, ReorderedBytes
  <2> QED BY <2>2 DEF Bytes, WordOf
<1>5. a = WordOf(f) <=> d = f
  BY <1>1, <1>3, WordOfDigits
<1>6. d = f <=> e = g
  <2>1. d = [i \in 1 .. 8 |-> d[i]] /\ e = [i \in 1 .. 8 |-> e[i]]
    BY <1>1 DEF EightDigits
  <2>2. \A i \in 1 .. 8 : i = 1 \/ i = 2 \/ i = 3 \/ i = 4 \/ i = 5 \/ i = 6 \/ i = 7 \/ i = 8
    OBVIOUS
  <2>3. ASSUME d = f PROVE e = g
    BY <2>1, <2>2, <2>3
  <2>4. ASSUME e = g PROVE d = f
    BY <2>1, <2>2, <2>4
  <2> QED BY <2>3, <2>4
<1> QED BY <1>4, <1>5, <1>6 DEF d, e

\* The digits of solution.py's answer, without its dash.
LEMMA SolutionDigits ==
  ASSUME NEW ch
  PROVE  LET d == ChecksumDigits(ch)
         IN  d \in EightDigits =>
               DigitsOf(Solution(ch)) = <<d[5], d[6], d[3], d[4], d[7], d[8], d[1], d[2]>>
<1> DEFINE d == ChecksumDigits(ch)
           p == <<d[5], d[6], d[3], d[4]>>
           q == <<d[7], d[8], d[1], d[2]>>
<1> SUFFICES ASSUME d \in EightDigits
             PROVE  DigitsOf(Solution(ch)) = <<d[5], d[6], d[3], d[4], d[7], d[8], d[1], d[2]>>
  OBVIOUS
<1> HIDE DEF d
<1>1. \A i \in 1 .. 8 : d[i] \in Digit
  BY DEF EightDigits
<1>2. Digit \subseteq Char /\ Dash \in Char /\ Dash \notin Digit
  BY ReactorAssumption DEF Digit, Char, Dash, Other
<1>3. p \in Seq(Digit) /\ q \in Seq(Digit) /\ p \in Seq(Char) /\ q \in Seq(Char) /\ <<Dash>> \in Seq(Char)
  BY <1>1, <1>2
<1>4. Solution(ch) = (p \o <<Dash>>) \o q
  BY DEF Solution, d
<1>5. p \o <<Dash>> \in Seq(Char)
  BY <1>3
<1> HIDE DEF p, q
<1>6. Keep((p \o <<Dash>>) \o q, Digit) = Keep(p \o <<Dash>>, Digit) \o Keep(q, Digit)
  BY <1>3, <1>5, KeepConcat DEF KeepsBoth
<1>7. Keep(p \o <<Dash>>, Digit) = Keep(p, Digit) \o Keep(<<Dash>>, Digit)
  BY <1>3, KeepConcat DEF KeepsBoth
<1>8. Keep(p, Digit) = p /\ Keep(q, Digit) = q /\ Keep(<<Dash>>, Digit) = <<>>
  BY <1>2, <1>3, KeepAll, KeepOne
<1>9. p \o <<>> = p
  BY <1>3
<1>10. p \o q = <<d[5], d[6], d[3], d[4], d[7], d[8], d[1], d[2]>>
  <2> DEFINE r == p \o q
  <2>1. Len(p) = 4 /\ Len(q) = 4 /\ r \in Seq(Digit) /\ Len(r) = 8
    BY <1>3 DEF p, q
  <2>2. \A i \in 1 .. 8 : r[i] = IF i <= 4 THEN p[i] ELSE q[i - 4]
    BY <1>3, <2>1
  <2> HIDE DEF r
  <2>3. r = [i \in 1 .. 8 |-> r[i]]
    BY <2>1
  <2>4. \A i \in 1 .. 8 : i = 1 \/ i = 2 \/ i = 3 \/ i = 4 \/ i = 5 \/ i = 6 \/ i = 7 \/ i = 8
    OBVIOUS
  <2>5. /\ r[1] = d[5] /\ r[2] = d[6] /\ r[3] = d[3] /\ r[4] = d[4]
        /\ r[5] = d[7] /\ r[6] = d[8] /\ r[7] = d[1] /\ r[8] = d[2]
    BY <2>2 DEF p, q
  <2> DEFINE t == <<d[5], d[6], d[3], d[4], d[7], d[8], d[1], d[2]>>
  <2>6. \A i \in 1 .. 8 : r[i] = t[i]
    BY <2>4, <2>5
  <2>7. t = [i \in 1 .. 8 |-> t[i]]
    OBVIOUS
  <2> HIDE DEF t
  <2>8. r = t
    BY <2>3, <2>6, <2>7
  <2> QED BY <2>8 DEF r, t
<1> QED BY <1>4, <1>6, <1>7, <1>8, <1>9, <1>10 DEF DigitsOf, Digit

\* What the verdict needs to be known on the way: the sum so far, and that REG6 ends with
\* the digits read so far.  The flag is only right for who has compared; and a connection
\* without a response yet has none.
JudgeOf(c) ==
  /\ pc[c] = "checksum" =>
       next <= Len(challenge) + 1 /\ reg7 = Sums(challenge)[next - 1] % Word
  /\ pc[c] \in {"form", "compare"} => reg7 = Sums(challenge)[Len(challenge)] % Word
  /\ pc[c] = "form" =>
       next <= Len(response) + 1 /\ Holds(reg6, DigitsOf(SubSeq(response, 1, next - 1)))
  /\ pc[c] = "compare" => Holds(reg6, DigitsOf(response))
  /\ pc[c] = "unlock" /\ Complete(resp[c]) => (good_bad_flag <=> Solves(resp[c], chal[c]))
  /\ c \in Judged /\ Complete(resp[c]) => (iRet[c] = 0 <=> Solves(resp[c], chal[c]))
  /\ pc[c] \in {"out", "lost", "greet", "read"} => resp[c] = <<>>

JudgeInv == \A c \in Conns : JudgeOf(c)

\* The digits of a text are digits.
LEMMA DigitsType == ASSUME NEW text \in Seq(Char) PROVE DigitsOf(text) \in Seq(Digit)
<1>1. DigitsOf(text) \in Seq(Char \cap Digit)
  BY KeepType DEF DigitsOf, Digit
<1>2. Seq(Char \cap Digit) \subseteq Seq(Digit)
  OBVIOUS
<1> QED BY <1>1, <1>2

LEMMA JudgeInit == Init => JudgeInv
BY DEF Init, JudgeInv, JudgeOf, Judged

\* A step of one thread leaves what is known of the others: inside the lock there is
\* nobody else.
LEMMA JudgeOthers ==
  ASSUME OwnInv, JudgeInv, NEW c \in Conns, NEW d \in Conns, d # c,
         pc'[d] = pc[d], chal'[d] = chal[d], resp'[d] = resp[d], iRet'[d] = iRet[d],
         pc[c] \in Critical \/ UNCHANGED <<texts, machine>>
  PROVE  JudgeOf(d)'
<1>1. JudgeOf(d)
  BY DEF JudgeInv
<1>2. CASE UNCHANGED <<texts, machine>>
  BY <1>1, <1>2 DEF JudgeOf, Judged, texts, machine
<1>3. CASE pc[c] \in Critical
  <2>1. pc[d] \notin Critical
    BY <1>3 DEF OwnInv
  <2>2. pc[d] \notin {"checksum", "form", "compare", "unlock"}
    BY <2>1 DEF Critical
  <2> QED BY <1>1, <2>2 DEF JudgeOf, Judged
<1> QED BY <1>2, <1>3

\* So it is enough to know the thread that steps.
LEMMA JudgeGoto ==
  ASSUME OwnInv, JudgeInv, NEW c \in Conns, NEW from, NEW to, Goto(c, from, to),
         from \in Critical \/ UNCHANGED <<texts, machine>>,
         \A d \in Conns \ {c} : chal'[d] = chal[d] /\ resp'[d] = resp[d] /\ iRet'[d] = iRet[d],
         JudgeOf(c)'
  PROVE  JudgeInv'
<1>1. pc[c] = from /\ \A d \in Conns \ {c} : pc'[d] = pc[d]
  BY DEF Goto, OwnInv
<1>2. ASSUME NEW d \in Conns \ {c} PROVE JudgeOf(d)'
  BY <1>1, JudgeOthers
<1> QED BY <1>2 DEF JudgeInv

\* The shared buffers hold texts.
LEMMA TextTypes ==
  ASSUME OwnInv
  PROVE  /\ challenge \in Seq(Nat \ {0}) /\ response \in Seq(Char)
         /\ \A c \in Conns : resp[c] \in Seq(Char) /\ chal[c] \in Seq(Nat \ {0})
BY EmptySeq, ReactorAssumption DEF OwnInv

LEMMA JudgeStep ==
  ASSUME OwnInv, ComparedInv, Registers, JudgeInv, [Next]_vars
  PROVE  JudgeInv'
<1>0. \A c \in Conns : JudgeOf(c)
  BY DEF JudgeInv
<1>1. ASSUME NEW c \in Conns, Accept(c) \/ AcceptNoThread(c) \/ Greet(c) PROVE JudgeInv'
  <2>1. JudgeOf(c)'
    BY <1>0, <1>1 DEF Accept, AcceptNoThread, Greet, Goto, OwnInv, JudgeOf, Judged
  <2> QED BY <1>1, <2>1, JudgeGoto DEF Accept, AcceptNoThread, Greet, OwnInv
<1>2. ASSUME NEW c \in Conns, ReadResponse(c) \/ Lock(c) PROVE JudgeInv'
  <2>1. JudgeOf(c)'
    BY <1>2 DEF ReadResponse, Lock, Goto, OwnInv, JudgeOf, Judged
  <2> QED BY <1>2, <2>1, JudgeGoto DEF ReadResponse, Lock, OwnInv
<1>3. ASSUME NEW c \in Conns, ReadNothing(c) PROVE JudgeInv'
  <2>1. resp'[c] = <<>> /\ pc'[c] = "closed"
    BY <1>0, <1>3 DEF ReadNothing, Goto, OwnInv, JudgeOf
  <2>2. ~Complete(resp'[c])
    BY <2>1, LenEmpty DEF Complete, RESPONSE_LEN
  <2>3. JudgeOf(c)'
    BY <2>1, <2>2 DEF JudgeOf
  <2> QED BY <1>3, <2>3, JudgeGoto DEF ReadNothing
<1>4. ASSUME NEW c \in Conns, LengthRefused(c) PROVE JudgeInv'
  <2>1. ~Complete(resp'[c]) /\ pc'[c] = "answer"
    BY <1>4 DEF LengthRefused, Goto, OwnInv, Complete
  <2>2. JudgeOf(c)'
    BY <2>1 DEF JudgeOf
  <2> QED BY <1>4, <2>2, JudgeGoto DEF LengthRefused
<1>5. ASSUME NEW c \in Conns, CopyTexts(c) PROVE JudgeInv'
  <2>1. pc'[c] = "checksum" /\ next' = 1 /\ reg7' = 0
    BY <1>5 DEF CopyTexts, Goto, OwnInv
  <2>2. challenge' \in Seq(Nat \ {0})
    <3>1. OwnInv'
      BY OwnStep
    <3> QED BY <3>1, EmptySeq, ReactorAssumption DEF OwnInv
  <2>3. Sums(challenge')[0] = 0 /\ next' <= Len(challenge') + 1 /\ next' - 1 = 0
    BY <2>1, <2>2, SumsDefined
  <2>4. 0 = 0 % Word
    BY WordSize
  <2>5. JudgeOf(c)'
    BY <2>1, <2>3, <2>4 DEF JudgeOf, Judged
  <2> QED BY <1>5, <2>5, JudgeGoto DEF CopyTexts, Critical
<1>6. ASSUME NEW c \in Conns, ChecksumChar(c) PROVE JudgeInv'
  <2> DEFINE n == next - 1
             s == Sums(challenge)
  <2>1. /\ pc[c] = "checksum" /\ pc'[c] = "checksum" /\ next <= Len(challenge)
        /\ next' = next + 1 /\ challenge' = challenge
        /\ reg7' = ChecksumRound(reg7, challenge[next])
    BY <1>6 DEF ChecksumChar, Goto, OwnInv, texts
  <2>2. /\ challenge \in Seq(Nat \ {0}) /\ next \in 1 .. Len(challenge) /\ n \in 0 .. Len(challenge)
        /\ challenge[next] \in Nat
    BY <2>1, TextTypes DEF ComparedInv
  <2>3. s[n] \in Nat /\ s[next] = SumRound(s[n], challenge[next])
    BY <2>2, SumsDefined
  <2>4. reg7 = s[n] % Word
    BY <1>0, <2>1 DEF JudgeOf
  <2>5. reg7' = s[next] % Word
    BY <2>1, <2>2, <2>3, <2>4, RoundIsSum
  <2>6. next' <= Len(challenge) + 1 /\ next' - 1 = next
    BY <2>1, <2>2
  <2>7. JudgeOf(c)'
    BY <2>1, <2>5, <2>6 DEF JudgeOf, Judged
  <2> QED BY <1>6, <2>7, JudgeGoto DEF ChecksumChar, Critical
<1>7. ASSUME NEW c \in Conns, ChecksumDone(c) PROVE JudgeInv'
  <2>1. /\ pc[c] = "checksum" /\ pc'[c] = "form" /\ next > Len(challenge)
        /\ next' = 1 /\ UNCHANGED <<challenge, response, reg6, reg7>>
    BY <1>7 DEF ChecksumDone, Goto, OwnInv, texts
  <2>2. next - 1 = Len(challenge)
    BY <1>0, <2>1, TextTypes DEF JudgeOf, ComparedInv
  <2>3. reg7 = Sums(challenge)[Len(challenge)] % Word
    BY <1>0, <2>1, <2>2 DEF JudgeOf
  <2>4. Holds(reg6, DigitsOf(SubSeq(response, 1, next' - 1))) /\ next' <= Len(response) + 1
    <3>1. SubSeq(response, 1, 0) = <<>> /\ 1 <= Len(response) + 1
      BY TextTypes
    <3>2. DigitsOf(<<>>) = <<>>
      BY KeepAll, EmptySeq DEF DigitsOf
    <3>3. Holds(reg6, <<>>)
      BY LenEmpty DEF Holds
    <3>4. next' - 1 = 0
      BY <2>1
    <3> QED BY <2>1, <3>1, <3>2, <3>3, <3>4
  <2>5. JudgeOf(c)'
    BY <2>1, <2>3, <2>4 DEF JudgeOf, Judged
  <2> QED BY <1>7, <2>5, JudgeGoto DEF ChecksumDone, Critical
<1>8. ASSUME NEW c \in Conns, FormChar(c) PROVE JudgeInv'
  <2> DEFINE n == next - 1
             e == response[next]
             read == SubSeq(response, 1, n)
  <2>1. /\ pc[c] = "form" /\ pc'[c] = "form" /\ next <= Len(response) /\ e # Other
        /\ reg6' = (IF e = Dash THEN reg6 ELSE Add(Shl(reg6, Nibble), e))
        /\ next' = next + 1 /\ UNCHANGED <<challenge, response, reg7>>
    BY <1>8 DEF FormChar, Goto, OwnInv, texts
  <2>2. /\ response \in Seq(Char) /\ n \in 0 .. Len(response) - 1 /\ n + 1 = next
        /\ next' - 1 = next /\ next' <= Len(response) + 1 /\ e \in Char
    BY <2>1, TextTypes DEF ComparedInv
  <2>3. Holds(reg6, DigitsOf(read)) /\ reg7 = Sums(challenge)[Len(challenge)] % Word
    BY <1>0, <2>1 DEF JudgeOf
  <2>4. DigitsOf(SubSeq(response, 1, next)) =
          IF e \in Digit THEN Append(DigitsOf(read), e) ELSE DigitsOf(read)
    BY <2>2, DigitsNext
  <2>5. e # Dash <=> e \in Digit
    BY <2>1, <2>2, ReactorAssumption DEF Char, Dash, Other, Digit
  <2>6. DigitsOf(read) \in Seq(Digit)
    <3>1. read \in Seq(Char)
      BY <2>2
    <3> QED BY <3>1, DigitsType
  <2> HIDE DEF e, read, n
  <2>7. Holds(reg6', DigitsOf(SubSeq(response, 1, next)))
    <3>1. CASE e = Dash
      BY <2>1, <2>3, <2>4, <2>5, <3>1
    <3>2. CASE e # Dash
      BY <2>1, <2>3, <2>4, <2>5, <2>6, <3>2, HoldsNext DEF Registers
    <3> QED BY <3>1, <3>2
  <2>8. JudgeOf(c)'
    BY <2>1, <2>2, <2>3, <2>7 DEF JudgeOf, Judged
  <2> QED BY <1>8, <2>8, JudgeGoto DEF FormChar, Critical
<1>9. ASSUME NEW c \in Conns, FormRefused(c) PROVE JudgeInv'
  <2>1. pc'[c] = "unlock" /\ resp' = resp /\ response = resp[c] /\ ~Unbroken(response)
    <3>1. next \in DOMAIN response /\ response[next] = Other
      BY <1>9, TextTypes DEF FormRefused, ComparedInv
    <3> QED BY <1>9, <3>1 DEF FormRefused, Goto, OwnInv, Working, Unbroken
  <2>2. ~Complete(resp'[c])
    BY <2>1 DEF Complete
  <2>3. JudgeOf(c)'
    BY <2>1, <2>2 DEF JudgeOf, Judged
  <2> QED BY <1>9, <2>3, JudgeGoto DEF FormRefused, Critical
<1>10. ASSUME NEW c \in Conns, FormDone(c) PROVE JudgeInv'
  <2>1. /\ pc[c] = "form" /\ pc'[c] = "compare" /\ next > Len(response)
        /\ UNCHANGED <<challenge, response, reg6, reg7>>
    BY <1>10 DEF FormDone, Goto, OwnInv, texts, machine
  <2>2. next - 1 = Len(response)
    BY <1>0, <2>1, TextTypes DEF JudgeOf, ComparedInv
  <2>3. SubSeq(response, 1, Len(response)) = response
    BY TextTypes
  <2>4. Holds(reg6, DigitsOf(response)) /\ reg7 = Sums(challenge)[Len(challenge)] % Word
    BY <1>0, <2>1, <2>2, <2>3 DEF JudgeOf
  <2>5. JudgeOf(c)'
    BY <2>1, <2>4 DEF JudgeOf, Judged
  <2> QED BY <1>10, <2>5, JudgeGoto DEF FormDone, Critical
<1>11. ASSUME NEW c \in Conns, Compare(c) PROVE JudgeInv'
  <2> DEFINE text == resp[c]
             ch == chal[c]
             d == ChecksumDigits(ch)
  <2>1. /\ pc[c] = "compare" /\ pc'[c] = "unlock" /\ resp' = resp /\ chal' = chal
        /\ good_bad_flag' = (reg7 = Reordered(reg6))
    BY <1>11 DEF Compare, Goto, OwnInv
  <2>2. challenge = ch /\ response = text /\ ch \in Seq(Nat \ {0}) /\ text \in Seq(Char)
    BY <2>1, TextTypes DEF OwnInv, Working
  <2>3. Holds(reg6, DigitsOf(text)) /\ reg7 = Sums(ch)[Len(ch)] % Word
    BY <1>0, <2>1, <2>2 DEF JudgeOf
  <2>4. d = HexDigits(reg7)
    BY <2>3 DEF ChecksumDigits
  <2>5. reg6 \in 0 .. Word - 1 /\ reg7 \in 0 .. Word - 1
    BY DEF Registers
  <2>6. d \in EightDigits
    BY <2>4, <2>5, DigitsOfWord
  <2> HIDE DEF d, text, ch
  <2>7. ASSUME Complete(text) PROVE good_bad_flag' <=> Solves(text, ch)
    <3>1. DigitsOf(text) \in Seq(Digit) /\ Len(DigitsOf(text)) >= 8
      BY <2>2, <2>7, DigitsType DEF Complete
    <3>2. LastEight(DigitsOf(text)) = HexDigits(reg6)
      BY <2>3, <2>5, <3>1, HoldsAll
    <3>3. DigitsOf(Solution(ch)) = <<d[5], d[6], d[3], d[4], d[7], d[8], d[1], d[2]>>
      BY <2>6, SolutionDigits DEF d
    <3>4. reg7 = Reordered(reg6)
            <=> HexDigits(reg6) = <<d[5], d[6], d[3], d[4], d[7], d[8], d[1], d[2]>>
      BY <2>4, <2>5, ComparesDigits
    <3> QED BY <2>1, <3>2, <3>3, <3>4 DEF Solves
  <2>8. Complete(resp'[c]) => (good_bad_flag' <=> Solves(resp'[c], chal'[c]))
    BY <2>1, <2>7 DEF text, ch
  <2>9. JudgeOf(c)'
    BY <2>1, <2>8 DEF JudgeOf, Judged
  <2> QED BY <1>11, <2>9, JudgeGoto DEF Compare, Critical
<1>12. ASSUME NEW c \in Conns, EndOfApp(c) PROVE JudgeInv'
  <2>1. pc[c] = "unlock" /\ pc'[c] = "answer" /\ UNCHANGED <<resp, chal>>
    BY <1>12 DEF EndOfApp, Goto, OwnInv
  <2>2. iRet'[c] = 0 <=> good_bad_flag
    BY <1>12 DEF EndOfApp, ComparedInv
  <2>3. JudgeOf(c)'
    BY <1>0, <2>1, <2>2 DEF JudgeOf, Judged
  <2> QED BY <1>12, <2>3, JudgeGoto DEF EndOfApp, Critical, ComparedInv
<1>13. ASSUME NEW c \in Conns, Answer(c) PROVE JudgeInv'
  <2>1. JudgeOf(c)'
    BY <1>0, <1>13 DEF Answer, Goto, OwnInv, JudgeOf, Judged
  <2> QED BY <1>13, <2>1, JudgeGoto DEF Answer
<1>14. CASE Exit \/ UNCHANGED vars
  BY <1>0, <1>14 DEF Exit, vars, texts, machine, JudgeInv, JudgeOf, Judged
<1> QED
  BY <1>1, <1>2, <1>3, <1>4, <1>5, <1>6, <1>7, <1>8, <1>9, <1>10, <1>11, <1>12, <1>13, <1>14
  DEF Next, Login, Verify

\* A complete response is judged as solution.py would, for challenges and responses of
\* any length and any number of logins before it.
THEOREM CompleteIsJudged == Spec => []CompleteJudged
<1>1. JudgeInv => CompleteJudged
  BY DEF JudgeInv, JudgeOf, CompleteJudged, Judged
<1> QED
  BY <1>1, OwnInit, OwnStep, ComparedInit, ComparedStep, RegistersInit, RegistersStep,
     JudgeInit, JudgeStep, PTL DEF Spec

=============================================================================
