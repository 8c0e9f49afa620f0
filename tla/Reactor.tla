------------------------------- MODULE Reactor -------------------------------
(***************************************************************************)
(* The reactor daemon of hitbkl2012_klks (daemon.c) and what its virtual   *)
(* machine does for it (vm_processor.c).  Every connection gets a thread,  *)
(* which sends a challenge, reads one response and has                     *)
(* VerifyChallengeResponse judge it.  All threads share one virtual        *)
(* machine, two text buffers and one verdict flag, under cs_mutex.         *)
(*                                                                         *)
(* Data: Nibble is the number of values of a hex digit, 16 in the code;    *)
(* all shifts but the checksum's are whole digits, so that every register  *)
(* operation keeps its meaning for a smaller one.  A character of a        *)
(* response is its digit, Dash, or Other for what is no upper-case hex     *)
(* digit.  GenerateChallengeCode always gives the same length, and the     *)
(* text that it appends to is empty: a thread's stack is new, because no   *)
(* thread is joined and no stack is used again.                            *)
(***************************************************************************)
EXTENDS Integers, FiniteSets, Lists

CONSTANTS
  Conns,        \* connections, one thread each
  Nibble,       \* values of a hex digit: 16 in the code
  Challenges,   \* challenges: sequences of character codes
  Responses,    \* what clients send: sequences of characters, cut at the first NUL
  MaxThreads    \* how many unjoined threads the process can hold

Dash == Nibble
Other == Nibble + 1
Char == 0 .. Other
Byte == Nibble * Nibble
Word == Byte * Byte * Byte * Byte
RESPONSE_LEN == 9
Nobody == "nobody"

ASSUME ReactorAssumption ==
  /\ Nibble \in Nat /\ Nibble > 1
  /\ Challenges # {} /\ \A ch \in Challenges : ch \in Seq(Nat \ {0})
  /\ \A ch, other \in Challenges : Len(ch) = Len(other)
  /\ \A r \in Responses : r \in Seq(Char)
  /\ MaxThreads \in Nat /\ Nobody \notin Conns

VARIABLES
  alive,       \* the process runs
  pc,          \* "out", "lost" (no thread), "greet", "read", "lock", "length",
               \* "checksum", "form", "compare", "unlock", "answer", "closed"
  chal, resp,  \* chlgSerial and buffer of a thread
  iRet,        \* what VerifyChallengeResponse gave it: 0, or -1 as it is set at first
  owner,       \* who has cs_mutex
  challenge, response,  \* the shared buffers
  next,        \* the character that the loop of the virtual machine reads next
  reg6, reg7,  \* registers: the response's digits, the checksum
  good_bad_flag

vars == <<alive, pc, chal, resp, iRet, owner, challenge, response, next, reg6, reg7, good_bad_flag>>
texts == <<challenge, response>>
machine == <<next, reg6, reg7, good_bad_flag>>

Critical == {"length", "checksum", "form", "compare", "unlock"}
Threads == {c \in Conns : pc[c] \notin {"out", "lost"}}

-----------------------------------------------------------------------------
(* The operations of the virtual machine, on words of eight hex digits.    *)
(* SHL and SHR take the power of two that stands for their count.          *)

Add(x, y) == (x + y) % Word

\* Mutant of Shl: the register does not end at its highest digit.
ShlWide(x, power) == x * power
Shl(x, power) == (x * power) % Word
Shr(x, power) == x \div power

\* AND with 0xFF, and with 0xFF2D where the lowest byte is zero, as after SHL by 8.
AndByte(x) == x % Byte
AndSecondByte(x) == (x % (Byte * Byte)) - (x % Byte)

\* One round of checksum_loop.
ChecksumRound(sum, char) == Shl(Add(Add(sum, char), 47806), 4)  \* 0xBABE

\* REG8 at exit_forming_loop: bytes wxyz of the response become zxwy.
Reordered(word) ==
  LET z   == AndSecondByte(Shl(word, Byte))
      zx  == Shl(Add(z, AndByte(Shr(word, Byte * Byte))), Byte)
      zxw == Shl(Add(zx, Shr(word, Byte * Byte * Byte)), Byte)
  IN Add(zxw, AndByte(Shr(word, Byte)))

\* memcpy to the front of a buffer: what is longer stays behind it.
Overwrite(old, new) == new \o SubSeq(old, Len(new) + 1, Len(old))

-----------------------------------------------------------------------------
Init ==
  /\ alive = TRUE
  /\ pc = [c \in Conns |-> "out"]
  /\ chal = [c \in Conns |-> <<>>]
  /\ resp = [c \in Conns |-> <<>>]
  /\ iRet = [c \in Conns |-> -1]
  /\ owner = Nobody
  /\ challenge = <<>> /\ response = <<>>
  /\ next = 1 /\ reg6 = 0 /\ reg7 = 0
  /\ good_bad_flag = FALSE

Goto(c, from, to) == alive /\ pc[c] = from /\ pc' = [pc EXCEPT ![c] = to]

\* RemoteManagementInterface accepts a connection and starts its thread ...
Accept(c) ==
  /\ Goto(c, "out", "greet")
  /\ Cardinality(Threads) < MaxThreads
  /\ UNCHANGED <<alive, chal, resp, iRet, owner, texts, machine>>

\* ... or pthread_create fails, which nobody looks at: the socket stays open, unserved.
AcceptNoThread(c) ==
  /\ Goto(c, "out", "lost")
  /\ Cardinality(Threads) >= MaxThreads
  /\ UNCHANGED <<alive, chal, resp, iRet, owner, texts, machine>>

\* LoginCheck: the greeting with a random challenge, then one read of at most three
\* seconds, which gives a response or nothing.
Greet(c) ==
  /\ Goto(c, "greet", "read")
  /\ \E ch \in Challenges : chal' = [chal EXCEPT ![c] = ch]
  /\ UNCHANGED <<alive, resp, iRet, owner, texts, machine>>

ReadResponse(c) ==
  /\ Goto(c, "read", "lock")
  /\ \E r \in Responses : resp' = [resp EXCEPT ![c] = r]
  /\ UNCHANGED <<alive, chal, iRet, owner, texts, machine>>

ReadNothing(c) ==
  /\ Goto(c, "read", "closed")
  /\ UNCHANGED <<alive, chal, resp, iRet, owner, texts, machine>>

\* VerifyChallengeResponse, from pthread_mutex_lock on.
\* Mutant of Lock: the mutex is not asked for.
LockUnasked(c) ==
  /\ Goto(c, "lock", "length")
  /\ owner' = c
  /\ UNCHANGED <<alive, chal, resp, iRet, texts, machine>>

Lock(c) ==
  /\ Goto(c, "lock", "length")
  /\ owner = Nobody
  /\ owner' = c
  /\ UNCHANGED <<alive, chal, resp, iRet, texts, machine>>

\* Mutants of LengthRefused: it leaves by end_of_app; it keeps the mutex.
LengthToEnd(c) ==
  /\ Goto(c, "length", "unlock")
  /\ Len(resp[c]) # RESPONSE_LEN
  /\ UNCHANGED <<alive, chal, resp, iRet, owner, texts, machine>>

LengthKeepsMutex(c) ==
  /\ Goto(c, "length", "answer")
  /\ Len(resp[c]) # RESPONSE_LEN
  /\ UNCHANGED <<alive, chal, resp, iRet, owner, texts, machine>>

LengthRefused(c) ==
  /\ Goto(c, "length", "answer")
  /\ Len(resp[c]) # RESPONSE_LEN
  /\ owner' = Nobody
  /\ UNCHANGED <<alive, chal, resp, iRet, texts, machine>>

\* Mutant of CopyTexts: REG7 is not cleared.
CopyKeepsSum(c) ==
  /\ Goto(c, "length", "checksum")
  /\ Len(resp[c]) = RESPONSE_LEN
  /\ challenge' = Overwrite(challenge, chal[c])
  /\ response' = Overwrite(response, resp[c])
  /\ next' = 1
  /\ UNCHANGED <<alive, chal, resp, iRet, owner, reg6, reg7, good_bad_flag>>

CopyTexts(c) ==
  /\ Goto(c, "length", "checksum")
  /\ Len(resp[c]) = RESPONSE_LEN
  /\ challenge' = Overwrite(challenge, chal[c])
  /\ response' = Overwrite(response, resp[c])
  /\ next' = 1 /\ reg7' = 0
  /\ UNCHANGED <<alive, chal, resp, iRet, owner, reg6, good_bad_flag>>

ChecksumChar(c) ==
  /\ Goto(c, "checksum", "checksum")
  /\ next <= Len(challenge)
  /\ reg7' = ChecksumRound(reg7, challenge[next])
  /\ next' = next + 1
  /\ UNCHANGED <<alive, chal, resp, iRet, owner, texts, reg6, good_bad_flag>>

\* The test of the format before forming_loop never jumps: its jnz does not fetch the
\* comparison with VM_GET_CMPBIT and sees the flags of VM_PARSER's last loop test.
ChecksumDone(c) ==
  /\ Goto(c, "checksum", "form")
  /\ next > Len(challenge)
  /\ next' = 1
  /\ UNCHANGED <<alive, chal, resp, iRet, owner, texts, reg6, reg7, good_bad_flag>>

\* forming_loop shifts a digit into REG6, which nothing clears, skips a dash wherever
\* it is and jumps to end_of_app at any other character.
FormChar(c) ==
  /\ Goto(c, "form", "form")
  /\ next <= Len(response)
  /\ response[next] # Other
  /\ reg6' = IF response[next] = Dash THEN reg6 ELSE Add(Shl(reg6, Nibble), response[next])
  /\ next' = next + 1
  /\ UNCHANGED <<alive, chal, resp, iRet, owner, texts, reg7, good_bad_flag>>

FormRefused(c) ==
  /\ Goto(c, "form", "unlock")
  /\ next <= Len(response)
  /\ response[next] = Other
  /\ UNCHANGED <<alive, chal, resp, iRet, owner, texts, machine>>

FormDone(c) ==
  /\ Goto(c, "form", "compare")
  /\ next > Len(response)
  /\ UNCHANGED <<alive, chal, resp, iRet, owner, texts, machine>>

Compare(c) ==
  /\ Goto(c, "compare", "unlock")
  /\ good_bad_flag' = (reg7 = Reordered(reg6))
  /\ reg6' = AndByte(Shr(reg6, Byte))
  /\ UNCHANGED <<alive, chal, resp, iRet, owner, texts, next, reg7>>

\* end_of_app takes the flag as it is, also when it was not set for this response.
EndOfApp(c) ==
  /\ Goto(c, "unlock", "answer")
  /\ iRet' = [iRet EXCEPT ![c] = IF good_bad_flag THEN 0 ELSE -1]
  /\ owner' = Nobody
  /\ UNCHANGED <<alive, chal, resp, texts, machine>>

Answer(c) ==
  /\ Goto(c, "answer", "closed")
  /\ UNCHANGED <<alive, chal, resp, iRet, owner, texts, machine>>

\* A signal sets time_to_quit, and main leaves with every thread.
Exit ==
  /\ alive
  /\ alive' = FALSE
  /\ UNCHANGED <<pc, chal, resp, iRet, owner, texts, machine>>

Verify(c) ==
  \/ Lock(c) \/ LengthRefused(c) \/ CopyTexts(c) \/ ChecksumChar(c) \/ ChecksumDone(c)
  \/ FormChar(c) \/ FormRefused(c) \/ FormDone(c) \/ Compare(c) \/ EndOfApp(c)

Login(c) == Greet(c) \/ ReadResponse(c) \/ ReadNothing(c) \/ Verify(c) \/ Answer(c)

Next == (\E c \in Conns : Accept(c) \/ AcceptNoThread(c) \/ Login(c)) \/ Exit

Spec == Init /\ [][Next]_vars

\* Threads are scheduled, and a mutex that stays free is given to one that waits.  Nobody
\* has to connect or to send a signal, nor does a read() have to end: the three seconds
\* of the time limit come with microseconds that are never set, and setsockopt() may
\* refuse them.
FairSpec == Spec /\ \A c \in Conns : WF_vars(Greet(c) \/ Verify(c) \/ Answer(c))

-----------------------------------------------------------------------------
(* The answer that solution.py sends, and the one that the comments give.  *)

Place ==
  LET b == Byte
  IN <<b * b * b * Nibble, b * b * b, b * b * Nibble, b * b, b * Nibble, b, Nibble, 1>>
HexDigits(word) == [i \in 1 .. 8 |-> (word \div Place[i]) % Nibble]

\* The sum of checksum in solution.py after each character: a number of any size, ...
SumRound(sum, char) == (sum + char + 47806) * 4
Sums(ch) ==
  LET sum[n \in 0 .. Len(ch)] == IF n = 0 THEN 0 ELSE SumRound(sum[n - 1], ch[n])
  IN sum

\* ... of which the last eight digits count.
ChecksumDigits(ch) == HexDigits(Sums(ch)[Len(ch)] % Word)

Solution(ch) ==
  LET d == ChecksumDigits(ch)
  IN <<d[5], d[6], d[3], d[4], Dash, d[7], d[8], d[1], d[2]>>

\* "AABBCCDD = checksum reordered to DDBB-AACC"
Documented(ch) ==
  LET d == ChecksumDigits(ch)
  IN <<d[7], d[8], d[3], d[4], Dash, d[1], d[2], d[5], d[6]>>

DigitsOf(text) == Keep(text, 0 .. Nibble - 1)
LastEight(text) == SubSeq(text, Len(text) - 7, Len(text))

\* forming_loop reads such a response to its end.
Unbroken(text) == \A i \in DOMAIN text : text[i] # Other

\* Nine characters with eight digits or more: they fill REG6 whatever was in it.
Complete(text) ==
  Len(text) = RESPONSE_LEN /\ Unbroken(text) /\ Len(DigitsOf(text)) >= 8

\* The eight digits that count are those of solution.py's answer.
Solves(text, ch) == LastEight(DigitsOf(text)) = DigitsOf(Solution(ch))

Judged == {c \in Conns : pc[c] \in {"answer", "closed"}}

-----------------------------------------------------------------------------
\* The variables keep their types; registers are words of 32 bits.
TypeOK ==
  /\ alive \in BOOLEAN /\ good_bad_flag \in BOOLEAN
  /\ pc \in [Conns -> Critical \cup {"out", "lost", "greet", "read", "lock", "answer", "closed"}]
  /\ chal \in [Conns -> Challenges \cup {<<>>}]
  /\ resp \in [Conns -> Responses \cup {<<>>}]
  /\ iRet \in [Conns -> {0, -1}]
  /\ owner \in Conns \cup {Nobody}
  /\ challenge \in Challenges \cup {<<>>} /\ response \in Responses \cup {<<>>}
  /\ next \in Nat /\ reg6 \in 0 .. Word - 1 /\ reg7 \in 0 .. Word - 1

\* While the virtual machine works for a thread, that thread has cs_mutex and the
\* shared buffers hold its own challenge and response, nothing of an earlier login.
OwnTexts ==
  \A c \in Conns : pc[c] \in {"checksum", "form", "compare"} =>
    owner = c /\ challenge = chal[c] /\ response = resp[c]

\* A complete response is accepted exactly if its last eight digits are those that
\* solution.py computes for the challenge of its own connection, whatever the logins
\* before it have left in the registers, the buffers and the flag.
CompleteJudged ==
  \A c \in Judged : Complete(resp[c]) => (iRet[c] = 0 <=> Solves(resp[c], chal[c]))

\* The flag that outlives a login spares nobody the comparison: an accepted response has
\* nine characters, and some accepted one was read to its end.
ComparedOnce ==
  \A c \in Judged : iRet[c] = 0 =>
    /\ Len(resp[c]) = RESPONSE_LEN
    /\ \E d \in Judged : iRet[d] = 0 /\ Unbroken(resp[d])

\* Comments of daemon.c and solution.py: the answer is the checksum in the order
\* DDBB-AACC.  So an accepted response is that one.
AcceptsDocumented ==
  \A c \in Judged : iRet[c] = 0 => resp[c] = Documented(chal[c])

\* A response that was read is judged and its connection closed, unless the process ends:
\* neither another login in the virtual machine, nor one that is refused, nor peers that
\* send nothing and are never given up keep it from that.
Served == \A c \in Conns : pc[c] = "lock" ~> (pc[c] = "closed" \/ ~alive)
=============================================================================
