---------------------------- MODULE CtfGodProofs ----------------------------
(* What holds of god.ctf for every configuration, every command and every  *)
(* outcome of every connection.                                            *)
EXTENDS CtfGod, ListProofs

\* The states of one run between two daemons: descriptors are used up only when
\* the error of the connect that did it is still in iLastError.
DescriptorInv ==
  /\ TypeOK
  /\ pc \in {"gen", "write"} => cmd.op = "generate"
  /\ pc \in {"send", "recv", "gen", "write"} => "exhausted" \notin trouble
  /\ pc = "visit" /\ fds = MaxFds => lastError = FAIL
  /\ pc = "visit" /\ "exhausted" \in trouble => fds = MaxFds
  /\ ExhaustionIsReported

\* The states of a check command: iLastError is the verdict on the last daemon.
VerdictInv ==
  /\ pc = "visit" /\ cmd.op \in Checks /\ visited.what # "nothing" =>
       (lastError = SUCCESS <=> visited.what = "reply" /\ Confirms(visited.node, visited.reply))
  /\ VerdictOfLast

-----------------------------------------------------------------------------
\* Every variable of god.ctf keeps its type, and an open connection has a
\* descriptor and a daemon at the head of the lists.
LEMMA TypeStep == ASSUME TypeOK, [Next]_vars PROVE TypeOK'
<1> USE DEF TypeOK, SUCCESS, FAIL, KILLED
<1>1. ASSUME NEW c \in Commands, Start(c) PROVE TypeOK'
  BY <1>1, GodAssumption DEF Start, Begin
<1>2. ASSUME NEW c \in Commands, InitFails(c) PROVE TypeOK'
  BY <1>2, GodAssumption DEF InitFails, Begin, End
<1>3. ASSUME NEW f \in FlagFiles, Edit(f) PROVE TypeOK'
  BY <1>3 DEF Edit, history
<1>4. CASE OpenFlags \/ OpenFails
  BY <1>4, GodAssumption DEF OpenFlags, OpenFails, End, history
<1>14. ASSUME NEW n \in 0 .. Len(unwritten), WriteFlags(n) \/ Kill(n) PROVE TypeOK'
  <2>1. /\ pc' = "off" /\ status' \in {lastError, KILLED} /\ fds' = 0 /\ unwritten' = <<>>
        /\ UNCHANGED <<cmd, lastError, runs, visited, trouble, sent>>
    BY <1>14 DEF WriteFlags, Kill, End, history
  <2> QED BY <2>1, GodAssumption
<1>5. CASE NoSocket
  BY <1>5 DEF NoSocket
<1>6. ASSUME NEW why, Down(why) PROVE TypeOK'
  BY <1>6, GodAssumption DEF Down
<1>7. CASE Connect
  BY <1>7, GodAssumption DEF Connect
<1>8. ASSUME NEW ok \in BOOLEAN, SendRequest(ok) PROVE TypeOK'
  BY <1>8 DEF SendRequest, history
<1>9. ASSUME NEW ok \in BOOLEAN, SendFlag(ok) PROVE TypeOK'
  BY <1>9, GodAssumption DEF SendFlag
<1>10. CASE SigPipe
  BY <1>10, GodAssumption DEF SigPipe, End, history
<1>11. ASSUME NEW r \in Replies, Receive(r) PROVE TypeOK'
  <2>1. Verdict(Node, r) \in {SUCCESS, FAIL}
    BY DEF Verdict
  <2> QED BY <1>11, <2>1, GodAssumption DEF Receive
<1>12. CASE Exit
  BY <1>12, GodAssumption DEF Exit, End, history
<1>13. CASE UNCHANGED vars
  BY <1>13 DEF vars
<1> QED
  BY <1>1, <1>2, <1>3, <1>4, <1>5, <1>6, <1>7, <1>8, <1>9, <1>10, <1>11, <1>12, <1>13, <1>14
  DEF Next, Progress

LEMMA TypeInit == Init => TypeOK
BY GodAssumption DEF Init, TypeOK, SUCCESS

\* The type invariant of god.ctf holds in every state.
THEOREM GodTypeCorrect == Spec => []TypeOK
<1> QED BY TypeInit, TypeStep, PTL DEF Spec

-----------------------------------------------------------------------------
\* One step of god.ctf keeps the descriptor invariant.
LEMMA DescriptorStep == ASSUME DescriptorInv, [Next]_vars PROVE DescriptorInv'
<1>0. TypeOK'
  BY TypeStep DEF DescriptorInv
<1>a. fds \in Nat /\ fds <= MaxFds /\ MaxFds \in Nat /\ MaxFds > 0
  BY GodAssumption DEF DescriptorInv, TypeOK
<1>b. pc \in {"send", "recv"} => fds > 0
  BY GodAssumption DEF DescriptorInv, TypeOK
<1> USE DEF ExhaustionIsReported, SUCCESS, FAIL, KILLED
<1>1. ASSUME NEW c \in Commands, Start(c) PROVE DescriptorInv'
  BY <1>0, <1>a, <1>b, <1>1 DEF DescriptorInv, Start, Begin
<1>2. ASSUME NEW c \in Commands, InitFails(c) PROVE DescriptorInv'
  BY <1>0, <1>a, <1>b, <1>2 DEF DescriptorInv, InitFails, Begin, End
<1>3. ASSUME NEW f \in FlagFiles, Edit(f) PROVE DescriptorInv'
  BY <1>0, <1>a, <1>b, <1>3 DEF DescriptorInv, Edit, history
<1>4. CASE OpenFlags \/ OpenFails
  BY <1>0, <1>a, <1>b, <1>4 DEF DescriptorInv, OpenFlags, OpenFails, End, history
<1>14. ASSUME NEW n \in 0 .. Len(unwritten), WriteFlags(n) \/ Kill(n) PROVE DescriptorInv'
  BY <1>0, <1>a, <1>b, <1>14 DEF DescriptorInv, WriteFlags, Kill, End, history
<1>5. CASE NoSocket
  BY <1>0, <1>a, <1>b, <1>5 DEF DescriptorInv, NoSocket
<1>6. ASSUME NEW why, Down(why) PROVE DescriptorInv'
  BY <1>0, <1>a, <1>b, <1>6 DEF DescriptorInv, Down
<1>7. CASE Connect
  BY <1>0, <1>a, <1>b, <1>7 DEF DescriptorInv, Connect
<1>8. ASSUME NEW ok \in BOOLEAN, SendRequest(ok) PROVE DescriptorInv'
  BY <1>0, <1>a, <1>b, <1>8 DEF DescriptorInv, SendRequest, history
<1>9. ASSUME NEW ok \in BOOLEAN, SendFlag(ok) PROVE DescriptorInv'
  BY <1>0, <1>a, <1>b, <1>9 DEF DescriptorInv, SendFlag
<1>10. CASE SigPipe
  BY <1>0, <1>a, <1>b, <1>10 DEF DescriptorInv, SigPipe, End, history
<1>11. ASSUME NEW r \in Replies, Receive(r) PROVE DescriptorInv'
  BY <1>0, <1>a, <1>b, <1>11 DEF DescriptorInv, Receive
<1>12. CASE Exit
  BY <1>0, <1>a, <1>b, <1>12 DEF DescriptorInv, Exit, End, history
<1>13. CASE UNCHANGED vars
  BY <1>0, <1>a, <1>b, <1>13 DEF DescriptorInv, vars
<1> QED
  BY <1>1, <1>2, <1>3, <1>4, <1>5, <1>6, <1>7, <1>8, <1>9, <1>10, <1>11, <1>12, <1>13, <1>14
  DEF Next, Progress

LEMMA DescriptorInit == Init => DescriptorInv
BY TypeInit DEF Init, DescriptorInv, ExhaustionIsReported

\* A run that used up its own descriptors, so that daemons were passed over without
\* a word to iLastError, never leaves with exit status 0: for every number of
\* descriptors, every configuration and every order of network failures, sockets
\* that the system refuses for reasons of its own among them.
THEOREM ExhaustionsAreReported == Spec => []ExhaustionIsReported
<1>1. DescriptorInv => ExhaustionIsReported
  BY DEF DescriptorInv
<1> QED BY <1>1, DescriptorInit, DescriptorStep, PTL DEF Spec

-----------------------------------------------------------------------------
\* SUCCESS is the verdict of a check only on the reply that the check wants.
LEMMA VerdictConfirms ==
  ASSUME NEW n, NEW r, cmd.op \in Checks
  PROVE  Verdict(n, r) = SUCCESS <=> Confirms(n, r)
BY DEF Verdict, Confirms, Checks, FlagOps, SUCCESS, FAIL

\* One step keeps the verdict invariant; the steps that are not a check's reply
\* leave FAIL, or the connection open, or the state of the last daemon alone.
LEMMA VerdictStep == ASSUME DescriptorInv, VerdictInv, [Next]_vars PROVE VerdictInv'
<1>0. TypeOK
  BY DEF DescriptorInv
<1> USE DEF VerdictInv, VerdictOfLast, Confirms, SUCCESS, FAIL, KILLED
<1>1. ASSUME NEW c \in Commands, Start(c) PROVE VerdictInv'
  BY <1>1 DEF Start, Begin, NoVisit
<1>2. ASSUME NEW c \in Commands, InitFails(c) PROVE VerdictInv'
  BY <1>2 DEF InitFails, Begin, End, NoVisit
<1>3. ASSUME NEW f \in FlagFiles, Edit(f) PROVE VerdictInv'
  BY <1>3 DEF Edit, history
<1>4. CASE OpenFlags \/ OpenFails
  BY <1>4 DEF OpenFlags, OpenFails, End, history, DescriptorInv, Checks
<1>14. ASSUME NEW n \in 0 .. Len(unwritten), WriteFlags(n) \/ Kill(n) PROVE VerdictInv'
  BY <1>14 DEF WriteFlags, Kill, End, history, DescriptorInv, Checks
<1>5. CASE NoSocket
  BY <1>5 DEF NoSocket, DescriptorInv
<1>6. ASSUME NEW why, Down(why) PROVE VerdictInv'
  BY <1>6 DEF Down
<1>7. CASE Connect
  BY <1>7 DEF Connect
<1>8. ASSUME NEW ok \in BOOLEAN, SendRequest(ok) PROVE VerdictInv'
  BY <1>8 DEF SendRequest, history
<1>9. ASSUME NEW ok \in BOOLEAN, SendFlag(ok) PROVE VerdictInv'
  BY <1>9 DEF SendFlag, SetOps, Checks
<1>10. CASE SigPipe
  BY <1>10 DEF SigPipe, End, history
<1>11. ASSUME NEW r \in Replies, Receive(r) PROVE VerdictInv'
  <2>1. ASSUME cmd.op \in Checks PROVE lastError' = SUCCESS <=> Confirms(Node, r)
    BY <1>11, <2>1, VerdictConfirms DEF Receive
  <2>2. visited'.what = "reply" /\ visited'.node = Node /\ visited'.reply = r
    BY <1>11 DEF Receive
  <2>3. cmd' = cmd /\ pc' = "visit"
    BY <1>11 DEF Receive
  <2> QED BY <2>1, <2>2, <2>3
<1>12. CASE Exit
  BY <1>12 DEF Exit, End, history
<1>13. CASE UNCHANGED vars
  BY <1>13 DEF vars
<1> QED
  BY <1>1, <1>2, <1>3, <1>4, <1>5, <1>6, <1>7, <1>8, <1>9, <1>10, <1>11, <1>12, <1>13, <1>14
  DEF Next, Progress

LEMMA VerdictInit == Init => VerdictInv
BY DEF Init, VerdictInv, VerdictOfLast

\* A check command that comes to its end leaves with SUCCESS exactly when the last
\* daemon it had a socket for gave the expected reply, for every configuration and
\* every behaviour of the daemons and of the system.
THEOREM VerdictsAreOfLast == Spec => []VerdictOfLast
<1>1. VerdictInv => VerdictOfLast
  BY DEF VerdictInv
<1> QED
  BY <1>1, DescriptorInit, DescriptorStep, VerdictInit, VerdictStep, PTL DEF Spec

-----------------------------------------------------------------------------
(* FirstLineWins: the order of the lists.                                  *)

Key(l) == <<l.ip, l.port>>

\* f is the flag of the first of lines that is about the daemon x.
FirstFlagOf(lines, x, f) ==
  \E k \in DOMAIN lines :
    /\ Key(lines[k]) = x /\ lines[k].flag = f
    /\ \A j \in DOMAIN lines : Key(lines[j]) = x => k <= j

\* The list c has for every daemon that it names the first of lines LAST.
EndsInFirst(lines, c) ==
  \A i \in DOMAIN c :
    (\A j \in DOMAIN c : j > i => Key(c[j]) # Key(c[i]))
      => FirstFlagOf(lines, Key(c[i]), c[i].flag)

TakenFrom(lines, c) == \A i \in DOMAIN c : \E k \in DOMAIN lines : c[i] = lines[k]

CallLists(lines) == {c \in Seq(Line) : EndsInFirst(lines, c) /\ TakenFrom(lines, c)}

\* Reversed, the lines of one team are such a list.
LEMMA TeamList ==
  ASSUME NEW lines \in Seq(Line), NEW ip
  PROVE  Reverse(Keep(lines, OfTeam(ip))) \in CallLists(lines)
<1> DEFINE s == Keep(lines, OfTeam(ip))
           n == Len(s)
           c == Reverse(s)
<1>1. s \in Seq(Line) /\ n \in Nat
  <2>1. s \in Seq(Line \cap OfTeam(ip))
    BY KeepType
  <2> QED BY <2>1
<1>2. PICK h : KeepsOrder(s, lines, OfTeam(ip), h, Len(lines))
  BY KeepOrder
<1> HIDE DEF s
<1>3. c \in Seq(Line) /\ Len(c) = n /\ \A i \in 1 .. n : c[i] = s[(n - i) + 1]
  BY <1>1 DEF Reverse
<1> HIDE DEF c
<1>4. ASSUME NEW i \in 1 .. n, \A j \in 1 .. n : j > i => Key(c[j]) # Key(c[i])
      PROVE  FirstFlagOf(lines, Key(c[i]), c[i].flag)
  <2> DEFINE b == (n - i) + 1
  <2>1. b \in 1 .. n /\ c[i] = s[b]
    BY <1>1, <1>3
  <2>2. h[b] \in 1 .. Len(lines) /\ s[b] = lines[h[b]]
    BY <1>2, <2>1 DEF KeepsOrder
  <2>3. ASSUME NEW k \in 1 .. Len(lines), Key(lines[k]) = Key(c[i]) PROVE h[b] <= k
    <3>1. lines[k] \in Line /\ lines[h[b]] \in Line
      BY <2>2
    <3>2. lines[h[b]] \in OfTeam(ip)
      <4>1. s \in Seq(Line \cap OfTeam(ip))
        BY KeepType DEF s
      <4> QED BY <2>1, <2>2, <4>1
    <3>3. lines[k] \in OfTeam(ip)
      BY <2>1, <2>2, <2>3, <3>1, <3>2 DEF Key, OfTeam
    <3>4. PICK a \in 1 .. n : h[a] = k
      BY <1>2, <3>3 DEF KeepsOrder
    <3>5. s[a] = lines[k]
      BY <1>2, <3>4 DEF KeepsOrder
    <3>6. ~ (a < b)
      <4> SUFFICES ASSUME a < b PROVE FALSE
        OBVIOUS
      <4> DEFINE j == (n - a) + 1
      <4>1. j \in 1 .. n /\ j > i /\ (n - j) + 1 = a
        BY <1>1, <2>1
      <4>2. c[j] = s[a]
        BY <1>3, <4>1
      <4> QED BY <1>4, <2>3, <3>5, <4>1, <4>2
    <3>7. a = b \/ b < a
      BY <1>1, <2>1, <3>6
    <3>8. h[b] <= h[a]
      BY <1>2, <2>1, <2>2, <3>4, <3>7 DEF KeepsOrder
    <3> QED BY <3>4, <3>8
  <2>4. Key(lines[h[b]]) = Key(c[i]) /\ lines[h[b]].flag = c[i].flag
    BY <2>1, <2>2
  <2> HIDE DEF b
  <2> QED BY <2>2, <2>3, <2>4 DEF FirstFlagOf
<1>5. EndsInFirst(lines, c)
  <2>1. DOMAIN c = 1 .. n
    BY <1>1, <1>3
  <2> QED BY <1>4, <2>1 DEF EndsInFirst
<1>6. TakenFrom(lines, c)
  <2> SUFFICES ASSUME NEW i \in DOMAIN c PROVE \E k \in DOMAIN lines : c[i] = lines[k]
    BY DEF TakenFrom
  <2>0. DOMAIN c = 1 .. n
    BY <1>1, <1>3
  <2>1. (n - i) + 1 \in 1 .. n /\ c[i] = s[(n - i) + 1]
    BY <1>1, <1>3, <2>0
  <2>2. h[(n - i) + 1] \in DOMAIN lines /\ s[(n - i) + 1] = lines[h[(n - i) + 1]]
    BY <1>2, <2>1 DEF KeepsOrder
  <2> QED BY <2>1, <2>2
<1> QED BY <1>3, <1>5, <1>6 DEF CallLists, c, s

\* So is what is left of it for one port.
LEMMA PortList ==
  ASSUME NEW lines, NEW c \in CallLists(lines), NEW port
  PROVE  Keep(c, OnPort(port)) \in CallLists(lines)
<1> DEFINE s == Keep(c, OnPort(port))
<1>0. c \in Seq(Line) /\ EndsInFirst(lines, c) /\ TakenFrom(lines, c)
  BY DEF CallLists
<1>1. s \in Seq(Line \cap OnPort(port)) /\ s \in Seq(Line)
  <2>1. s \in Seq(Line \cap OnPort(port))
    BY <1>0, KeepType
  <2> QED BY <2>1
<1>2. PICK h : KeepsOrder(s, c, OnPort(port), h, Len(c))
  BY <1>0, KeepOrder
<1> HIDE DEF s
<1>3. ASSUME NEW i \in DOMAIN s, \A j \in DOMAIN s : j > i => Key(s[j]) # Key(s[i])
      PROVE  FirstFlagOf(lines, Key(s[i]), s[i].flag)
  <2>1. h[i] \in 1 .. Len(c) /\ s[i] = c[h[i]] /\ s[i] \in OnPort(port)
    BY <1>1, <1>2 DEF KeepsOrder
  <2>2. ASSUME NEW j \in DOMAIN c, j > h[i], Key(c[j]) = Key(c[h[i]]) PROVE FALSE
    <3>1. c[j] \in OnPort(port)
      BY <1>0, <2>1, <2>2 DEF OnPort, Key
    <3>2. PICK k \in 1 .. Len(s) : h[k] = j
      BY <1>0, <1>2, <3>1 DEF KeepsOrder
    <3>3. s[k] = c[j] /\ k \in DOMAIN s
      BY <1>1, <1>2, <3>2 DEF KeepsOrder
    <3>4. k > i
      <4> SUFFICES ASSUME ~ (k > i) PROVE FALSE
        OBVIOUS
      <4>1. k = i \/ k < i
        BY <1>1, <3>2
      <4>2. h[k] = h[i] \/ h[k] < h[i]
        BY <1>1, <1>2, <3>2, <4>1 DEF KeepsOrder
      <4> QED BY <1>0, <2>1, <2>2, <3>2, <4>2
    <3> QED BY <1>3, <2>1, <2>2, <3>3, <3>4
  <2>3. h[i] \in DOMAIN c
    BY <1>0, <2>1
  <2>4. FirstFlagOf(lines, Key(c[h[i]]), c[h[i]].flag)
    BY <1>0, <2>2, <2>3 DEF EndsInFirst
  <2> QED BY <2>1, <2>4
<1>4. TakenFrom(lines, s)
  <2> SUFFICES ASSUME NEW i \in DOMAIN s PROVE \E k \in DOMAIN lines : s[i] = lines[k]
    BY DEF TakenFrom
  <2>1. h[i] \in DOMAIN c /\ s[i] = c[h[i]]
    BY <1>0, <1>1, <1>2 DEF KeepsOrder
  <2> QED BY <1>0, <2>1 DEF TakenFrom
<1> QED BY <1>1, <1>3, <1>4 DEF CallLists, EndsInFirst, s

\* The contents of a flag file, and the commands: nothing else reaches the lists.
FilesInv ==
  /\ "ctf_svrflags.txt" \in DOMAIN files
  /\ \A p \in DOMAIN files : files[p] \in Seq(Line)

Calls == CallLists(files["ctf_svrflags.txt"])

LEMMA NoLines == ASSUME NEW lines PROVE <<>> \in CallLists(lines)
BY DEF CallLists, EndsInFirst, TakenFrom

LEMMA FlagsOfType ==
  ASSUME FilesInv, NEW t
  PROVE  FlagsOf(t) \in Calls
BY TeamList, NoLines DEF FlagsOf, Calls, FilesInv

LEMMA TeamsType == DOMAIN Teams = 1 .. Len(KeyLines) /\ Len(KeyLines) \in Nat
BY GodAssumption DEF Teams, Reverse

LEMMA EnumType ==
  ASSUME FilesInv, NEW ip, NEW port
  PROVE  EnumClients(ip, port) \in Seq(Calls \cap NonEmpty)
<1> DEFINE e(t) == IF ip = 0 \/ Teams[t] = ip THEN Keep(FlagsOf(t), OnPort(port)) ELSE <<>>
           s == [t \in DOMAIN Teams |-> e(t)]
<1>1. \A t : e(t) \in Calls
  BY FlagsOfType, PortList, NoLines DEF Calls
<1> HIDE DEF e
<1>2. s \in Seq(Calls)
  BY <1>1, TeamsType
<1> HIDE DEF s
<1>3. Keep(s, NonEmpty) \in Seq(Calls \cap NonEmpty)
  BY <1>2, KeepType
<1>4. EnumClients(ip, port) = Keep(s, NonEmpty)
  BY DEF EnumClients, s, e
<1> QED BY <1>3, <1>4

\* Whatever a command walks over: no empty list, and each ends in the first lines.
LEMMA WorkType ==
  ASSUME FilesInv, NEW c \in Commands
  PROVE  Work(c) \in Seq(Calls \cap NonEmpty)
<1> DEFINE S == Calls \cap NonEmpty
<1>1. \A ip, port : EnumClients(ip, port) \in Seq(S)
  BY EnumType
<1> HIDE DEF S
<1>2. Propogate(c.tries) \in Seq(S)
  <2> DEFINE teams == [t \in DOMAIN Teams |-> EnumClients(Teams[t], 0)]
             round == FlattenSeq(teams)
             rounds == [i \in 1 .. c.tries |-> round]
  <2>1. teams \in Seq(Seq(S))
    BY <1>1, TeamsType
  <2> HIDE DEF teams
  <2>2. round \in Seq(S)
    BY <2>1, FlattenType
  <2> HIDE DEF round
  <2>3. c.tries \in Nat
    BY GodAssumption
  <2>4. rounds \in Seq(Seq(S))
    BY <2>2, <2>3
  <2> HIDE DEF rounds
  <2>5. FlattenSeq(rounds) \in Seq(S)
    BY <2>4, FlattenType
  <2> QED BY <2>5 DEF Propogate, rounds, round, teams
<1> QED BY <1>1, <1>2 DEF Work, S

\* New flags are lines too.
LEMMA NewFlagsType == ASSUME FilesInv, TypeOK PROVE NewFlags \in Seq(Line)
<1> DEFINE s == [t \in DOMAIN Teams |-> FlagsOf(t)]
           lines == FlattenSeq(s)
<1>1. s \in Seq(Seq(Line))
  <2>1. \A t : FlagsOf(t) \in Seq(Line)
    BY FlagsOfType DEF Calls, CallLists
  <2> QED BY <2>1, TeamsType
<1> HIDE DEF s
<1>2. lines \in Seq(Line)
  BY <1>1, FlattenType
<1> HIDE DEF lines
<1>3. runs \in Nat
  BY GodAssumption DEF TypeOK
<1>4. ASSUME NEW i \in 1 .. Len(lines)
      PROVE  [lines[i] EXCEPT !.flag = 100 * (runs + 1) + i] \in Line
  <2>1. lines[i] \in Line /\ 100 * (runs + 1) + i \in Nat
    BY <1>2, <1>3
  <2> QED BY <2>1 DEF Line
<1>5. NewFlags = [i \in 1 .. Len(lines) |-> [lines[i] EXCEPT !.flag = 100 * (runs + 1) + i]]
  BY <1>2 DEF NewFlags, lines, s
<1> QED BY <1>2, <1>4, <1>5

\* With one team and one line, the new flag takes the place of the old one.
LEMMA NewFlagsOfOne ==
  ASSUME NEW ip, NEW l \in Line, l.ip = ip, KeyLines = <<ip>>,
         files["ctf_svrflags.txt"] = <<l>>
  PROVE  NewFlags = <<[l EXCEPT !.flag = 100 * (runs + 1) + 1]>>
<1>1. Teams = <<ip>>
  BY DEF Teams, Reverse
<1>2. FlagsOf(1) = <<l>>
  <2>1. IsFirst(1)
    BY DEF IsFirst
  <2>2. Keep(<<l>>, OfTeam(ip)) = <<l>>
    BY KeepOne DEF OfTeam
  <2>3. Reverse(<<l>>) = <<l>>
    BY DEF Reverse
  <2> QED BY <1>1, <2>1, <2>2, <2>3 DEF FlagsOf
<1>3. [t \in DOMAIN Teams |-> FlagsOf(t)] = <<<<l>>>>
  BY <1>1, <1>2
<1>4. FlattenSeq([t \in DOMAIN Teams |-> FlagsOf(t)]) = <<l>>
  BY <1>3, FlattenOne
<1> QED BY <1>4 DEF NewFlags

-----------------------------------------------------------------------------
FirstFlag(x, f) == FirstFlagOf(files["ctf_svrflags.txt"], x, f)

\* The daemon x comes again in the list that is being walked over.
Again(x) == calls # <<>> /\ \E i \in DOMAIN calls[1] : Key(calls[1][i]) = x

\* While the run goes on without trouble, a daemon has got the first of its flags,
\* or the list at hand will come to it again.
FirstInv ==
  /\ TypeOK /\ FilesInv
  /\ pc \in {"send", "recv"} => calls # <<>>
  /\ calls \in Seq(Calls \cap NonEmpty)
  /\ unwritten \in Seq(Line)
  /\ pc \in {"off", "gen", "write"} => calls = <<>>
  /\ pc = "write" => cmd.path \in DOMAIN files
  /\ pc \in {"visit", "send", "recv"} => cmd.op # "generate"
  /\ pc = "recv" => cmd.op \notin SetOps
  /\ pc \in {"visit", "send"} /\ cmd.op \in SetOps /\ trouble = {} =>
       \A x \in DOMAIN sent : FirstFlag(x, sent[x]) \/ Again(x)

LEMMA FirstInit == Init => FirstInv
<1> SUFFICES ASSUME Init PROVE FirstInv
  OBVIOUS
<1>1. FilesInv
  <2>1. PICK f \in FlagFiles : files = [p \in {"ctf_svrflags.txt"} |-> f]
    BY DEF Init
  <2> QED BY <2>1, GodAssumption DEF FilesInv
<1>2. calls \in Seq(Calls \cap NonEmpty)
  BY DEF Init
<1> QED BY <1>1, <1>2, TypeInit DEF Init, FirstInv

\* A list that has been entered goes on as such a list.
LEMMA ListTail ==
  ASSUME NEW lines, NEW c \in CallLists(lines), c # <<>>, Len(c) # 1
  PROVE  Tail(c) \in CallLists(lines) \cap NonEmpty
<1>0. c \in Seq(Line) /\ EndsInFirst(lines, c) /\ TakenFrom(lines, c) /\ Len(c) \in Nat
  BY DEF CallLists
<1> DEFINE t == Tail(c)
<1>1. t \in Seq(Line) /\ Len(t) = Len(c) - 1 /\ t # <<>>
      /\ \A i \in 1 .. Len(t) : t[i] = c[i + 1]
  <2>1. Len(c) \in Nat \ {0} /\ t \in Seq(Line) /\ Len(t) = Len(c) - 1
        /\ \A i \in 1 .. Len(c) - 1 : t[i] = c[i + 1]
    BY <1>0, NonEmptySeq
  <2>2. Len(c) - 1 \in Nat \ {0}
    BY <2>1, AboveOne
  <2>3. t # <<>>
    BY <2>1, <2>2
  <2> QED BY <2>1, <2>3
<1> HIDE DEF t
<1>2. ASSUME NEW i \in DOMAIN t, \A j \in DOMAIN t : j > i => Key(t[j]) # Key(t[i])
      PROVE  FirstFlagOf(lines, Key(t[i]), t[i].flag)
  <2>1. i \in 1 .. Len(t) /\ t[i] = c[i + 1] /\ i + 1 \in DOMAIN c
    BY <1>0, <1>1
  <2>2. ASSUME NEW j \in DOMAIN c, j > i + 1 PROVE Key(c[j]) # Key(c[i + 1])
    <3>1. j - 1 \in 1 .. Len(t) /\ (j - 1) + 1 = j /\ j - 1 > i
      BY <1>0, <1>1, <2>1, <2>2
    <3>2. t[j - 1] = c[j] /\ j - 1 \in DOMAIN t
      BY <1>1, <3>1
    <3> QED BY <1>2, <2>1, <3>1, <3>2
  <2> QED BY <1>0, <2>1, <2>2 DEF EndsInFirst
<1>3. TakenFrom(lines, t)
  <2> SUFFICES ASSUME NEW i \in DOMAIN t PROVE \E k \in DOMAIN lines : t[i] = lines[k]
    BY DEF TakenFrom
  <2>1. t[i] = c[i + 1] /\ i + 1 \in DOMAIN c
    BY <1>0, <1>1
  <2> QED BY <1>0, <2>1 DEF TakenFrom
<1> QED BY <1>1, <1>2, <1>3 DEF CallLists, EndsInFirst, NonEmpty, t

LEMMA AdvanceType ==
  ASSUME FirstInv, calls # <<>>
  PROVE  Advance \in Seq(Calls \cap NonEmpty)
<1>1. calls \in Seq(Calls \cap NonEmpty) /\ calls[1] \in Calls \cap NonEmpty
  BY DEF FirstInv
<1>2. Tail(calls) \in Seq(Calls \cap NonEmpty)
  BY <1>1
<1>3. CASE Len(calls[1]) = 1
  BY <1>2, <1>3 DEF Advance
<1>4. CASE Len(calls[1]) # 1
  <2>1. calls[1] # <<>>
    BY <1>1 DEF NonEmpty
  <2>2. Tail(calls[1]) \in Calls \cap NonEmpty
    BY <1>1, <1>4, <2>1, ListTail DEF Calls
  <2> QED BY <1>2, <1>4, <2>2 DEF Advance
<1> QED BY <1>3, <1>4

\* The flag that is sent is the first one's, or the daemon comes again.
LEMMA SendFlagStep ==
  ASSUME FirstInv, NEW ok \in BOOLEAN, SendFlag(ok)
  PROVE  FirstInv'
<1>0. /\ TypeOK' /\ pc' = "visit" /\ pc = "send" /\ cmd.op \in SetOps /\ calls # <<>>
      /\ UNCHANGED <<cmd, files, unwritten>> /\ calls' = Advance
  <2>1. Next
    BY DEF Next, Progress
  <2> QED BY <2>1, TypeStep DEF SendFlag, FirstInv
<1>1. FilesInv' /\ Calls' = Calls
  BY <1>0 DEF FirstInv, FilesInv, Calls
<1>2. calls' \in Seq(Calls' \cap NonEmpty)
  BY <1>0, <1>1, AdvanceType
<1>3. ASSUME trouble' = {}, NEW x \in DOMAIN sent'
      PROVE  FirstFlag(x, sent'[x]) \/ Again(x)'
  <2> DEFINE c == calls[1]
             n == Key(Node)
  <2>1. ok /\ trouble = {}
    BY <1>3 DEF SendFlag
  <2>2. sent' = [y \in DOMAIN sent \cup {n} |-> IF y = n THEN Node.flag ELSE sent[y]]
    BY <2>1 DEF SendFlag, Key
  <2>3. c \in Seq(Line) /\ c # <<>> /\ EndsInFirst(files["ctf_svrflags.txt"], c) /\ Node = c[1]
        /\ calls \in Seq(Calls \cap NonEmpty)
    BY <1>0 DEF FirstInv, NonEmpty, Calls, CallLists, Node
  <2>4. CASE Len(c) = 1
    <3>1. DOMAIN c = {1}
      BY <2>3, <2>4
    <3>2. FirstFlag(n, Node.flag)
      BY <2>3, <3>1 DEF EndsInFirst, FirstFlag
    <3>3. ASSUME x # n PROVE FirstFlag(x, sent[x])
      <4>1. x \in DOMAIN sent /\ ~ Again(x)
        BY <2>2, <2>3, <3>1, <3>3 DEF Again
      <4> QED BY <1>0, <2>1, <4>1 DEF FirstInv
    <3> QED BY <2>2, <3>2, <3>3
  <2>5. CASE Len(c) # 1
    <3>1. Len(c) \in Nat /\ Len(c) > 1
      <4>1. Len(c) \in Nat \ {0}
        BY <2>3, NonEmptySeq
      <4> QED BY <2>5, <4>1, AboveOne
    <3>2. calls' # <<>> /\ calls'[1] = Tail(c)
      <4>1. calls' = <<Tail(c)>> \o Tail(calls) /\ Tail(calls) \in Seq(Calls \cap NonEmpty)
        BY <1>0, <2>3, <2>5 DEF Advance
      <4> QED BY <2>3, <4>1
    <3>3. ASSUME NEW j \in DOMAIN c, j # 1, Key(c[j]) = x PROVE Again(x)'
      <4>1. j - 1 \in DOMAIN Tail(c) /\ Tail(c)[j - 1] = c[j]
        BY <2>3, <3>3
      <4> QED BY <3>2, <3>3, <4>1 DEF Again
    <3>4. CASE x = n
      <4>1. CASE \E j \in DOMAIN c : j > 1 /\ Key(c[j]) = n
        BY <3>3, <3>4, <4>1
      <4>2. CASE \A j \in DOMAIN c : j > 1 => Key(c[j]) # n
        <5>1. 1 \in DOMAIN c
          BY <2>3
        <5>2. FirstFlag(n, Node.flag)
          BY <2>3, <4>2, <5>1 DEF EndsInFirst, FirstFlag
        <5> QED BY <2>2, <3>4, <5>2
      <4> QED BY <4>1, <4>2
    <3>5. CASE x # n
      <4>1. x \in DOMAIN sent /\ sent'[x] = sent[x]
        BY <2>2, <3>5
      <4>2. FirstFlag(x, sent[x]) \/ Again(x)
        BY <1>0, <2>1, <4>1 DEF FirstInv
      <4>3. ASSUME Again(x) PROVE Again(x)'
        <5>1. PICK j \in DOMAIN c : Key(c[j]) = x
          BY <4>3 DEF Again
        <5>2. j # 1
          BY <2>3, <3>5, <5>1
        <5> QED BY <3>3, <5>1, <5>2
      <4> QED BY <4>1, <4>2, <4>3
    <3> QED BY <3>4, <3>5
  <2> QED BY <2>4, <2>5
<1> QED BY <1>0, <1>1, <1>2, <1>3 DEF FirstInv, FirstFlag

LEMMA BeginningType ==
  ASSUME NEW s \in Seq(Line), NEW n \in 0 .. Len(s) PROVE SubSeq(s, 1, n) \in Seq(Line)
OBVIOUS

LEMMA FirstStep == ASSUME FirstInv, [Next]_vars PROVE FirstInv'
<1>0. TypeOK'
  BY TypeStep DEF FirstInv
<1>a. FilesInv /\ calls \in Seq(Calls \cap NonEmpty)
  BY DEF FirstInv
<1>b. UNCHANGED files => FilesInv' /\ Calls' = Calls
  BY <1>a DEF FilesInv, Calls
<1>c. <<>> \in Seq(Calls' \cap NonEmpty)
  OBVIOUS
<1>1. ASSUME NEW c \in Commands, Start(c) PROVE FirstInv'
  <2>1. Work(c) \in Seq(Calls \cap NonEmpty)
    BY <1>a, WorkType
  <2> QED BY <1>0, <1>b, <1>c, <1>1, <2>1 DEF FirstInv, Start, Begin
<1>2. ASSUME NEW c \in Commands, InitFails(c) PROVE FirstInv'
  BY <1>0, <1>b, <1>c, <1>2 DEF FirstInv, InitFails, End, Begin
<1>3. ASSUME NEW f \in FlagFiles, Edit(f) PROVE FirstInv'
  <2>1. FilesInv'
    BY <1>a, <1>3, GodAssumption DEF Edit, FilesInv
  <2>2. pc' = "off" /\ calls' = <<>> /\ unwritten' = unwritten
    BY <1>3 DEF Edit, FirstInv
  <2> QED BY <1>0, <1>c, <2>1, <2>2 DEF FirstInv
<1>4. CASE OpenFlags
  <2>1. NewFlags \in Seq(Line)
    BY <1>a, NewFlagsType DEF FirstInv
  <2>2. FilesInv' /\ cmd.path \in DOMAIN files'
    BY <1>a, <1>4 DEF OpenFlags, FilesInv
  <2>3. pc' = "write" /\ calls' = <<>> /\ unwritten' = NewFlags /\ cmd' = cmd
    BY <1>4 DEF OpenFlags, FirstInv
  <2> QED BY <1>0, <1>c, <2>1, <2>2, <2>3 DEF FirstInv
<1>15. CASE OpenFails
  BY <1>0, <1>b, <1>c, <1>15 DEF FirstInv, OpenFails, End, history
<1>14. ASSUME NEW n \in 0 .. Len(unwritten), WriteFlags(n) \/ Kill(n) PROVE FirstInv'
  <2>1. SubSeq(unwritten, 1, n) \in Seq(Line)
    BY BeginningType DEF FirstInv
  <2>2. FilesInv'
    BY <1>a, <1>b, <1>14, <2>1 DEF WriteFlags, Kill, Written, FilesInv
  <2>3. pc' = "off" /\ calls' = <<>> /\ unwritten' = <<>>
    BY <1>14 DEF WriteFlags, Kill, End
  <2> QED BY <1>0, <1>c, <2>2, <2>3 DEF FirstInv
<1>5. CASE NoSocket
  <2>1. calls' \in Seq(Calls \cap NonEmpty)
    BY <1>a, <1>5, NonEmptySeq DEF NoSocket
  <2>2. trouble' # {} /\ pc = "visit" /\ pc' = "visit" /\ UNCHANGED <<files, cmd, unwritten>>
    BY <1>5 DEF NoSocket
  <2> QED BY <1>0, <1>b, <2>1, <2>2 DEF FirstInv
<1>6. ASSUME NEW why, Down(why) PROVE FirstInv'
  <2>1. /\ trouble' # {} /\ pc = "visit" /\ pc' = "visit" /\ UNCHANGED <<files, cmd, unwritten>>
        /\ calls # <<>> /\ calls' = Advance
    BY <1>6 DEF Down
  <2> QED BY <1>0, <1>b, <2>1, AdvanceType DEF FirstInv
<1>7. CASE Connect
  BY <1>0, <1>b, <1>7 DEF FirstInv, Connect, Again, FirstFlag
<1>8. ASSUME NEW ok \in BOOLEAN, SendRequest(ok) PROVE FirstInv'
  BY <1>0, <1>b, <1>8 DEF FirstInv, SendRequest, history
<1>9. ASSUME NEW ok \in BOOLEAN, SendFlag(ok) PROVE FirstInv'
  BY <1>9, SendFlagStep
<1>10. CASE SigPipe
  BY <1>0, <1>b, <1>c, <1>10 DEF FirstInv, SigPipe, End, history
<1>11. ASSUME NEW r \in Replies, Receive(r) PROVE FirstInv'
  <2>1. /\ pc = "recv" /\ pc' = "visit" /\ UNCHANGED <<files, cmd, unwritten>> /\ cmd.op \notin SetOps
        /\ calls # <<>> /\ calls' = Advance
    BY <1>11 DEF Receive, FirstInv
  <2> QED BY <1>0, <1>b, <2>1, AdvanceType DEF FirstInv
<1>12. CASE Exit
  BY <1>0, <1>b, <1>c, <1>12 DEF FirstInv, Exit, End, history
<1>13. CASE UNCHANGED vars
  BY <1>0, <1>b, <1>13 DEF FirstInv, vars, Again, FirstFlag
<1> QED
  BY <1>1, <1>2, <1>3, <1>4, <1>5, <1>6, <1>7, <1>8, <1>9, <1>10, <1>11, <1>12, <1>13, <1>14, <1>15
  DEF Next, Progress

\* A run that sets flags and meets no trouble leaves every daemon it wrote to with
\* the flag of its first line: for every configuration, every number of lines for one
\* daemon, and every number of rounds.
THEOREM FirstLinesWin == Spec => []FirstLineWins
<1>1. FirstInv => FirstLineWins
  <2> SUFFICES ASSUME FirstInv, pc = "visit", calls = <<>>, cmd.op \in SetOps, trouble = {},
                      NEW x \in DOMAIN sent
               PROVE  FirstFlag(x, sent[x])
    BY DEF FirstLineWins, FirstFlag, FirstFlagOf, Key
  <2> QED BY DEF FirstInv, Again
<1> QED BY <1>1, FirstInit, FirstStep, PTL DEF Spec
=============================================================================
