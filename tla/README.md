# TLA+ models of the HITB CTF programs

The repository holds the programs of several capture-the-flag games: game
infrastructure (servers that hand out flags and check daemons), network services
that were attacked, and reverse engineering binaries.  The modules here model the
parts with state, concurrency and failure; TLC checks them on small instances and
TLAPS proves the most important invariants for all of them.

Paths below are relative to `src/`.

## The system's parts

### libctf (HITB_2009_CTF/libctf), the core of the repository

One library, built twice.  With `CTF_SERVER` it is `god.ctf` (`god.c`), which the
organisers run; with `CTF_CLIENT` it is linked into the teams' daemons
(`client-daemon.c`, `daemon2.c`, or any daemon with
`CtfLib_MakeStandAloneSocket`).  They exchange one RSA packet per TCP connection.

| part | state | operations |
| --- | --- | --- |
| `god.ctf` | lists of teams, of flags per team and of checksums; `iLastError`; open sockets; `ctf_svrflags.txt` | parse the configuration; propagate (`-p`), generate (`-m`), check, get and set flags or hashes of selected daemons; exit status |
| daemon | flag file, `iLibInitialized`, public key, connections | `CtfLib_Init`, `CtfLib_ClientProcess` (GETFLAG, SETFLAG, two checksums), the accept loop or the select loop |

Hard: one `iLastError` for a walk over many daemons; SETFLAG has no reply; data of a
connection may arrive late and connections are served out of order; the flag file is
truncated and then written, and takes a descriptor from the pool of the connections;
`socket()`, `accept()`, `fopen()` and `fwrite()` may fail; daemons crash and restart;
players touch the flag file; strangers connect.  Correct means: the exit status says what it
should, the daemon ends up with the right flag, a check does not report a loss that did not
happen, nobody waits for ever.

### Other parts with state

* **ctf_bin2** (HITB_2009_CTF): five threads decrypt an array by turns, handed round
  by *named* auto-reset events, which every process of the session shares.  Correct:
  one turn, never lost; the result is that of the one-threaded `TestDecrypt`.
* **WhatJustHappened** (HITB_2011_CTF): a thread replaces a key and the message
  encrypted with it, two servers hand them out under `threadLock`, clients fetch them in
  two calls.  Correct: message and key belong together, the lock is given back.
* **hitbkl2012_klks**: a management interface with a thread per connection; every login is
  verified by one small virtual machine under a mutex, which nobody resets between
  logins.  Correct: the verdict is that of the connection's own challenge and response.
* **hitbkl2012's virtual machine** (`vm_processor.c`): registers, a stack and a comparison
  bit that live as long as the process; host code runs blocks of virtual code.  Correct: the
  stack keeps its bounds and its words, a block does not depend on what ran before.
* **bit_steal** (HITB_2010_KL_CTF): main re-reads flag and seed while one thread
  broadcasts the encrypted flag and another hands out the seed bit by bit.  Correct: a
  broadcast is whole, a reader's seed is torn only by a change, a request is answered or closed.
* **libctf_2010_v2/god.py**: the successor of `god.ctf`, over SSH, one exit status for a
  walk over teams and ports, and a directory that several runs share.
* **CantTouchThis** (HITB_2011_CTF): a compiler behind one lock, with a cache of 15 s.
* **SpamTools**: a queue of addresses and ten workers.
* **ctf_bin5** (HITB 2009 and wargames.my 2011): a dialog whose verdict on a serial is
  computed when the text changes and shown when a button is pressed.
* **Befunge crackme** (HITB_2010_KL_CTF): an interpreter on lines of unequal length.
* **bin200_layer1** (HITB_2011_CTF): a table of random pointers that encodes a flag.

### Parts without interesting state

`ctf_bin1`, `ctf_bin3`, `ctf_bin4`, `mmx_bin`, `SimpleDecrypt`, `backup_100`, `backup_bin200`,
`DynamicHearing`: straight-line puzzles and decoders.  `rot13svr.py`, `connect_back.py`,
`udp_bcast.py`, `gopherserver.py`, `d2/daemon2.c`: socket scripts.  `miracl.h` and
`libctf_md5.c` are third-party code.

## Modules

| module | models | composes |
| --- | --- | --- |
| `CtfGod` | `god.c`, server half of `libctf.c` | |
| `CtfDaemon` | client half of `libctf.c`, `client-daemon.c`, `daemon2.c` | |
| `CtfSystem` | both, with network, strangers, crashes and players | `CtfDaemon` (extended), `CtfGod` (instance) |
| `EventRing` | `ctf_bin2.cpp`, release build | |
| `SequentialDecrypt` | `TestDecrypt` of `ctf_bin2.cpp`, the abstract specification of `EventRing` | |
| `KeyServer` | `Server.py` and the clients of WhatJustHappened | |
| `Reactor` | `daemon.c` of hitbkl2012_klks and the operations of `vm_processor.c` it uses | |
| `VmProcessor` | `vm_processor.c`: every instruction, and `vm_strlen` | |
| `VmStack` | a bounded stack, the abstract specification of `VmProcessor`'s | |
| `BitSteal` | `bit_steal.c` and `solution.py` | |
| `GodPy` | `god.py` | |
| `CantTouch` | `server.py` and `compile.py` of CantTouchThis | |
| `SpamPool` | `ctf_spammaster.py` | |
| `SerialCheck` | both editions of ctf_bin5 | |
| `Befunge` | `parser.py` | |
| `BitLookup` | `bin200_layer1.cpp` | |
| `Lists` | what a loop over a list picks out of it (`Keep`) or sums up of it (`Total`), as recursive functions | |
| `MC...` | constants for TLC; `MCServices` and `MCPrograms` hold several programs, of which one runs | |
| `...Proofs` | theorems; `ListProofs` has those about `Lists` and concatenation, and induction | |

Operators called `...Mutant` or commented "Mutant of X" are wrong variants of X.
Nothing refers to them; substituted for X they show that the property named in
`PROJECT.json` can fail.

### CtfGod

A run of the program is `Start` (or `InitFails`), a walk over the selected daemons, and
`Exit`.  `calls` is the walk still to do: one sequence of daemons per call of
`CtfLib_SvrEnumClients2`, so that `NoSocket`, the `return` after a failed `socket()`, drops
the rest of one call (`Tail(calls)`).  It may happen at any daemon: the run may hold every
descriptor it can have (`"exhausted"`), or the system has none to give (`"refused"`: ENFILE,
ENOBUFS).  For the daemon at the head, `Connect` or `Down` is `connect_time()`, then
`SendFlag` (a SETFLAG, behind which the connection is closed), or `SendRequest` and
`Receive`.  `Verdict` is what the branches after the reply leave in `iLastError`.
`Down("unreachable")` is the failure that leaves the socket open, the other two close it.
`CtfLib_SvrGenNewFlags` is `OpenFlags`, which empties the file, or `OpenFails`, and then
`WriteFlags`, which on a full disk writes only a beginning of `unwritten`.  `Kill` is a run
that is interrupted, anywhere; what stdio holds then is lost.  `Teams`, `FlagsOf` and
`Parses` are the linked lists that `CtfLib_SvrParseConfigs` builds: lines are inserted at
the head, a flag goes to the first team of its address only, an unknown address or a second
checksum of a port fails.  A list that a loop filters is `Keep(list, set)`: in `FlagsOf` the
lines of a team, in `Work` those on the port asked for. `visited`, `trouble` and `sent` are
history that only properties read.

### CtfDaemon and CtfSystem

`backlog` is the listen queue, `conn` the connection of each descriptor.  The constant
`Loop` selects the accept loop (`Accept`, `Read`, `ReadEnd`, `ReadError`) or the select loop
(`Select`, then one `Pass...` step per descriptor that select has returned, lowest first,
the listening socket being the lowest).  Both call `ClientProcess`, which drops a packet
while the library is not initialised or when it is stale (`Fresh`), and else answers or
writes the flag file: `OpenFlag` truncates, `WriteFlag` writes, and a crash may come
between.  `Fds` are the descriptors left for connections *and* the flag file: where the
connections hold all of them `fopen()` fails, which drops the flag (`OpenFlag`) or makes an
empty reply (`GetFlag`), and both may fail otherwise.  `Die` says why the daemon ended, so
that properties can tell a crash, a failed `accept()` and the reset of a connection apart;
what came in and was not read is then lost.  In `CtfSystem` a connection's data arrives by
`Deliver` at any time after it was written, also when the writer has left; every action of
`CtfGod` is conjoined with its effect on the connections.  Time is counted in ticks longer
than the ten seconds a send or receive may take.  A packet of anybody without the key cannot
be decrypted, so strangers only open, hold and end connections.

### EventRing

One step per statement that other threads can tell apart: `Wait` (the event is reset by
the wait it satisfies), `XorWords`, `Set`.  `Start(p)` creates the events or, when another
process holds them, opens them unchanged.  `Kill(p)` ends a process anywhere; events that
nobody holds any more are destroyed, the next `Start` makes new ones.  A word is the
set of table entries still xored into it, which makes the tables' contents
irrelevant: `{}` is the plaintext whatever they hold.

### KeyServer

The rotation is four steps inside `threadLock` (`RotateAcquire` .. `EncryptMessage`), the
TCP handler two (`TcpAcquire`, `TcpSend` or `TcpSendRaises`), the XML-RPC calls one, for
they only read.  Keys are their sixteen digits: `CompletedNumber`, `MangleKey`, `CleanKey`
and `LuhnValid` do what the code does to them: the two sums are `Total` of a weight for
every digit, and `CleanKey` keeps the digits of what was mangled.  The time between
rotations is abstracted: a rotation may come whenever the lock is free.

### Reactor

`pc[c]` is where the thread of a connection is: `Accept` starts it, `Greet` and the reads are
`LoginCheck`, `Lock` to `EndOfApp` are `VerifyChallengeResponse`, one step per block of bytecode
and one per round of its two loops.  The state that outlives a login is `challenge`,
`response`, `reg6`, `reg7` and `good_bad_flag`; registers that every login sets before it reads
them are left out.  Words have eight hex digits of `Nibble` values: 16 in the code, 4 in the
runs, since TLC's integers have 32 bits.  All shifts in the bytecode but the
checksum's are whole digits, so the algorithm is the same for each `Nibble`.  Two
facts about the build (`-O0 -m32`) go into the model: the `jnz` at line 164 sees the flags of
`VM_PARSER`'s last loop test, which is "equal", and never jumps; the local text that
`GenerateChallengeCode` appends to lies on a stack that was never used before.  The receive
timeout of a login is set with microseconds that nobody sets (daemon.c:289-291), so
`setsockopt()` may refuse it: `ReadNothing` may come, and need not.

### VmProcessor and VmStack

Code is a sequence of units (an opcode, an operand byte); `vm_ip` is the rest of the block.
`RunBlock` is the host's `VM_ENTER` with any of `Blocks`, `VM_PARSER` dispatches one instruction:
`VM_PUSH_Process` and its like take it apart as the code does, and end in `VM_CRITICAL_ERROR`
(which exits) where the code does.  After the host's blocks comes `vm_strlen`, C code with
three blocks in it.  Bytes have `Byte` values and a word four bytes.  `VmStack` knows nothing of
`vm_esp`: pushes, pops, everything else, and a machine that stopped.  PUSH moves
`vm_esp` before it writes, so word `StackWords` lies behind the 10240 bytes asked for; in
the Makefile's 32-bit build the chunk malloc returns has 10244 usable bytes, so that the
write stays inside it.

### BitSteal

A flag, a seed and a key are the number of the `PoolFlagChange` they came from, so "torn" and
"stale" are comparisons.  `PoolFlagChange` is a step for each thing it does to the shared
buffer under `mutex1`, with every way the file may fail; `BroadcastTraffic` and
`ProcessIncomingTraffic` are the threads, `Bind` to `Reply` the second one's statements.
`Solution` is `solution.py`: it takes a packet from the sniffer, then asks for every bit in a
connection of its own.  A request is one `read()`, which may find it late or only a part of
it: the connection is then closed, and the reader's `recv()` returns nothing or raises
(`Reset`).  `timed` says whether the receive timeout of the connection is in force: the code
sets three seconds and leaves the microseconds as they were on the stack
(bit_steal.c:522-524), for which `setsockopt()` may fail, and nobody looks.  A byte of the
seed of which no bit came is no number for `int()` and ends `solution.py` (`cur_bits`).

### GodPy, CantTouch, SpamPool

`GodPy` has a record for every run: the daemon it is at, the command of `getFile` or
`getFileHash` it does next, and its exit status.  `remote` and `dl_tmp` are the two directories
all runs share; a run that is killed leaves its files.  `cp` is a read and a write
(`CopyRemote`, `WriteRemote`; a killed run's command goes on, so that `Crash` waits for the
write), and the SFTP get is four steps: `Download` reads the team's copy, `OpenLocal` makes
`dl_tmp` here or empties it, `WriteLocal` writes what was read, also over what another run
has put there, or to no name when another run has removed the file (`opened`), `CheckSize` is
paramiko's comparison of sizes.  `held` is what was read and is not yet written.  `seen` and
`disturbed` are history; a run inherits `seen` from the runs it finds there, for what they have
read may still be written.
`CantTouch` numbers the compiling calls of the server and of `compile.py` together; files hold
the numbers of the calls that wrote them.  `SpamPool` has ten workers that take an address and
never give it back.

### SerialCheck, Befunge, BitLookup

`SerialCheck` has the checks of `ValidateSerial` in their order, with the ints and 16-bit
masks of the code (`Right` words are compared with what `GenerateSerial` makes).  It is about
words: the edition of 2009 has no check of characters and takes lower case too, so that the
words of its one serial are those of several texts; the later edition refuses any but
digits and capitals.  `Befunge` has
one disjunct for each instruction, and the recursion of `VMNextDirection` as `Min` over
the lines it walks past.  `BitLookup` keeps the shadowed `rbyte`: the position drawn
again after a byte was given up never reaches the table entry.

## Runs

| run | question | bounds |
| --- | --- | --- |
| `ring_one` | type invariant; `EventRing` implements `SequentialDecrypt` | five threads as in the code, 8 turns, one process, one kill |
| `ring_two` | one turn for two processes, nothing lost, plaintext, termination | four threads, 2 turns each, two processes, one kill |
| `god` | exit status, flags sent, termination of `god.ctf` | three team lines (one address twice), two flag files, one daemon listed twice, one without checksum, one flag too long for a packet, 2 descriptors, two runs |
| `god_no_entry` | (violated) a hash check without an entry fails | as `god` |
| `god_overwrites` | (violated) the generator spares an existing file | as `god` |
| `game_accept` | flag, check and order with the accept loop, and what may hold it up | one daemon with a descriptor for a connection and one for the flag file, three runs of `god.ctf`, backlog 2, one stranger, one crash or change of the file, 1 tick, PACKET_TIMEOUT 1 tick |
| `game_select` | flag that is left, and progress, with the select loop | three descriptors, backlog 1, one stranger, the daemon's clock one tick behind, PACKET_TIMEOUT 1 tick, 2 ticks |
| `keyserver` | pair, fetch, answers | two clients, two rotations, one reset, four prefixes, three fills |
| `reactor` | whose text, whose verdict, an answer for all | three connections, two threads, two challenges of two characters, hex digits of two bits; right, undashed, two-dashed, broken and short responses |
| `reactor_order` | (violated) the documented order of the answer is the accepted one | one connection |
| `services` | bit_steal: whole broadcasts, torn seeds, answers; CantTouchThis: fresh shellcode, lost lock; spammers: who is contacted | seed of one byte of two bits, one talk key, two changes, one broadcast buffered, one stranger; three compiling calls, one of `compile.py`, a clock of 4 with a limit of 2; two workers, two ports, at most three addresses |
| `programs` | the machine's stack and `vm_strlen`; `god.py`'s status; serial; table; Befunge moves | bytes of two values, a stack of two words, 13 blocks, four calls by the host; two runs, two teams, two ports, one crash, one change; programs of two or three short lines, a stack of two; the serials and each with one word wrong; a buffer of two words of two bytes of two bits, flags of two bits |

Why these are enough.  `ring`: two turns per thread let each thread wrap round, and a word
be revealed on the first, the last or any turn between; two processes are the least that
share events.  `god`: two descriptors let one leak leave one usable and the second use up
the rest; two runs let a generated file be read again; a daemon listed twice and a doubled
team are the least with an order.  `game`: three runs are propagate, generate, propagate (or
check), the least in which an old flag competes with a new one; a backlog of two holds the
old connection and the new one, or a stranger in front; ticks reach PACKET_TIMEOUT;
connections can hold every descriptor the select loop has, and leave one for the flag file.
`god` has every run killed at every step, too.  `keyserver`: two rotations give a client a
key on either side of its message, and a key before the first; two clients let one suffer
from the other's reset.  `reactor`: two logins are the least in which one inherits from
another, and a third connection fails to get a thread; for each path through the
verification there is a response that takes it.

`services`: two changes put a seed on either side of a packet; two bits let a reader take
one before and one after a change, or miss one or both; one stranger at a time can hold the
daemon. Three calls are the least in which a cached answer follows a failed one.  Three
addresses are one more than the workers.  `programs`: two words fill the stack and the third
push fails, two pops empty it; each instruction occurs, and each refusal.  Two runs share
`dl_tmp`, one that is killed leaves files for the other; a daemon without a row in
`active_flags` (`Job("checkflag", 2, 2)`), a port without checksum and an address nobody has
are asked for.  Lines of length 0, 1 and 2 make each wrap of each direction happen.

`ImplementsStack` is a refinement too: the items are the words below `vm_esp`.

`RefinesSequential` is the refinement: TestDecrypt's counter is read off the loop
counters of the threads, its array is the array of the threads, and every step of a thread
is a step of the loop or a stutter.

Deadlock checking is off: each of these programs may end, and a killed process, a
daemon that is down or a server whose lock was lost may leave nothing to do.

### What the runs show

* The event ring has one turn for all processes of a session, whoever starts or
  ends when.  Two copies of the program simply alternate.  A killed process may take
  the turn with it and stop the others for ever (`Termination` excepts it).
* `god.ctf` cannot leave with success after it passed over daemons because it had used up
  its own descriptors, though nothing sets the error there: they only run out by failed
  connects, and the FAIL of the last one stays (`ExhaustionIsReported`).  Where the *system*
  refuses a socket the code returns the same way, and the run may well end with success:
  the daemons passed over are in no exit status.
* The exit status of a check is the verdict on the *last* daemon that a socket was had
  for, in both directions (`VerdictOfLast`): what became of those before it, and of those
  passed over, does not show.  An unknown port or address checks nothing and succeeds.
* With a daemon listed twice the flag of its first line stays.
* A flag that `god.ctf` sent may be lost in a daemon that lives: when `fopen()` fails, as it
  must while connections hold every descriptor of the select loop, and when the disk is
  full.  `Settled` excepts these (`disturbed`), and shows that there is no other way.
* SETFLAG and the accept loop: flags are never applied out of order, and a check never
  overtakes the flag.  The select loop can apply an older flag after a newer one, but
  only one that is still fresh by the daemon's clock.
* The accept loop reads whatever was sent, or it waits in `read()` for a stranger who stays
  silent, or it has ended, by a crash, a failed `accept()` or a connection that was reset, and
  has lost what it had not read: `HeldByStrangerOnly` names each of these and holds though
  `god.ctf` may hang.  The select loop reads whatever was sent in spite of silent strangers
  and of resets; only a crash or a failed `accept()` ends it (`Served`), and strangers who
  keep their connections open bring the latter about.
* In `KeyServer` a wrong decryption always means a rotation between the two calls.  If
  `send()` raises on a reset connection, `threadLock` is never released again and
  all clients and the rotation wait for ever; `Answered` excepts that.

* In `Reactor` the verdict of a *complete* response (nine characters, eight digits or more)
  is its own, whatever the machine remembers.  Others depend on the logins before: a
  response that breaks off at a bad character gets the last verdict, one of seven
  digits is completed from the last one's.  `ComparedOnce` says how far this goes: nothing is
  accepted before a response was compared and found right.
* A connection beyond the number of threads is never served.  `Served` speaks of those that
  have one and whose response was read: it is judged and answered, also beside peers that
  are silent for ever, which hold their own thread only.

* The machine's stack is a stack of exactly `StackWords` words, and `vm_strlen` returns
  the length whatever ran before: it sets all that it reads.
* A broadcast of bit_steal is never in the clear and never encrypted with a seed of
  another change, though two threads and failing file reads meet in one buffer.  A seed
  read bit by bit may be the beginning of an old one and the end of a newer one, and is the
  packet's own if it has its full length and its last bit is still from the packet's change.
  Bits are missing where a request came late or in parts, or after the daemon's end.  A
  silent client delays others for a bounded time where its receive timeout is in force, and
  otherwise until it leaves: `Answered` excepts that one case.
* CantTouchThis keeps its lock for ever after a call that left no `shellcode.txt`, and only
  then.  A client may get the answer of a program compiled in an earlier call when
  `compile.py` runs beside the server, not otherwise.
* The spammers contact the first addresses for ever and the ones beyond the number of
  workers never; `join()` returns for an empty list only.
* `god.py` with one daemon and nothing in the way tells exactly what there is.  With several
  runs at a time a check of the programs may hash the file of another team; a check of a flag
  still proves that some flag it was asked for was right at some time since runs are there
  without a break.  Not since the check began: a run that asked for an older copy before may
  write it over the file that the check is about to hash.
* ctf_bin5 accepts the words of its generator's serial and no other, but for one way: the
  later edition accepts as soon as more than 255 ticks lie between two time stamps.
* Befunge's moves are those of a torus except over the edge: `^` wraps to `len(...)`, one
  line too far, and `v` from the last line to a first line too short for the column
  asks no line for its length.  Both end the interpreter with an exception.

Three runs end with a violation, see `findings` in `PROJECT.json`: the assignment in
`if(iFound = 0)` (libctf.c:1563), and the test of `CtfLib_SvrGenNewFlags` (libctf.c:2105-2106)
that contradicts its comment, and the order of the reactor's answer (daemon.c:99-101), which
is CCBB-DDAA in the bytecode and in `solution.py`, DDBB-AACC in their comments.

Not a run, for it needs none: the message of WhatJustHappened and `idea.txt` say that the
key is blacklisted when it is given out; `blacklistKey` (Server.py:55) does nothing.

## Fairness

* `EventRing`: each thread runs when it can, and `main` returns from its wait.  Events
  release one waiter; with two processes several threads wait for one event, and the run
  shows that weak fairness suffices.  Starting or killing a process is never assumed.
* `CtfGod`: whatever it waits for ends by a timeout (connect 5 s, send and receive 10 s).
  Starting a run, editing files and killing a run are not assumed.
* `CtfSystem`: the daemon and the running `god.ctf` go on, TCP delivers.  Booting a daemon,
  new runs and strangers that leave are not assumed.  For the accept loop not even that
  `god.ctf` goes on (`DaemonFairSpec`).
* `KeyServer`: the threads run; a waiting thread gets the lock.  Weak fairness is
  enough since rotations are bounded in the model, and minutes apart in the code.
* `services`: bit_steal's threads run and its client goes on; a thread that asks for
  `mutex1`, free again and again since the broadcast sleeps five seconds without it, gets
  it at last (strong fairness), so does a worker that asks for the spammers' print lock.
  A `read()` ends when its client has sent something or its receive timeout is in force.
  Changes, signals, and strangers that connect or leave are not assumed.  `programs`
  assumes nothing.
* `Reactor`: threads run, and a free mutex goes to one that waits.  Nobody has to connect or
  to send a signal, and no `read()` has to end: the receive timeout may not be in force.

## Proofs

| theorem | says | argument |
| --- | --- | --- |
| `EventRingProofs!TypeCorrect` | types, any number of processes, threads, turns | inductive with `LoopInv` (the counter is below the bound until the thread returns) |
| `EventRingProofs!TurnIsSingle` | `SingleTurn` | `OneHolder` is not inductive alone: a thread could be woken by a second signalled event.  `TurnInv` adds `NoLostSignal` (no event is signalled while a thread has the turn, and never two) and `NewWaits` (a process not started has its threads at their wait) |
| `EventRingProofs!CaptureCorrect` | `CapturedIsPlain` | `WordInv` gives the contents of every word after `t` turns in closed form (`Left`); lemma `XorLeft` is the step from `t` to `t+1` |
| `EventRingProofs!RingInStep` | `InStep` | `RingInv`: while a process runs and none was killed there is a turn, at a position `t` after `r` rounds, and the positions it has passed are one round ahead; the counts are cardinalities of finite sets of (process, turn) pairs, to which `Set` adds one |
| `EventRingProofs!RingRefines` | `Spec => RefinesSequential` for one process | `SequentialInv`: at round `r` and position `t` of the loop the threads before `t` have done one turn more than the others (`Row`), what is copied is what the loop has copied; `NextIs` says which turn is next.  `Set` then maps to the step of the loop that decrypts that word, every other step and a kill to a stutter |
| `CtfGodProofs!GodTypeCorrect` | types | inductive as it stands |
| `CtfGodProofs!ExhaustionsAreReported` | `ExhaustionIsReported` | `DescriptorInv`: when no descriptor is left between two daemons, `iLastError` is FAIL, and once a call was cut short for that reason none is left; a socket that the system refuses changes neither |
| `CtfGodProofs!VerdictsAreOfLast` | `VerdictOfLast`, in both directions | `VerdictInv`: between two daemons `iLastError` is the verdict on the one visited last; lemma `VerdictConfirms` on the reply's tests; `NoSocket` visits none |
| `CtfGodProofs!FirstLinesWin` | `FirstLineWins` | `FirstInv`: a daemon that was sent a flag got the one of its first line, or the list at hand comes to it again; for `Keep` preserves order (`KeepOrder`), and parsing has built the list by inserting at the head |
| `CtfSystemProofs!GodImplemented` | `Spec => GP!Spec`: what `god.ctf` does in the system is what `CtfGod` allows it by itself | each action of the system is an action of `CtfGod` conjoined with effects on the network, or leaves its variables alone; so all that is proved of `CtfGod` holds in the system |
| `CtfSystemProofs!SystemTypeCorrect` | `TypeOK` | `WireInv`: what may be in the queue and behind a descriptor; `LiveInv`: at most one connection of the control program is open |
| `CtfSystemProofs!AcceptNeverRegresses` | `NoRegress` for `Loop = "accept"` | `OrderInv`: the flags on their way, from the connection being read back through the queue, are sorted, none is older than the file's, and nothing is sent behind the open connection |
| `CtfSystemProofs!AcceptNeverPwns` | `NoFalsePwned` for `Loop = "accept"` | `PwnInv` with `OrderInv` and `SettledInv`: the daemon takes a check from the open connection, behind which no flag is on its way, so that the last one issued is in the file by then |
| `CtfSystemProofs!FlagsSettle` | `Settled`, for both loops | accept: `SettledInv`, the flag issued last is the last one on its way, or none is and it is in the file, or a call of the daemon has failed (`disturbed`); select: `StaleInv`, a waiting flag that is not the last one issued is stale by the daemon's clock, whatever the skew, and `WaitsInv`, the last one waits or is written |
| `KeyServerProofs!ServerTypeCorrect` | types | `CompletedNumberRight`: whatever is drawn, a key has sixteen digits; `CleanMangled`: cleaning a mangled key gives back the key |
| `KeyServerProofs!FetchesSound` | `FetchSound` | `LuhnCompleted`: the check digit makes `LuhnValid` true of every completed number, by comparing the two weights digit by digit and adding up (`TotalSame`, `TotalNext`); `FetchInv`: a client that has its message from the current key has the message of that key |
| `KeyServerProofs!PairStaysIntact` | `PairIntact` | `LockInv`: who is inside the lock at each step of the rotation and the handler |
| `ReactorProofs!TextsAreOwn` | `OwnTexts` | `OwnInv`: whoever is past the lock owns the mutex, and the buffers always hold whole texts of one length; lemma `Overwritten`: such a text leaves nothing of the one it replaces |
| `ReactorProofs!ReactorTypeCorrect` | types, registers of 32 bits | `Registers` on top of `OwnInv`; lemma `Words`: each operation of the machine gives a word |
| `ReactorProofs!AcceptedWasCompared` | `ComparedOnce` | `ComparedInv`: the flag is set only if a response read to its end was compared, by a thread that has its verdict or still owns the mutex |
| `ReactorProofs!CompleteIsJudged` | `CompleteJudged`, at 32 bits as at every other width | `JudgeInv`: where each loop is, REG7 is what `solution.py` has summed up so far modulo 2^32 (`RoundIsSum`), and REG6 ends with the digits read so far (`HoldsNext`), so that eight of them fill it (`HoldsAll`); the shifts and masks of `exit_forming_loop` put its bytes in the order zxwy (`ReorderedBytes`), which is `solution.py`'s (`ComparesDigits`); a word is its eight digits (`WordOfDigits`, `DigitsOfWord`) |
| `ProgramsProofs!StackBoundedThm` | the stack stays in its bounds and nothing else is written, for every code | lemma `ParserSteps` sums up what an instruction can be for the stack: push, pop, or neither |
| `ProgramsProofs!ImplementsStackThm` | `ImplementsStack` | every step maps to `PushWord`, `PopWord`, a step of the rest or a stutter, by `ParserSteps` and the bound |
| `ProgramsProofs!StrlenCorrect` | `StrlenRight` | `StrlenInv`: at each of the twelve places between two instructions of `vm_strlen`, what OP_REG13, OP_REG14 and the comparison bit say of the string (`Scanning`, `HasByte`, `HasMoved`, `HasCompared`); of what ran before nothing is asked.  An address that wraps to 0 faults, for nothing is mapped at NULL |
| `ServicesProofs!WholeInvThm` | the buffer is whole outside `PoolFlagChange`, the mutex excludes | inductive: `Exclusion` (who owns `mutex1` at which statement) and `BufferState` (how far a change is) |
| `ServicesProofs!BroadcastWholeThm` | `BroadcastWhole` | from `WholeInv`: whatever is sent is copied while the buffer is whole |
| `ServicesProofs!TornOnlyByChangeThm` | `TornOnlyByChange` | `TornInv` adds to `WholeInv`: `Order` (nothing is made from a seed newer than the present one, bits are sorted), `Requests` (while the daemon lives one request of the reader is on its way, the one it waits for), `Answers` (an answered bit is from a seed between the packet's and the present one) and `Progress` (where the reader is) |
| `ServicesProofs!ShellcodeFresh` | `FreshShellcode` | `TouchInv`: what is in `shellcode.txt` was written since the call began (`WrittenSince`); where only the server has written, `test.exe` and `shellcode.txt` are of this call, or the last call left neither and holds the lock (`OwnFiles`); the answer kept in memory is good while it is young enough to be given (`MemoryInv`) |
| `ServicesProofs!LockLeftByFault` | `StuckAfterFault` | part of the same invariant, which needs it: a lock that is kept is what makes a left-over `test.exe` harmless |
| `ServicesProofs!OthersNeverContacted` | `FirstOnly`, the safety part of `FirstForEver`, for every number of workers and addresses | `PoolInv`: the workers that have taken an address are as many as the queue is shorter, and each has one of the first ones; `GetStep` is the only step that takes one |
| `ProgramsProofs!TableDecodes` | `KeyIsFlag` | `TableInv`: unless a byte was given up, every entry made so far shows its bit of the flag, and what is decoded so far is what the entries show |
| `ProgramsProofs!VerdictIsSound` | `VerdictSound` of `GodPy` | `FreshOf`: wherever a run may take a flag from (the copy on the team's machine, `dl_tmp`, what it has read and not yet written, the hash it keeps) the flag was seen on a disk, since other runs write only what they have read (`FilesStep`), and the runs that are there have all seen the same (`SameInv`); `CleanOf`: undisturbed, they are exactly what is on the disk, and the file it has opened here is the one of that name (`LinkInv`) |
| `ProgramsProofs!VerdictIsExact` | `VerdictExact` of `GodPy` | `ExactOf`: a run that is asked about one daemon has either the verdict on it (`VerdictOf`) or still has -2 and is on its way to it (`ToCome`); `AloneInv`: an undisturbed run is the only one |
| `ProgramsProofs!OnlyTheSerialThm` | `OnlyTheSerial`: of all texts there are | the checks fix one word after the other: `DigitsOf` leaves 81 numbers for the evil prime, `PrimeByRoot` needs divisors up to the root only, then the equations give the rest (`SeventhWord`, `FifthWord`, `FirstSerial`, `SecondSerial`) |
| `ProgramsProofs!MovesOnTorusThm` | `MovesOnTorus`, for every program text | the program and the four directions are all the invariant has to say (`TurnMoves`); what a single call computes is arithmetic: the nearest line that reaches the column is at the `Distance` of the torus (`UpOnTorus`, `DownOnTorus`), a column past the border is one modulo the length (`AcrossOnTorus`) |

They assume only what the modules state of their constants (`RingAssumption`,
`GodAssumption`, `KeyServerAssumption`, `ReactorAssumption`, `VmAssumption`,
`BitStealAssumption`, `DaemonAssumption`, `SystemAssumption`), which TLC evaluates in the
runs.  Two of them say what the code leaves to its environment: `RingAssumption` that a
session has finitely many processes, over which `InStep` counts, and `VmAssumption` that
memory holds bytes and nothing is mapped at NULL.

Recursive functions and induction.  The library's induction theorems take an operator and
cannot be used; `ListProofs!Induction` has a set instead, and follows from the least element
of a set of naturals (`WFMin`).  With it `Keep`, `Total` and the community modules' flattening
fold get their defining equations (`KeepDefined`, `TotalDefined`, `FlattenDefined`), as does the
checksum of `Reactor` (`SumsDefined`), and from
them what the proofs cite: `KeepType`, `KeepOrder`, `KeepConcat`, `KeepAll`, `TotalNext`,
`TotalSame`, `TotalType`.

Some theorems add what the code gives a value to: that `Ports` of `GodPy` is a sequence (the
rows of a table), `Flags` of bin200 are sequences of bits, the words of a text in `Texts`
are ten numbers of 16 bits, `Sources` of Befunge are lists of lines of characters, there are
finitely many workers, `timer_limit` is a number; and the accept loop or one process, where
the property is about it.

Only model-checked: liveness (`Termination`, `GodTerminates`, `Served` of both modules,
`HeldByStrangerOnly`, `FirstForEver` and `Answered` of both), because the prover has no ENABLED.
Every safety property that a passing run checks is also a theorem.

## Not modelled

* Cryptography: a packet is intact, or junk that does not decrypt; the MD5 and RSA code
  (`libctf_md5.c`, `miracl.h`, the crypto part of `libctf.c`) is third-party or arithmetic.
* `CtfLib_GetInsecureFlag` (nothing calls it), a stand-alone socket *beside* an accept
  loop, and the daemon's anti-debugging code.
* Failing `malloc`, and the text of configuration lines and log lines.
* In CantTouchThis an `os.remove()` that fails though its file is there (server.py:62-67 goes on
  after it): `CantTouch` removes what there is, so `FreshShellcode` is about that case.
* Two writers of the flag file at once: players change it between the daemon's writes.
* In `CtfSystem`, the generator's partly written list: an interrupted generator and a full
  disk on the organisers' machine are in `CtfGod` alone, whose behaviours include the system's.
* More than two thirds of the repository's lines are data or filler with no state to model:
  of the 10115 lines of `ctf_bin1/source.cpp` 9452 expand `JUNK_CODE`, a jump over
  bytes; `ctf_bin2/xor_table.h` is 5014 lines of tables, which `EventRing` abstracts for any
  contents; `miracl.h` is a vendored header; `backup_bin200.cpp` is the bytes of another program.
* Missing from the repository: `prepare_source.py` (CantTouchThis) and `libctf_rigged`
  (bit_steal), which are taken from how they are used.
* `ctf_bin3`, `ctf_bin4`, `mmx_bin`, `SimpleDecrypt`, `backup_100`, `DynamicHearing`: one straight
  line from input to message over a cipher or vector instructions.

Places where code and comment, or code and purpose, part and which the models have as the
code has them: Befunge's wraps at `^` and `v`; `w7 % 99` in the later ctf_bin5, whose
comment (line 179) gives 73 where the code tests 43; the shadowed `rbyte` in
`GenerateLookup`, by which an entry keeps the byte it was to give up.

## Plan

1. Refinement of an abstract register by the daemon's flag file, with the losses `Settled` excepts
   as steps of the register.
2. The second thread of `CtfLib_MakeStandAloneSocket`, and two writers of the flag file.
3. The faults of `CtfGod`'s generator in `CtfSystem`, so that a propagation may follow a list that
   was partly written.
