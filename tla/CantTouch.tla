----------------------------- MODULE CantTouch -----------------------------
(***************************************************************************)
(* CantTouchThis/server.py: a server of one thread that answers a request  *)
(* with shellcode.  Within timer_limit of the last one that is the same    *)
(* again, otherwise it has test.cpp compiled and test.exe run, which leaves*)
(* shellcode.txt to be read.  Beside it somebody may run compile.py, which *)
(* does the same in the same directory and knows of no lock.               *)
(*                                                                         *)
(* Data: every compilation and every run has the number of the call it is  *)
(* part of; calls of the server and of compile.py are counted together.    *)
(***************************************************************************)
EXTENDS Integers

CONSTANTS
  timer_limit,  \* 15 seconds
  MaxTime,      \* bound: the clock
  MaxCalls,     \* bound: calls that compile
  MaxScripts    \* bound: calls of compile.py

VARIABLES
  server,         \* the server
  threadLock,
  mem_shellcode,  \* who wrote it in which call with the program of which call
  lastTime,
  call,           \* number of the server's present or latest call
  since,          \* the oldest call that was not over when it began
  calls,          \* how many there were
  shellcode_txt, test_exe,
  result,         \* the latest answer to a client
  cpc, ccall,     \* compile.py and the number of its call
  scripts,
  meddled,        \* a stray test.exe at the start, or compile.py has run
  clock

fileVars == <<shellcode_txt, test_exe>>
serverVars == <<server, threadLock, mem_shellcode, lastTime, call, since, result>>
scriptVars == <<cpc, ccall, scripts>>
vars == <<serverVars, fileVars, scriptVars, calls, meddled, clock>>

None == [in |-> 0, exe |-> 0]
Stray == -1
Answers == {"none", "shellcode", "badboy", "fault"}

\* A directory may have files of an earlier call of the server or of compile.py.
Init ==
  /\ server = "idle" /\ threadLock = FALSE
  /\ mem_shellcode = None /\ lastTime = 0
  /\ call = 0 /\ since = 0 /\ calls = 0
  /\ shellcode_txt \in {None, [in |-> Stray, exe |-> Stray]}
  /\ test_exe \in {0, Stray}
  /\ result = "none"
  /\ cpc = "idle" /\ ccall = 0 /\ scripts = 0
  /\ meddled = (test_exe = Stray)
  /\ clock = 0

(***************************************************************************)
(* CantTouchThis and GenerateNewShellcode                                  *)
(***************************************************************************)
\* A client's request reaches the only thread there is.  When the lock was left
\* behind, acquire() waits for ever and the thread with it.
Request ==
  /\ server = "idle"
  /\ IF threadLock THEN server' = "stuck" /\ UNCHANGED threadLock
     ELSE server' = "time" /\ threadLock' = TRUE
  /\ UNCHANGED <<mem_shellcode, lastTime, call, since, result, fileVars, scriptVars, calls,
                 meddled, clock>>

Return(a) == server' = "idle" /\ threadLock' = FALSE /\ result' = a

Cached ==
  /\ server = "time" /\ mem_shellcode # None /\ clock - lastTime < timer_limit
  /\ Return("shellcode")
  /\ UNCHANGED <<mem_shellcode, lastTime, call, since, fileVars, scriptVars, calls, meddled, clock>>

\* Without a shellcode.txt remove() raises, and test.exe stays.
RemoveShellcode ==
  /\ server = "time" /\ (mem_shellcode = None \/ clock - lastTime >= timer_limit)
  /\ calls < MaxCalls
  /\ calls' = calls + 1 /\ call' = calls + 1
  /\ since' = IF cpc = "idle" THEN calls + 1 ELSE ccall
  /\ shellcode_txt' = None
  /\ server' = IF shellcode_txt = None THEN "compile" ELSE "remove"
  /\ UNCHANGED <<threadLock, mem_shellcode, lastTime, result, test_exe, scriptVars, meddled, clock>>

RemoveExe ==
  /\ server = "remove"
  /\ test_exe' = 0
  /\ server' = "compile"
  /\ UNCHANGED <<threadLock, mem_shellcode, lastTime, call, since, result, shellcode_txt, scriptVars,
                 calls, meddled, clock>>

\* The first half of the command line: cl.exe, which may fail.
Compile ==
  /\ server = "compile"
  /\ test_exe' \in {test_exe, call}
  /\ server' = "run"
  /\ UNCHANGED <<threadLock, mem_shellcode, lastTime, call, since, result, shellcode_txt, scriptVars,
                 calls, meddled, clock>>

\* Mutant of NoShell: an early return that forgets the lock.
NoShellMutant ==
  /\ server = "compile"
  /\ server' = "idle" /\ result' = "badboy"
  /\ UNCHANGED <<threadLock, mem_shellcode, lastTime, call, since, fileVars, scriptVars, calls,
                 meddled, clock>>

\* call() raises OSError, or the system is none of those it knows.
NoShell ==
  /\ server = "compile"
  /\ Return("badboy")
  /\ UNCHANGED <<mem_shellcode, lastTime, call, since, fileVars, scriptVars, calls, meddled, clock>>

\* The second half: test.exe, if there is one, which may fail.
RunExe ==
  /\ server = "run"
  /\ \/ test_exe # 0 /\ shellcode_txt' = [in |-> call, exe |-> test_exe]
     \/ UNCHANGED shellcode_txt
  /\ server' = "read"
  /\ UNCHANGED <<threadLock, mem_shellcode, lastTime, call, since, result, test_exe, scriptVars, calls,
                 meddled, clock>>

ReadShellcode ==
  /\ server = "read" /\ shellcode_txt # None
  /\ mem_shellcode' = shellcode_txt /\ lastTime' = clock
  /\ Return("shellcode")
  /\ UNCHANGED <<call, since, fileVars, scriptVars, calls, meddled, clock>>

\* Mutant of ReadRaises: the lock is given back, as in a finally clause, but the
\* files stay as they are.
ReadRaisesMutant ==
  /\ server = "read" /\ shellcode_txt = None
  /\ Return("fault")
  /\ UNCHANGED <<mem_shellcode, lastTime, call, since, fileVars, scriptVars, calls, meddled, clock>>

\* open() raises, the client gets a fault, and nobody releases the lock.
ReadRaises ==
  /\ server = "read" /\ shellcode_txt = None
  /\ server' = "idle" /\ result' = "fault"
  /\ UNCHANGED <<threadLock, mem_shellcode, lastTime, call, since, fileVars, scriptVars, calls,
                 meddled, clock>>

Server ==
  \/ Request \/ Cached \/ RemoveShellcode \/ RemoveExe \/ Compile \/ NoShell \/ RunExe
  \/ ReadShellcode \/ ReadRaises

(***************************************************************************)
(* compile.py                                                              *)
(***************************************************************************)
ScriptRemove ==
  /\ cpc = "idle" /\ scripts < MaxScripts /\ calls < MaxCalls
  /\ scripts' = scripts + 1 /\ calls' = calls + 1 /\ ccall' = calls + 1
  /\ meddled' = TRUE
  /\ shellcode_txt' = None
  /\ cpc' = IF shellcode_txt = None THEN "compile" ELSE "remove"
  /\ UNCHANGED <<serverVars, test_exe, clock>>

ScriptRemoveExe ==
  /\ cpc = "remove" /\ cpc' = "compile"
  /\ test_exe' = 0
  /\ UNCHANGED <<serverVars, shellcode_txt, ccall, scripts, calls, meddled, clock>>

ScriptCompile ==
  /\ cpc = "compile" /\ cpc' = "run"
  /\ test_exe' \in {test_exe, ccall}
  /\ UNCHANGED <<serverVars, shellcode_txt, ccall, scripts, calls, meddled, clock>>

ScriptRun ==
  /\ cpc = "run" /\ cpc' = "idle"
  /\ \/ test_exe # 0 /\ shellcode_txt' = [in |-> ccall, exe |-> test_exe]
     \/ UNCHANGED shellcode_txt
  /\ UNCHANGED <<serverVars, test_exe, ccall, scripts, calls, meddled, clock>>

CompilePy == ScriptRemove \/ ScriptRemoveExe \/ ScriptCompile \/ ScriptRun

Tick ==
  /\ clock < MaxTime
  /\ clock' = clock + 1
  /\ UNCHANGED <<serverVars, fileVars, scriptVars, calls, meddled>>

Next == Server \/ CompilePy \/ Tick

Spec == Init /\ [][Next]_vars

-----------------------------------------------------------------------------
\* Shellcode a client gets was written in the server's latest compiling call or by a
\* compile.py that was not over when that call began, never left over from before; and
\* where only the server has written to its directory, by the program that call has
\* compiled, whatever cl.exe and test.exe did in this call and those before.
FreshShellcode ==
  result = "shellcode" /\ server = "idle" =>
    /\ mem_shellcode.in >= since
    /\ ~meddled => mem_shellcode = [in |-> call, exe |-> call]

\* A request waits for ever only if the one before it was answered with a fault, which
\* only a call that left no shellcode.txt is: neither an answer from memory nor one
\* without a compiler costs the lock.
StuckAfterFault ==
  /\ server = "idle" /\ threadLock => result = "fault"
  /\ server = "stuck" => result = "fault"
=============================================================================
