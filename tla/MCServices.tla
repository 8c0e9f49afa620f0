---------------------------- MODULE MCServices ----------------------------
(* Three services that share nothing, in one run: bit_steal, the shellcode *)
(* server of CantTouchThis, and the pool of ctf_spammaster.  `program' is  *)
(* the one that runs; the variables of the others stay as they start.      *)
EXTENDS BitSteal

CONSTANTS timer_limit, MaxTime, MaxCalls, MaxScripts, Workers, NPorts, MaxIps

VARIABLES
  program,
  server, threadLock, mem_shellcode, lastTime, call, since, calls, shellcode_txt, test_exe,
  result, cpc, ccall, scripts, meddled, clock,
  ips, put, main, ip_queue, unfinished, wpc, ip, port, printLock

ctVars == <<server, threadLock, mem_shellcode, lastTime, call, since, calls, shellcode_txt,
            test_exe, result, cpc, ccall, scripts, meddled, clock>>
spVars == <<ips, put, main, ip_queue, unfinished, wpc, ip, port, printLock>>

CT == INSTANCE CantTouch
SP == INSTANCE SpamPool

\* Silent, and the last byte and bit the daemon takes.
MCPackets == {<<>>, <<0, Bytes, Bits>>}

MCInit ==
  /\ program \in {"bit_steal", "canttouch", "spam"}
  /\ Init /\ CT!Init /\ SP!Init
  /\ program # "bit_steal" => bTalkKey = 0
  /\ program # "canttouch" => shellcode_txt = CT!None /\ test_exe = 0
  /\ program # "spam" => ips = 0

\* The program that runs, and what its steps leave alone.
BitStealRuns == program = "bit_steal" /\ UNCHANGED <<program, ctVars, spVars>>
CantTouchRuns == program = "canttouch" /\ UNCHANGED <<program, vars, spVars>>
SpamRuns == program = "spam" /\ UNCHANGED <<program, vars, ctVars>>

MCNext ==
  \/ BitStealRuns /\ Next
  \/ CantTouchRuns /\ CT!Next
  \/ SpamRuns /\ SP!Next

mcvars == <<program, vars, ctVars, spVars>>

\* The threads run, and a thread that asks for a mutex which is given back again and
\* again gets it: BroadcastTraffic sleeps five seconds without it.
Fairness ==
  /\ WF_mcvars(BitStealRuns /\ PoolFlagChange)
  /\ WF_mcvars(BitStealRuns /\ BroadcastTraffic)
  /\ WF_mcvars(BitStealRuns /\ ProcessIncomingTraffic) /\ SF_mcvars(BitStealRuns /\ LockSeed)
  /\ WF_mcvars(BitStealRuns /\ Solution)
  /\ WF_mcvars(SpamRuns /\ SP!Main)
  /\ \A w \in Workers : WF_mcvars(SpamRuns /\ SP!Worker(w)) /\ SF_mcvars(SpamRuns /\ SP!Acquire(w))

MCSpec == MCInit /\ [][MCNext]_mcvars /\ Fairness

\* FreshShellcode of CantTouch: what a client gets was made for the server's latest
\* compiling call.
FreshShellcode == CT!FreshShellcode
\* StuckAfterFault of CantTouch: only a call that ended in a fault leaves the lock behind.
StuckAfterFault == CT!StuckAfterFault
\* FirstForEver of SpamPool: the first addresses are contacted for ever, the others never.
FirstForEver == program = "spam" => SP!FirstForEver
=============================================================================
