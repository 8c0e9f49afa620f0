------------------------------ MODULE SpamPool ------------------------------
(***************************************************************************)
(* ctf_spammaster.py: a pool of threads that sends random data to every    *)
(* port of every address of ips.txt.  An address is its place in the file. *)
(***************************************************************************)
EXTENDS Integers, Sequences, FiniteSets

CONSTANTS Workers, NPorts, MaxIps  \* 10 threads; the lengths of ports.txt and ips.txt

VARIABLES
  ips,        \* how many addresses there are
  put,        \* how many main has put into the queue
  main,
  ip_queue,
  unfinished, \* what ip_queue.join() waits for
  wpc, ip, port,
  printLock

vars == <<ips, put, main, ip_queue, unfinished, wpc, ip, port, printLock>>
workerVars == <<wpc, ip, port, printLock>>

Init ==
  /\ ips \in 0 .. MaxIps /\ put = 0 /\ main = "put"
  /\ ip_queue = <<>> /\ unfinished = 0
  /\ wpc = [w \in Workers |-> "get"]
  /\ ip = [w \in Workers |-> 0] /\ port = [w \in Workers |-> 0]
  /\ printLock = FALSE

\* The threads are daemons: when main ends, they do.
Up == main # "ended"
Goto(w, pc) == wpc' = [wpc EXCEPT ![w] = pc]

Put ==
  /\ main = "put" /\ put < ips
  /\ put' = put + 1 /\ ip_queue' = Append(ip_queue, put + 1) /\ unfinished' = unfinished + 1
  /\ UNCHANGED <<ips, main, workerVars>>

Join ==
  /\ main = "put" /\ put = ips
  /\ main' = "join"
  /\ UNCHANGED <<ips, put, ip_queue, unfinished, workerVars>>

End ==
  /\ main = "join" /\ unfinished = 0
  /\ main' = "ended"
  /\ UNCHANGED <<ips, put, ip_queue, unfinished, workerVars>>

\* The only get() of a worker, before its loop; task_done() comes after the loop.
Get(w) ==
  /\ Up /\ wpc[w] = "get" /\ ip_queue # <<>>
  /\ ip' = [ip EXCEPT ![w] = Head(ip_queue)] /\ ip_queue' = Tail(ip_queue)
  /\ Goto(w, "say") /\ UNCHANGED <<ips, put, main, unfinished, port, printLock>>

\* printStr, before a port and when it has failed.
Acquire(w) ==
  /\ Up /\ wpc[w] \in {"say", "complain"} /\ ~printLock
  /\ printLock' = TRUE
  /\ Goto(w, IF wpc[w] = "say" THEN "saying" ELSE "complaining")
  /\ UNCHANGED <<ips, put, main, ip_queue, unfinished, ip, port>>

\* The next port, or after the last one the sleep.
AfterPort(w) ==
  /\ port' = [port EXCEPT ![w] = (@ + 1) % NPorts]
  /\ Goto(w, IF port[w] + 1 = NPorts THEN "sleep" ELSE "say")

Release(w) ==
  /\ Up /\ wpc[w] \in {"saying", "complaining"}
  /\ printLock' = FALSE
  /\ IF wpc[w] = "saying" THEN Goto(w, "connect") /\ UNCHANGED port ELSE AfterPort(w)
  /\ UNCHANGED <<ips, put, main, ip_queue, unfinished, ip>>

\* Mutant of Connect: an address that does not answer ends the thread.
ConnectMutant(w) ==
  /\ Up /\ wpc[w] = "connect"
  /\ AfterPort(w) \/ (Goto(w, "dead") /\ UNCHANGED port)
  /\ UNCHANGED <<ips, put, main, ip_queue, unfinished, ip, printLock>>

\* connect, send and close, of which any may raise.
Connect(w) ==
  /\ Up /\ wpc[w] = "connect"
  /\ AfterPort(w) \/ (Goto(w, "complain") /\ UNCHANGED port)
  /\ UNCHANGED <<ips, put, main, ip_queue, unfinished, ip, printLock>>

Wake(w) ==
  /\ Up /\ wpc[w] = "sleep"
  /\ Goto(w, "say")
  /\ UNCHANGED <<ips, put, main, ip_queue, unfinished, ip, port, printLock>>

Worker(w) == Get(w) \/ Acquire(w) \/ Release(w) \/ Connect(w) \/ Wake(w)
Main == Put \/ Join \/ End

Next == Main \/ \E w \in Workers : Worker(w)

Spec == Init /\ [][Next]_vars

-----------------------------------------------------------------------------
Contacts(a) == \E w \in Workers : ip[w] = a /\ wpc[w] = "connect"

\* No address is contacted but the first ones, as many as there are threads, and the
\* program ends only where there is no address at all.
FirstOnly ==
  /\ \A a \in 1 .. ips : Contacts(a) => a <= Cardinality(Workers)
  /\ main = "ended" => ips = 0

\* Of a list longer than the pool the first addresses are contacted again and again,
\* though any of them may fail, and the others never; the program ends only where there
\* is no address at all.
FirstForEver ==
  /\ \A a \in 1 .. Cardinality(Workers) : ips >= a => []<>Contacts(a)
  /\ []FirstOnly
=============================================================================
