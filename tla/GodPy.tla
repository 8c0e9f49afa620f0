------------------------------- MODULE GodPy -------------------------------
(***************************************************************************)
(* god.py, the control program of 2010: for every team it is asked about   *)
(* it opens an SSH connection, and for every port copies the flag file or  *)
(* the daemon's program to dl_tmp, on the team's machine and then here,    *)
(* hashes the copy, and keeps one exit status.                             *)
(*                                                                         *)
(* Several runs of it share the machine, so that they share dl_tmp here    *)
(* and dl_tmp on every team's machine.  A run may be killed or end with an *)
(* exception at any time and leaves both as they are.  A command it has    *)
(* given to a team's machine is a part of it until it ends.                *)
(*                                                                         *)
(* Data: the contents of a file are a tuple, <<>> where there is none, and *)
(* a hash is what is hashed.  One daemon program is the same for all teams,*)
(* flags all differ.  A copy is read at once and written at once, but not  *)
(* at the same time.                                                       *)
(***************************************************************************)
EXTENDS Integers, Sequences, FiniteSets

CONSTANTS
  Runs,        \* the calls of god.py
  Teams,       \* rows of team_info
  Ports,       \* rows of ports, a sequence
  DaemonInfo,  \* ports with a row in daemon_info
  Checksums,   \* ports with a row in daemon_checksum
  FlagRows,    \* <<team, port>> with a row in active_flags
  Jobs,        \* what each run may be asked: [op, ip, port], 0 for all
  Touched,     \* <<team, port, kind>> of the files that may change
  MaxCrashes,  \* bound: runs that are killed or raise
  MaxChanges   \* bound: files that change on the teams' machines

VARIABLES
  run,     \* of each run: its program counter, walk, hash and exit status
  dl_tmp,  \* here
  opened,  \* the runs that have it open; when it is removed, they write to no name
  remote,  \* dl_tmp on the machine of each team
  disk,    \* of each team and port the flag file and the daemon's program
  crashes, changes

vars == <<run, dl_tmp, opened, remote, disk, crashes, changes>>

SUCCESS == 0
FAIL == -1
INTERR == -2

Kinds == {"flag", "bin"}
Items == Teams \X {Ports[k] : k \in DOMAIN Ports} \X Kinds
Missing == <<>>
Empty == <<"empty">>
Other == <<"other">>
\* What the database says the file has: flag_hash and checksum.
Expected(t, p, kind) == IF kind = "flag" THEN <<"flag", t, p>> ELSE <<"bin", p>>
Contents(d) == {<<item, d[item]>> : item \in Items}

\* held: what it has read and not yet written; seen: what the files contained since the
\* last time when there was no run at all; disturbed: another run was there, something was
\* unreachable, or a file changed meanwhile.
NewRun ==
  [pc |-> "new", job |-> [op |-> "none", ip |-> 0, port |-> 0], todo |-> {}, team |-> 0, k |-> 0,
   file |-> "flag", held |-> Missing, user |-> Missing, hash |-> Missing, after |-> "next",
   exit |-> INTERR, seen |-> {}, disturbed |-> FALSE]

Ended == {"new", "ended", "crashed"}
Running(i) == run[i].pc \notin Ended
Port(i) == Ports[run[i].k]
TheFile(i) == <<run[i].team, Port(i), run[i].file>>

Init ==
  /\ run = [i \in Runs |-> NewRun]
  /\ dl_tmp = Missing /\ opened = {}
  /\ remote = [t \in Teams |-> Missing]
  /\ disk = [item \in Items |-> Expected(item[1], item[2], item[3])]
  /\ crashes = 0 /\ changes = 0

Become(i, r) == run' = [run EXCEPT ![i] = r]
Goto(i, pc) == run' = [run EXCEPT ![i].pc = pc]
Over(r, pc) == [NewRun EXCEPT !.pc = pc, !.job = r.job, !.exit = r.exit,
                              !.seen = r.seen, !.disturbed = r.disturbed]
\* Leave the item: EnumCleanup, then the next port.
NextPort(r) == [r EXCEPT !.pc = "port", !.k = @ + 1, !.held = Missing, !.user = Missing,
                         !.hash = Missing]
Leave(r) == [r EXCEPT !.pc = "tidyremote", !.after = "next", !.held = Missing, !.user = Missing,
                         !.hash = Missing]
LeaveWith(r, status) == [Leave(r) EXCEPT !.exit = status]

(***************************************************************************)
(* main, EnumClients and the walk of EnumClients2                          *)
(***************************************************************************)
\* The configuration and the database are read; usage() ends a run that asks for
\* an unknown team or port, or cannot read them.
Start(i, job) ==
  /\ run[i].pc = "new"
  /\ LET others == {j \in Runs : Running(j)}
         known == job.ip \in Teams \cup {0} /\ job.port \in {Ports[k] : k \in DOMAIN Ports} \cup {0}
         walks == [NewRun EXCEPT !.pc = "team", !.job = job,
                                 !.seen = Contents(disk) \cup UNION {run[j].seen : j \in others},
                                 !.todo = IF job.ip = 0 THEN Teams ELSE {job.ip},
                                 !.disturbed = others # {}]
     IN \/ known
           /\ run' = [j \in Runs |-> IF j = i THEN walks
                                     ELSE [run[j] EXCEPT !.disturbed = @ \/ j \in others]]
        \/ Become(i, [NewRun EXCEPT !.pc = "ended", !.job = job, !.disturbed = known])
  /\ UNCHANGED <<dl_tmp, opened, remote, disk, crashes, changes>>

\* A team in the order of the dictionary, which is any; its machine may not answer.
EnterTeam(i, t) ==
  /\ run[i].pc = "team" /\ t \in run[i].todo
  /\ LET r == [run[i] EXCEPT !.todo = @ \ {t}, !.team = t, !.k = 1]
     IN \/ Become(i, [r EXCEPT !.pc = "port"])
        \/ Become(i, [r EXCEPT !.exit = FAIL, !.disturbed = TRUE])
  /\ UNCHANGED <<dl_tmp, opened, remote, disk, crashes, changes>>

Exit(i) ==
  /\ run[i].pc = "team" /\ run[i].todo = {}
  /\ Become(i, Over(run[i], "ended"))
  /\ UNCHANGED <<dl_tmp, opened, remote, disk, crashes, changes>>

\* One turn of the loop over the ports, up to the first file.  -sf has no branch.
EnterPort(i) ==
  /\ run[i].pc = "port"
  /\ LET r == run[i]
         next == NextPort(r)
         selected == r.job.port \in {0, Port(i)}
         rows == Port(i) \in DaemonInfo /\ <<r.team, Port(i)>> \in FlagRows
     IN Become(i,
          CASE r.k > Len(Ports) -> [r EXCEPT !.pc = "team"]
            [] r.k <= Len(Ports) /\ ~selected -> next
            [] r.k <= Len(Ports) /\ selected /\ ~rows -> [next EXCEPT !.exit = INTERR]
            [] r.k <= Len(Ports) /\ selected /\ rows /\ r.job.op = "setflag" -> next
            [] OTHER -> [r EXCEPT !.pc = "rmlocal",
                           !.file = IF r.job.op \in {"getflag", "checkflag"} THEN "flag" ELSE "bin"])
  /\ UNCHANGED <<dl_tmp, opened, remote, disk, crashes, changes>>

(***************************************************************************)
(* getFile and getFileHash                                                 *)
(***************************************************************************)
RemoveLocal(i) ==
  /\ run[i].pc = "rmlocal"
  /\ dl_tmp' = Missing /\ opened' = {}
  /\ Goto(i, "rmremote")
  /\ UNCHANGED <<remote, disk, crashes, changes>>

\* Mutant of RemoveRemote: the copy of the last call is not removed.
RemoveRemoteMutant(i) ==
  /\ run[i].pc = "rmremote"
  /\ Goto(i, "cp")
  /\ UNCHANGED <<dl_tmp, opened, remote, disk, crashes, changes>>

RemoveRemote(i) ==
  /\ run[i].pc = "rmremote"
  /\ remote' = [remote EXCEPT ![run[i].team] = Missing]
  /\ Goto(i, "cp")
  /\ UNCHANGED <<dl_tmp, opened, disk, crashes, changes>>

\* cp without its file fails and leaves dl_tmp as it is; nobody looks.
CopyRemote(i) ==
  /\ run[i].pc = "cp"
  /\ LET file == disk[TheFile(i)] IN
     Become(i, [run[i] EXCEPT !.pc = IF file = Missing THEN "get" ELSE "copy", !.held = file])
  /\ UNCHANGED <<dl_tmp, opened, remote, disk, crashes, changes>>

WriteRemote(i) ==
  /\ run[i].pc = "copy"
  /\ remote' = [remote EXCEPT ![run[i].team] = run[i].held]
  /\ Become(i, [run[i] EXCEPT !.pc = "get", !.held = Missing])
  /\ UNCHANGED <<dl_tmp, opened, disk, crashes, changes>>

\* What an item is left with when its file could not be fetched: a daemon that
\* cannot be hashed fails a flag check, otherwise the exit status stays.
Unfetched(r) ==
  IF r.job.op = "checkflag" /\ r.file = "bin" THEN LeaveWith(r, FAIL) ELSE Leave(r)

\* The SFTP get: all of the team's copy is asked for before the file here is opened.  It
\* fails without the copy, when the machine is not reached, or without a file here.
Download(i) ==
  /\ run[i].pc = "get"
  /\ LET copy == remote[run[i].team] IN
     \/ copy # Missing /\ Become(i, [run[i] EXCEPT !.pc = "open", !.held = copy])
     \/ copy = Missing /\ Become(i, Unfetched(run[i]))
     \/ Become(i, [Unfetched(run[i]) EXCEPT !.disturbed = TRUE])
  /\ UNCHANGED <<dl_tmp, opened, remote, disk, crashes, changes>>

\* The file here is made, or emptied when another run has made it.
OpenLocal(i) ==
  /\ run[i].pc = "open"
  /\ dl_tmp' = Empty /\ opened' = opened \cup {i}
  /\ Goto(i, "write")
  /\ UNCHANGED <<remote, disk, crashes, changes>>

\* The copy is written, or the connection ends before it has come.
WriteLocal(i) ==
  /\ run[i].pc = "write"
  /\ opened' = opened \ {i}
  /\ \/ /\ dl_tmp' = IF i \in opened THEN run[i].held ELSE dl_tmp
        /\ Goto(i, "stat")
     \/ /\ Become(i, [Unfetched(run[i]) EXCEPT !.disturbed = TRUE])
        /\ UNCHANGED dl_tmp
  /\ UNCHANGED <<remote, disk, crashes, changes>>

\* The size of the file here is compared with that of the copy: it is another one when the
\* file is gone, and may be another one when it is not the one that was written.
CheckSize(i) ==
  /\ run[i].pc = "stat"
  /\ \/ dl_tmp # Missing /\ Become(i, [run[i] EXCEPT !.pc = "hash", !.held = Missing])
     \/ dl_tmp # run[i].held /\ Become(i, Unfetched(run[i]))
  /\ UNCHANGED <<dl_tmp, opened, remote, disk, crashes, changes>>

\* sha256file, which takes a file that is not there for the hash "0".
Hash(i) ==
  /\ run[i].pc = "hash"
  /\ Become(i, [run[i] EXCEPT !.pc = "tidyremote", !.after = "judge", !.hash = dl_tmp])
  /\ UNCHANGED <<dl_tmp, opened, remote, disk, crashes, changes>>

\* The end of getFileHash, and EnumCleanup.
TidyRemote(i) ==
  /\ run[i].pc = "tidyremote"
  /\ remote' = [remote EXCEPT ![run[i].team] = Missing]
  /\ Goto(i, "tidylocal")
  /\ UNCHANGED <<dl_tmp, opened, disk, crashes, changes>>

TidyLocal(i) ==
  /\ run[i].pc = "tidylocal"
  /\ dl_tmp' = Missing /\ opened' = {}
  /\ IF run[i].after = "judge" THEN Goto(i, "judge")
     ELSE Become(i, NextPort(run[i]))
  /\ UNCHANGED <<remote, disk, crashes, changes>>

(***************************************************************************)
(* What EnumClients2 makes of the hash                                     *)
(***************************************************************************)
JudgeGet(i) ==
  /\ run[i].pc = "judge" /\ run[i].job.op \in {"getflag", "gethash"}
  /\ Become(i, IF run[i].job.op = "gethash" THEN LeaveWith(run[i], SUCCESS)
               ELSE [NextPort(run[i]) EXCEPT !.exit = SUCCESS])
  /\ UNCHANGED <<dl_tmp, opened, remote, disk, crashes, changes>>

\* The flag's hash is kept; is the right program listening on the port?
JudgeFlag(i) ==
  /\ run[i].pc = "judge" /\ run[i].job.op = "checkflag" /\ run[i].file = "flag"
  /\ LET r == [run[i] EXCEPT !.user = run[i].hash]
     IN \/ Become(i, [r EXCEPT !.file = "bin", !.pc = "rmlocal"])
        \/ Become(i, [LeaveWith(r, FAIL) EXCEPT !.disturbed = TRUE])
  /\ UNCHANGED <<dl_tmp, opened, remote, disk, crashes, changes>>

HasChecksum(i) == Port(i) \in Checksums
HashOk(i) == run[i].hash = Expected(run[i].team, Port(i), "bin")
\* Mutant of FlagOk: one variable for the flag's hash and the daemon's.
FlagOkMutant(i) == run[i].hash = Expected(run[i].team, Port(i), "flag")
FlagOk(i) == run[i].user = Expected(run[i].team, Port(i), "flag")

\* The daemon's program, the answer of the daemon, and at last the flag.
JudgeDaemon(i) ==
  /\ run[i].pc = "judge" /\ run[i].job.op = "checkflag" /\ run[i].file = "bin"
  /\ HasChecksum(i)
  /\ LET r == run[i]
     IN \/ Become(i, LeaveWith(r, IF HashOk(i) /\ FlagOk(i) THEN SUCCESS ELSE FAIL))
        \/ HashOk(i) /\ Become(i, [LeaveWith(r, FAIL) EXCEPT !.disturbed = TRUE])
  /\ UNCHANGED <<dl_tmp, opened, remote, disk, crashes, changes>>

JudgeHash(i) ==
  /\ run[i].pc = "judge" /\ run[i].job.op = "checkhash"
  /\ HasChecksum(i)
  /\ Become(i, LeaveWith(run[i], IF HashOk(i) THEN SUCCESS ELSE FAIL))
  /\ UNCHANGED <<dl_tmp, opened, remote, disk, crashes, changes>>

\* checksums[p] raises KeyError.
NoChecksum(i) ==
  /\ run[i].pc = "judge" /\ run[i].file = "bin" /\ ~HasChecksum(i)
  /\ run[i].job.op \in {"checkhash", "checkflag"}
  /\ Become(i, Over(NewRun, "crashed"))
  /\ UNCHANGED <<dl_tmp, opened, remote, disk, crashes, changes>>

(***************************************************************************)
(* Around it                                                               *)
(***************************************************************************)
\* Killed, or an exception nobody catches: execute() on a connection that is gone,
\* os.remove() of a dl_tmp another run has just removed, validate_daemon's raise.  A cp
\* that has begun is done first.
Crash(i) ==
  /\ Running(i) /\ run[i].pc # "copy" /\ crashes < MaxCrashes
  /\ crashes' = crashes + 1
  /\ opened' = opened \ {i}
  /\ Become(i, Over(NewRun, "crashed"))
  /\ UNCHANGED <<dl_tmp, remote, disk, changes>>

\* A file on a team's machine changes, disappears or is put back.
Change(item, contents) ==
  /\ changes < MaxChanges /\ disk[item] # contents
  /\ changes' = changes + 1
  /\ disk' = [disk EXCEPT ![item] = contents]
  /\ run' = [i \in Runs |->
       IF Running(i) THEN [run[i] EXCEPT !.disturbed = TRUE, !.seen = @ \cup Contents(disk')]
       ELSE run[i]]
  /\ UNCHANGED <<dl_tmp, opened, remote, crashes>>

Step(i) ==
  \/ \E job \in Jobs[i] : Start(i, job)
  \/ \E t \in Teams : EnterTeam(i, t)
  \/ Exit(i) \/ EnterPort(i)
  \/ RemoveLocal(i) \/ RemoveRemote(i) \/ CopyRemote(i) \/ WriteRemote(i)
  \/ Download(i) \/ OpenLocal(i) \/ WriteLocal(i) \/ CheckSize(i) \/ Hash(i)
  \/ TidyRemote(i) \/ TidyLocal(i)
  \/ JudgeGet(i) \/ JudgeFlag(i) \/ JudgeDaemon(i) \/ JudgeHash(i) \/ NoChecksum(i)
  \/ Crash(i)

Next ==
  \/ \E i \in Runs : Step(i)
  \/ \E item \in Touched, contents \in {Missing, Other} : Change(item, contents)

Spec == Init /\ [][Next]_vars

-----------------------------------------------------------------------------
Selected(i) ==
  {s \in Teams \X {Ports[k] : k \in DOMAIN Ports} :
     run[i].job.ip \in {0, s[1]} /\ run[i].job.port \in {0, s[2]}}
Was(i, s, kind, contents) == <<<<s[1], s[2], kind>>, contents>> \in run[i].seen
Intact(i, s, kind) == Was(i, s, kind, Expected(s[1], s[2], kind))

\* A flag check that ends with status 0 has found some flag it was asked about as it should
\* be at some time since runs are there without a break: what other runs do with both dl_tmp,
\* what fails, and what runs that died have left there does not count.  (Not at a time of
\* this run: one that was there before it may be slow and write an older copy over its own.)
\* Of the daemons' programs this is true when no other run was there and nothing changed:
\* beside another run it may hash what that one has fetched, the same for all teams.
VerdictSound ==
  \A i \in Runs : run[i].pc = "ended" /\ run[i].exit = SUCCESS =>
    /\ run[i].job.op # "setflag"
    /\ run[i].job.op = "checkflag" => \E s \in Selected(i) : Intact(i, s, "flag")
    /\ run[i].job.op \in {"checkflag", "checkhash"} /\ ~run[i].disturbed =>
         \E s \in Selected(i) : Intact(i, s, "bin")

\* Of one daemon, with nothing in the way, a check tells: 0 exactly when its files are
\* as they should be, -2 exactly when the database has no row or the file it starts with
\* is not there.  Nothing an earlier run has left behind changes that.
VerdictExact ==
  \A i \in Runs : \A s \in Selected(i) :
    LET kind == IF run[i].job.op = "checkflag" THEN "flag" ELSE "bin"
        rows == s[2] \in DaemonInfo /\ s \in FlagRows
    IN /\ run[i].pc = "ended" /\ ~run[i].disturbed
       /\ run[i].job.op \in {"checkflag", "checkhash"} /\ Selected(i) = {s}
       => /\ run[i].exit = SUCCESS <=> rows /\ Intact(i, s, kind) /\ Intact(i, s, "bin")
          /\ run[i].exit = INTERR <=> ~rows \/ Was(i, s, kind, Missing)
=============================================================================
