------------------------------ MODULE MCCtfGod ------------------------------
(* CtfGod with two teams of one or two daemons.                            *)
EXTENDS CtfGod

L(i, p, f) == [ip |-> i, port |-> p, flag |-> f]

\* Two lines share the address 1, as the duplicate teams of a hurried operator.
MCKeyLines == <<1, 2, 1>>

\* As shipped: a daemon listed twice, and one whose port has no checksum (2).
\* The second file has a line of an unknown address.
MCFlagFiles == {<<L(1, 1, 1), L(2, 2, 2), L(1, 1, 3)>>, <<L(1, 1, 1), L(3, 1, 2)>>}

MCCsumLines == <<[port |-> 1, mem |-> 1, file |-> 2]>>

C(o, i, p, n, f) == [op |-> o, ip |-> i, port |-> p, tries |-> n, path |-> f]

MCCommands ==
  {C(o, i, p, 0, "elsewhere") : o \in {"checkflag", "checkmem", "setflag", "getmem"},
                                i \in {0, 1}, p \in {0, 2}}
    \cup {C("propagate", 0, 0, 2, "elsewhere"), C("checkfile", 0, 0, 0, "elsewhere"),
          C("getfile", 2, 0, 0, "elsewhere"), C("getflag", 1, 1, 0, "elsewhere"),
          C("generate", 0, 0, 0, "elsewhere"), C("generate", 0, 0, 0, "ctf_svrflags.txt")}
=============================================================================
