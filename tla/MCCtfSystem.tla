---------------------------- MODULE MCCtfSystem ----------------------------
(* CtfSystem with the commands of a game: propagate, regenerate, check.    *)
EXTENDS CtfSystem

C(o, n) == [op |-> o, ip |-> 0, port |-> 0, tries |-> n, path |-> "ctf_svrflags.txt"]
MCCommands == {C("propagate", 1), C("generate", 0), C("checkflag", 0)}
MCSetCommands == {C("propagate", 1), C("generate", 0)}
MCBehind == -1
=============================================================================
