----------------------------- MODULE MCReactor -----------------------------
(* Reactor with hex digits of two bits, two challenges, and for each the   *)
(* answers that tell its paths apart.                                      *)
EXTENDS Reactor

One == <<49, 71>>
Two == <<66, 53>>
MCChallenges == {One, Two}

NoDash(text) == <<1>> \o SubSeq(text, 1, 4) \o SubSeq(text, 6, 9)
TwoDashes(text) == [text EXCEPT ![1] = Dash]
Broken(text) == [text EXCEPT ![8] = Other]
Short(text) == SubSeq(text, 1, 8)

MCResponses ==
  {Solution(One), NoDash(Solution(Two)), TwoDashes(Solution(One)), Broken(Solution(One)),
   Short(Solution(One))}

MCDocumented == {Solution(One), Documented(One)}
=============================================================================
