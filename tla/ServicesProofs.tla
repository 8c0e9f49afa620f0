--------------------------- MODULE ServicesProofs ---------------------------
(* What bit_steal broadcasts and what its reader decodes, for every number *)
(* of changes, clients, bits and talk keys; what a client of CantTouchThis *)
(* gets and whom the pool of ctf_spammaster contacts, beside the others.   *)
EXTENDS MCServices, FiniteSetTheorems, SequenceTheorems, TLAPS

N == Bytes * Bits
InPool == {"flag", "seed", "encrypt"}
WholeFlag == {f \in [flag : Nat, key : Nat] : f.key = f.flag /\ f.key > 0}

-----------------------------------------------------------------------------
(* The mutex and what it protects.                                         *)

\* A thread that is at the buffer or the seed owns mutex1 (lines 323-384, 431-446,
\* 459-485).
Exclusion ==
  /\ mpc \in InPool => mutex = "main"
  /\ bpc \in {"send", "unlock"} => mutex = "broadcast"
  /\ spc = "char" => mutex = "incoming"

\* How far PoolFlagChange is with the buffer, and that it is whole outside of it.
BufferState ==
  /\ change \in Nat /\ cSeed \in Nat /\ cXorFlag \in [flag : Nat, key : Nat]
  /\ mpc \in {"fopen", "lock", "wait", "exited"} \cup InPool
  /\ mpc \in {"lock", "wait"} \cup InPool => change > 0
  /\ mpc \in {"seed", "encrypt"} => cXorFlag.flag = change /\ cXorFlag.key = 0
  /\ mpc = "encrypt" => cSeed = change
  /\ bpc # "new" /\ mpc \in {"fopen", "lock", "wait"} => cXorFlag \in WholeFlag

WholeInv == Exclusion /\ BufferState /\ net \in Seq(WholeFlag)

LEMMA WholeInit == Init => WholeInv
  BY DEF Init, WholeInv, Exclusion, BufferState, InPool, WholeFlag

LEMMA ExclusionStep ==
  ASSUME Exclusion, BufferState, [Next]_vars
  PROVE  Exclusion'
  <1> USE DEF Exclusion, BufferState, InPool, mainVars, socketVars, readerVars, Alive
  <1>1. CASE PoolFlagChange
    BY <1>1 DEF PoolFlagChange, ReadFlagFile, LockPool, CopyFlag, CopySeed, EncryptFlag
  <1>2. CASE PoolAgain \/ Leave \/ Signal
    BY <1>2 DEF PoolAgain, Leave, Signal
  <1>3. CASE BroadcastTraffic
    BY <1>3 DEF BroadcastTraffic, LockBroadcast, SendBroadcast, UnlockBroadcast, CloseBroadcast
  <1>4. CASE ProcessIncomingTraffic
    BY <1>4 DEF ProcessIncomingTraffic, Bind, Accept, ReadPacket, LockSeed, SendBit
  <1>5. CASE Stranger \/ StrangerLeaves
    BY <1>5 DEF Stranger, StrangerLeaves
  <1>6. CASE Solution
    BY <1>6 DEF Solution, Sniff, Ask, Reset, TakeKey, TakeBit, Decode
  <1>7. CASE UNCHANGED vars
    BY <1>7 DEF vars
  <1> QED
    BY <1>1, <1>2, <1>3, <1>4, <1>5, <1>6, <1>7 DEF Next

LEMMA BufferStep ==
  ASSUME Exclusion, BufferState, [Next]_vars
  PROVE  BufferState'
  <1> USE DEF Exclusion, BufferState, InPool, WholeFlag, mainVars, socketVars, readerVars, Alive
  <1>1. CASE ReadFlagFile
    BY <1>1 DEF ReadFlagFile
  <1>2. CASE LockPool
    BY <1>2 DEF LockPool
  <1>3. CASE CopyFlag
    BY <1>3 DEF CopyFlag
  <1>4. CASE CopySeed
    BY <1>4 DEF CopySeed
  <1>5. CASE EncryptFlag
    BY <1>5 DEF EncryptFlag
  <1>6. CASE PoolAgain \/ Leave \/ Signal
    BY <1>6 DEF PoolAgain, Leave, Signal
  <1>7. CASE BroadcastTraffic
    BY <1>7 DEF BroadcastTraffic, LockBroadcast, SendBroadcast, UnlockBroadcast, CloseBroadcast
  <1>8. CASE ProcessIncomingTraffic \/ Stranger \/ StrangerLeaves
    BY <1>8 DEF ProcessIncomingTraffic, Bind, Accept, ReadPacket, LockSeed, SendBit, Stranger, StrangerLeaves
  <1>9. CASE Solution
    BY <1>9 DEF Solution, Sniff, Ask, Reset, TakeKey, TakeBit, Decode
  <1>10. CASE UNCHANGED vars
    BY <1>10 DEF vars
  <1> QED
    BY <1>1, <1>2, <1>3, <1>4, <1>5, <1>6, <1>7, <1>8, <1>9, <1>10 DEF Next, PoolFlagChange

LEMMA NetStep ==
  ASSUME WholeInv, [Next]_vars
  PROVE  net' \in Seq(WholeFlag)
  <1> USE DEF mainVars, socketVars, readerVars
  <1>1. CASE SendBroadcast
    <2>1. cXorFlag \in WholeFlag
      BY <1>1 DEF WholeInv, Exclusion, BufferState, InPool, SendBroadcast, Alive
    <2> QED
      BY <1>1, <2>1 DEF WholeInv, SendBroadcast
  <1>2. CASE Sniff
    BY <1>2 DEF WholeInv, Sniff
  <1>3. CASE net' = net
    BY <1>3 DEF WholeInv
  <1>4. CASE PoolFlagChange \/ PoolAgain \/ Leave \/ Signal
    BY <1>3, <1>4 DEF PoolFlagChange, ReadFlagFile, LockPool, CopyFlag, CopySeed, EncryptFlag,
                      PoolAgain, Leave, Signal
  <1>5. CASE LockBroadcast \/ UnlockBroadcast \/ CloseBroadcast
    BY <1>3, <1>5 DEF LockBroadcast, UnlockBroadcast, CloseBroadcast
  <1>6. CASE ProcessIncomingTraffic \/ Stranger \/ StrangerLeaves
    BY <1>3, <1>6 DEF ProcessIncomingTraffic, Bind, Accept, ReadPacket, LockSeed, SendBit, Stranger, StrangerLeaves
  <1>7. CASE Ask \/ Reset \/ TakeKey \/ TakeBit \/ Decode
    BY <1>3, <1>7 DEF Ask, Reset, TakeKey, TakeBit, Decode
  <1>8. CASE UNCHANGED vars
    BY <1>3, <1>8 DEF vars
  <1> QED
    BY <1>1, <1>2, <1>4, <1>5, <1>6, <1>7, <1>8 DEF Next, BroadcastTraffic, Solution

THEOREM WholeInvThm == Spec => []WholeInv
  <1>1. WholeInv /\ [Next]_vars => WholeInv'
    BY ExclusionStep, BufferStep, NetStep DEF WholeInv
  <1> QED
    BY WholeInit, <1>1, PTL DEF Spec

LEMMA WholeImplies == WholeInv => BroadcastWhole
  <1> SUFFICES ASSUME WholeInv, NEW p \in ToSet(net) PROVE p.key = p.flag /\ p.key > 0
    BY DEF BroadcastWhole
  <1>1. p \in WholeFlag
    BY DEF WholeInv, ToSet
  <1> QED
    BY <1>1 DEF WholeFlag

\* No broadcast is torn or in the clear, for every number of pool changes.
THEOREM BroadcastWholeThm == Spec => []BroadcastWhole
  BY WholeInvThm, WholeImplies, PTL

-----------------------------------------------------------------------------
(* What the reader takes of the seed.                                      *)

\* The request that solution.py has made or makes next (lines 95-99, 133-138).
Request == <<x, pos \div Bits, pos % Bits>>

\* A seed never goes back, so that everything made from one is no newer than cSeed,
\* and the bits are in order, none older than the packet.
Order ==
  /\ cSeed <= change /\ cXorFlag.key <= cSeed
  /\ \A i \in DOMAIN net : net[i].key <= cSeed
  /\ packet \in [flag : Nat, key : Nat] /\ packet.key = packet.flag /\ packet.key <= cSeed
  /\ got \in Seq(Nat)
  /\ \A i \in DOMAIN got : packet.key <= got[i] /\ got[i] <= cSeed
  /\ \A i, j \in DOMAIN got : i < j => got[i] <= got[j]

\* An answer that holds a bit is no older than the bits before it, and one can only be
\* there for the reader's talk key when that is right.
Answers ==
  /\ answer \in [kind : {"none", "asked", "closed", "reset", "bit"}, change : Nat]
  /\ answer.kind = "bit" =>
       /\ x = bTalkKey
       /\ packet.key <= answer.change /\ answer.change <= cSeed
       /\ \A i \in DOMAIN got : got[i] <= answer.change
  /\ rpc \in {"sniff", "decoded", "stopped"} => answer.kind = "none"

InService == spc \in {"read", "lock", "char"}
OfReader(c) == c.from = "reader"

\* While the daemon lives, at most one request of the reader is on its way: the one it
\* waits for.
Requests ==
  /\ backlog \in Seq([from : {"reader", "stranger"}, data : Seq(Int)])
  /\ Alive =>
       /\ InService /\ OfReader(conn) =>
            /\ answer.kind = "asked" /\ conn.data = Request
            /\ \A i \in DOMAIN backlog : ~OfReader(backlog[i])
            /\ spc \in {"lock", "char"} => x = bTalkKey
       /\ \A i \in DOMAIN backlog : OfReader(backlog[i]) =>
            answer.kind = "asked" /\ backlog[i].data = Request
       /\ \A i, j \in DOMAIN backlog : OfReader(backlog[i]) /\ OfReader(backlog[j]) => i = j

\* How far the reader is: it has found no other talk key than the right one.
Progress ==
  /\ rpc \in {"sniff", "brute", "bits", "decoded", "stopped"}
  /\ x \in Nat /\ pos \in 0 .. N - 1
  /\ rpc = "brute" => got = <<>> /\ pos = 0
  /\ rpc = "bits" => x = bTalkKey

TornInv == WholeInv /\ Order /\ Answers /\ Requests /\ Progress

LEMMA NPositive == N \in Nat \ {0}
  BY BitStealAssumption, SMT DEF N

LEMMA TornInit == Init => TornInv
  <1> SUFFICES ASSUME Init PROVE TornInv
    OBVIOUS
  <1>1. WholeInv
    BY WholeInit
  <1>2. Order /\ Answers
    BY DEF Init, Order, Answers, NoAnswer, Without
  <1>3. Requests /\ Progress
    BY NPositive DEF Init, Requests, Progress, InService, NoAnswer, Without
  <1> QED
    BY <1>1, <1>2, <1>3 DEF TornInv

\* The process does not come back.
LEMMA AliveStays ==
  ASSUME [Next]_vars, Alive'
  PROVE  Alive
  <1> USE DEF Alive, mainVars
  <1>1. CASE PoolFlagChange \/ PoolAgain \/ Leave \/ Signal
    BY <1>1 DEF PoolFlagChange, ReadFlagFile, LockPool, CopyFlag, CopySeed, EncryptFlag,
                PoolAgain, Leave, Signal
  <1>2. CASE BroadcastTraffic
    BY <1>2 DEF BroadcastTraffic, LockBroadcast, SendBroadcast, UnlockBroadcast, CloseBroadcast
  <1>3. CASE ProcessIncomingTraffic \/ Stranger \/ StrangerLeaves
    BY <1>3 DEF ProcessIncomingTraffic, Bind, Accept, ReadPacket, LockSeed, SendBit, Stranger, StrangerLeaves
  <1>4. CASE Solution
    BY <1>4 DEF Solution, Sniff, Ask, Reset, TakeKey, TakeBit, Decode
  <1>5. CASE UNCHANGED vars
    BY <1>5 DEF vars
  <1> QED
    BY <1>1, <1>2, <1>3, <1>4, <1>5 DEF Next

LEMMA OrderStep ==
  ASSUME WholeInv, Order, Answers, [Next]_vars
  PROVE  Order'
  <1> USE DEF Order, WholeInv, BufferState, mainVars, readerVars
  <1>1. CASE ReadFlagFile
    BY <1>1 DEF ReadFlagFile
  <1>2. CASE CopyFlag
    BY <1>2 DEF CopyFlag
  <1>3. CASE CopySeed
    <2>1. cSeed' = change /\ cSeed <= cSeed' /\ cSeed' \in Nat
          /\ UNCHANGED <<change, cXorFlag, net, packet, got>>
      BY <1>3 DEF CopySeed
    <2>2. \A i \in DOMAIN net : net[i].key \in Nat /\ net[i].key <= cSeed
      BY DEF WholeFlag
    <2>3. \A i \in DOMAIN net' : net'[i].key <= cSeed'
      BY <2>1, <2>2
    <2>4. \A i \in DOMAIN got' : packet'.key <= got'[i] /\ got'[i] <= cSeed'
      BY <2>1
    <2> QED
      BY <2>1, <2>3, <2>4
  <1>4. CASE EncryptFlag
    BY <1>4 DEF EncryptFlag
  <1>5. CASE SendBroadcast
    <2>1. UNCHANGED <<change, cSeed, cXorFlag, packet, got>>
          /\ net' \in {net, Append(net, cXorFlag)}
      BY <1>5 DEF SendBroadcast
    <2>2. \A i \in DOMAIN Append(net, cXorFlag) : Append(net, cXorFlag)[i].key <= cSeed
      <3> SUFFICES ASSUME NEW i \in DOMAIN Append(net, cXorFlag)
                   PROVE  Append(net, cXorFlag)[i].key <= cSeed
        OBVIOUS
      <3>1. i \in DOMAIN net \/ i = Len(net) + 1
        OBVIOUS
      <3>2. CASE i \in DOMAIN net
        BY <3>2
      <3>3. CASE i = Len(net) + 1
        BY <3>3
      <3> QED
        BY <3>1, <3>2, <3>3
    <2> QED
      BY <2>1, <2>2
  <1>6. CASE Sniff
    <2>1. Head(net) \in WholeFlag /\ Head(net) = net[1] /\ 1 \in DOMAIN net
      BY <1>6 DEF Sniff
    <2>2. net' = Tail(net) /\ packet' = Head(net) /\ got' = <<>>
          /\ UNCHANGED <<change, cSeed, cXorFlag>>
      BY <1>6 DEF Sniff
    <2>3. \A i \in DOMAIN net' : net'[i].key <= cSeed
      BY <2>2
    <2> QED
      BY <2>1, <2>2, <2>3 DEF WholeFlag
  <1>7. CASE TakeBit
    BY <1>7 DEF TakeBit, Answers
  <1>8. CASE UNCHANGED <<change, cSeed, cXorFlag, net, packet, got>>
    BY <1>8
  <1>9. CASE LockPool \/ PoolAgain \/ Leave \/ Signal
    BY <1>8, <1>9 DEF LockPool, PoolAgain, Leave, Signal
  <1>10. CASE LockBroadcast \/ UnlockBroadcast \/ CloseBroadcast
    BY <1>8, <1>10 DEF LockBroadcast, UnlockBroadcast, CloseBroadcast
  <1>11. CASE ProcessIncomingTraffic \/ Stranger \/ StrangerLeaves
    BY <1>8, <1>11 DEF ProcessIncomingTraffic, Bind, Accept, ReadPacket, LockSeed, SendBit, Stranger, StrangerLeaves
  <1>12. CASE Ask \/ Reset \/ TakeKey \/ Decode
    BY <1>8, <1>12 DEF Ask, Reset, TakeKey, Decode
  <1>13. CASE UNCHANGED vars
    BY <1>8, <1>13 DEF vars
  <1> QED
    BY <1>1, <1>2, <1>3, <1>4, <1>5, <1>6, <1>7, <1>9, <1>10, <1>11, <1>12, <1>13
       DEF Next, PoolFlagChange, BroadcastTraffic, Solution

LEMMA AnswersStep ==
  ASSUME TornInv, [Next]_vars
  PROVE  Answers'
  <1> USE DEF TornInv, Answers, WholeInv, BufferState, mainVars, readerVars, socketVars, NoAnswer, Without
  <1>1. CASE CopySeed
    BY <1>1 DEF CopySeed, Order, InPool
  <1>2. CASE ReadPacket
    BY <1>2 DEF ReadPacket, Reply, Requests, InService, OfReader
  <1>3. CASE SendBit
    BY <1>3 DEF SendBit, Reply, Requests, InService, OfReader, Order
  <1>4. CASE Sniff
    BY <1>4 DEF Sniff
  <1>5. CASE Ask
    BY <1>5 DEF Ask
  <1>6. CASE Reset
    BY <1>6 DEF Reset
  <1>7. CASE TakeKey \/ TakeBit
    BY <1>7 DEF TakeKey, TakeBit
  <1>8. CASE UNCHANGED <<answer, x, bTalkKey, packet, cSeed, got, rpc>>
    BY <1>8
  <1>9. CASE ReadFlagFile \/ LockPool \/ CopyFlag \/ EncryptFlag \/ PoolAgain \/ Leave \/ Signal
    BY <1>8, <1>9 DEF ReadFlagFile, LockPool, CopyFlag, EncryptFlag, PoolAgain, Leave, Signal
  <1>10. CASE BroadcastTraffic
    BY <1>8, <1>10 DEF BroadcastTraffic, LockBroadcast, SendBroadcast, UnlockBroadcast, CloseBroadcast
  <1>11. CASE Bind \/ Accept \/ LockSeed \/ Stranger \/ StrangerLeaves
    BY <1>8, <1>11 DEF Bind, Accept, LockSeed, Stranger, StrangerLeaves
  <1>12. CASE Decode
    BY <1>12 DEF Decode
  <1>13. CASE UNCHANGED vars
    BY <1>8, <1>13 DEF vars
  <1> QED
    BY <1>1, <1>2, <1>3, <1>4, <1>5, <1>6, <1>7, <1>9, <1>10, <1>11, <1>12, <1>13
       DEF Next, PoolFlagChange, ProcessIncomingTraffic, Solution

LEMMA ProgressStep ==
  ASSUME TornInv, [Next]_vars
  PROVE  Progress'
  <1> USE NPositive DEF TornInv, Progress, mainVars, readerVars, socketVars, NoAnswer, Without
  <1>1. CASE ReadPacket
    BY <1>1 DEF ReadPacket
  <1>2. CASE SendBit
    BY <1>2 DEF SendBit
  <1>3. CASE Sniff
    BY <1>3 DEF Sniff
  <1>4. CASE Ask
    BY <1>4 DEF Ask
  <1>5. CASE Reset
    BY <1>5 DEF Reset
  <1>6. CASE TakeKey
    BY <1>6 DEF TakeKey, Answers
  <1>7. CASE TakeBit
    BY <1>7 DEF TakeBit, N
  <1>8. CASE Decode
    BY <1>8 DEF Decode
  <1>9. CASE UNCHANGED <<rpc, x, pos, got, bTalkKey>>
    BY <1>9
  <1>10. CASE PoolFlagChange \/ PoolAgain \/ Leave \/ Signal
    BY <1>9, <1>10 DEF PoolFlagChange, ReadFlagFile, LockPool, CopyFlag, CopySeed, EncryptFlag,
                       PoolAgain, Leave, Signal
  <1>11. CASE BroadcastTraffic
    BY <1>9, <1>11 DEF BroadcastTraffic, LockBroadcast, SendBroadcast, UnlockBroadcast, CloseBroadcast
  <1>12. CASE Bind \/ Accept \/ LockSeed \/ Stranger \/ StrangerLeaves
    BY <1>9, <1>12 DEF Bind, Accept, LockSeed, Stranger, StrangerLeaves
  <1>13. CASE UNCHANGED vars
    BY <1>9, <1>13 DEF vars
  <1> QED
    BY <1>1, <1>2, <1>3, <1>4, <1>5, <1>6, <1>7, <1>8, <1>10, <1>11, <1>12, <1>13
       DEF Next, ProcessIncomingTraffic, Solution

LEMMA RequestsStep ==
  ASSUME TornInv, [Next]_vars
  PROVE  Requests'
  <1> USE DEF TornInv, Requests, InService, OfReader, Request, mainVars, readerVars, socketVars
  <1>0. Alive' => Alive
    BY AliveStays
  <1>1. CASE Accept
    <2>1. Alive /\ spc = "accept" /\ backlog # <<>>
          /\ conn' = backlog[1] /\ backlog' = Tail(backlog) /\ spc' = "read"
          /\ UNCHANGED <<mpc, bTalkKey, answer, x, pos>>
      BY <1>1 DEF Accept
    <2>2. backlog' \in Seq([from : {"reader", "stranger"}, data : Seq(Int)])
          /\ \A i \in DOMAIN backlog' : i + 1 \in DOMAIN backlog /\ backlog'[i] = backlog[i + 1]
          /\ 1 \in DOMAIN backlog
      BY <2>1
    <2>3. OfReader(conn)' =>
            answer.kind = "asked" /\ conn'.data = Request /\ \A i \in DOMAIN backlog' : ~OfReader(backlog[i + 1])
      BY <2>1, <2>2
    <2>4. \A i, j \in DOMAIN backlog' :
            OfReader(backlog[i + 1]) /\ OfReader(backlog[j + 1]) => i = j
      BY <2>1, <2>2
    <2> QED
      BY <2>1, <2>2, <2>3, <2>4 DEF Alive
  <1>2. CASE ReadPacket
    <2>1. UNCHANGED <<mpc, backlog, conn, x, pos, bTalkKey>> /\ spc = "read" /\ Alive
      BY <1>2 DEF ReadPacket
    <2>2. CASE WellFormed(conn.data) /\ spc' = "lock" /\ UNCHANGED answer
      BY <2>1, <2>2 DEF WellFormed, Alive
    <2>3. CASE spc' = "accept" /\ (OfReader(conn) \/ UNCHANGED answer)
      BY <2>1, <2>3 DEF Alive
    <2> QED
      BY <1>2, <2>2, <2>3 DEF ReadPacket, Reply
  <1>3. CASE LockSeed
    BY <1>0, <1>3 DEF LockSeed
  <1>4. CASE SendBit
    BY <1>0, <1>4 DEF SendBit, Reply
  <1>5. CASE Bind
    BY <1>0, <1>5 DEF Bind
  <1>6. CASE Stranger
    <2>1. PICK data \in StrangerPackets :
            backlog' = Append(backlog, [from |-> "stranger", data |-> data])
      BY <1>6 DEF Stranger
    <2> DEFINE new == [from |-> "stranger", data |-> data]
    <2>2. /\ backlog' \in Seq([from : {"reader", "stranger"}, data : Seq(Int)])
          /\ \A i \in DOMAIN backlog' :
               \/ i \in DOMAIN backlog /\ backlog'[i] = backlog[i]
               \/ i = Len(backlog) + 1 /\ backlog'[i] = new
      BY <2>1, BitStealAssumption
    <2>3. UNCHANGED <<mpc, spc, conn, x, pos, bTalkKey, answer>> /\ Alive
      BY <1>6 DEF Stranger, Listening
    <2>4. \A i \in DOMAIN backlog' :
            OfReader(backlog'[i]) => i \in DOMAIN backlog /\ backlog'[i] = backlog[i]
      BY <2>2
    <2> HIDE DEF new
    <2> QED
      BY <2>2, <2>3, <2>4 DEF Alive
  <1>7. CASE Ask
    <2>1. Request \in Seq(Int) /\ answer.kind = "none" /\ UNCHANGED <<mpc, spc, conn, bTalkKey, x, pos>>
      BY <1>7, BitStealAssumption DEF Ask, Progress
    <2>2. CASE UNCHANGED <<backlog, answer>>
      BY <1>0, <2>1, <2>2
    <2>3. CASE /\ Alive /\ answer'.kind = "asked"
               /\ backlog' = Append(backlog, [from |-> "reader", data |-> Request])
      <3> DEFINE new == [from |-> "reader", data |-> Request]
      <3>1. /\ backlog' \in Seq([from : {"reader", "stranger"}, data : Seq(Int)])
            /\ \A i \in DOMAIN backlog' :
                 \/ i \in DOMAIN backlog /\ backlog'[i] = backlog[i]
                 \/ i = Len(backlog) + 1 /\ backlog'[i] = new
        BY <2>1, <2>3
      <3>2. (\A i \in DOMAIN backlog : ~OfReader(backlog[i])) /\ ~(InService /\ OfReader(conn))
        BY <2>1, <2>3
      <3> QED
        BY <2>1, <2>3, <3>1, <3>2
    <2> QED
      BY <1>7, <2>2, <2>3 DEF Ask, Listening, Without
  <1>8. CASE Reset
    BY <1>0, <1>8 DEF Reset
  <1>9. CASE TakeKey \/ TakeBit
    BY <1>0, <1>9 DEF TakeKey, TakeBit
  <1>10. CASE Sniff \/ Decode
    BY <1>0, <1>10 DEF Sniff, Decode, Answers
  <1>11. CASE UNCHANGED <<backlog, conn, spc, answer, x, pos, bTalkKey>>
    BY <1>0, <1>11
  <1>12. CASE ReadFlagFile \/ LockPool \/ CopyFlag \/ CopySeed \/ PoolAgain \/ Leave \/ Signal
    BY <1>11, <1>12 DEF ReadFlagFile, LockPool, CopyFlag, CopySeed, PoolAgain, Leave, Signal
  <1>13. CASE EncryptFlag
    BY <1>0, <1>13 DEF EncryptFlag
  <1>14. CASE BroadcastTraffic
    BY <1>11, <1>14 DEF BroadcastTraffic, LockBroadcast, SendBroadcast, UnlockBroadcast, CloseBroadcast
  <1>15. CASE StrangerLeaves
    BY <1>0, <1>15 DEF StrangerLeaves
  <1>16. CASE UNCHANGED vars
    BY <1>11, <1>16 DEF vars
  <1> QED
    BY <1>1, <1>2, <1>3, <1>4, <1>5, <1>6, <1>7, <1>8, <1>9, <1>10, <1>12, <1>13, <1>14, <1>15,
       <1>16
       DEF Next, PoolFlagChange, ProcessIncomingTraffic, Solution

THEOREM TornInvThm == Spec => []TornInv
  <1>1. TornInv /\ [Next]_vars => TornInv'
    BY ExclusionStep, BufferStep, NetStep, OrderStep, AnswersStep, RequestsStep, ProgressStep
       DEF TornInv, WholeInv
  <1> QED
    BY TornInit, <1>1, PTL DEF Spec

LEMMA TornImplies == TornInv => TornOnlyByChange
  <1> SUFFICES ASSUME TornInv, rpc = "decoded" PROVE
        /\ \A i, j \in DOMAIN got : i < j => packet.key <= got[i] /\ got[i] <= got[j]
        /\ Len(got) = N /\ got[Len(got)] = packet.key => Right
    BY DEF TornOnlyByChange, N
  <1>1. \A i, j \in DOMAIN got : i < j => packet.key <= got[i] /\ got[i] <= got[j]
    BY DEF TornInv, Order
  <1>2. ASSUME Len(got) = N, got[Len(got)] = packet.key
        PROVE  Right
    <2> SUFFICES ASSUME NEW i \in DOMAIN got PROVE got[i] = packet.key
      BY <1>2 DEF Right, N, TornInv, Order
    <2>1. N \in DOMAIN got /\ i <= N
      BY <1>2, NPositive DEF TornInv, Order
    <2>2. packet.key <= got[i] /\ got[i] <= got[N]
      BY <2>1 DEF TornInv, Order
    <2> QED
      BY <1>2, <2>1, <2>2 DEF TornInv, Order
  <1> QED
    BY <1>1, <1>2

\* A reader's seed of full length is torn by a change of the pool only, for every length of
\* the seed, however many clients and changes there are and whichever requests are lost.
THEOREM TornOnlyByChangeThm == Spec => []TornOnlyByChange
  BY TornInvThm, TornImplies, PTL

-----------------------------------------------------------------------------
(* The shellcode server of CantTouchThis and compile.py beside it.         *)

\* A call of the server that has removed shellcode.txt and has not yet ended.
Compiling == server \in {"remove", "compile", "run", "read"}

CallInv ==
  /\ server \in {"idle", "time", "remove", "compile", "run", "read", "stuck"}
  /\ call \in Nat /\ since \in Nat /\ calls \in Nat /\ ccall \in Nat
  /\ clock \in Nat /\ lastTime \in Nat
  /\ since <= call /\ call <= calls /\ ccall <= calls
  /\ shellcode_txt \in [in : Int, exe : Int]
  /\ mem_shellcode \in [in : Int, exe : Int]
  /\ test_exe \in Int
  /\ server \notin {"idle", "stuck"} => threadLock

\* What is in shellcode.txt was written since the call began.
WrittenSince ==
  /\ Compiling => call > 0 /\ (shellcode_txt = CT!None \/ shellcode_txt.in >= since)
  /\ Compiling /\ cpc # "idle" => ccall >= since

\* Where only the server has written, a program is there only if its call has compiled
\* it, and what it has written says so; a call that left neither holds the lock.
OwnFiles ==
  ~ meddled =>
    /\ cpc = "idle"
    /\ (server = "idle" /\ ~ threadLock) \/ server = "time"
         => (shellcode_txt = CT!None => test_exe = 0)
    /\ Compiling /\ server # "read" => shellcode_txt = CT!None
    /\ server = "compile" => test_exe = 0
    /\ server = "run" => test_exe \in {0, call}
    /\ server = "read" => shellcode_txt \in {CT!None, [in |-> call, exe |-> call]}

\* mem_shellcode is good where it is or may be given to a client: while it is younger than
\* timer_limit, and after the call that made it.
FromLatestCall ==
  /\ mem_shellcode.in >= since
  /\ ~ meddled => mem_shellcode = [in |-> call, exe |-> call]
MemoryInv ==
  (\/ result = "shellcode" /\ server = "idle"
   \/ mem_shellcode # CT!None /\ clock - lastTime < timer_limit) => FromLatestCall

TouchInv == CallInv /\ WrittenSince /\ OwnFiles /\ MemoryInv /\ CT!StuckAfterFault

LEMMA TouchInit == CT!Init => TouchInv
<1> SUFFICES ASSUME CT!Init PROVE TouchInv
  OBVIOUS
<1> USE DEF CT!Init, CT!None, CT!Stray
<1>1. ~ meddled => test_exe = 0
  BY Zenon
<1>2. shellcode_txt \in [in : Int, exe : Int] /\ mem_shellcode \in [in : Int, exe : Int]
  OBVIOUS
<1> QED
  <2>1. CallInv
    BY <1>1, <1>2 DEF CallInv
  <2>2. WrittenSince /\ MemoryInv /\ CT!StuckAfterFault
    BY DEF WrittenSince, MemoryInv, CT!StuckAfterFault, Compiling
  <2>3. OwnFiles
    BY <1>1 DEF OwnFiles, Compiling
  <2> QED BY <2>1, <2>2, <2>3 DEF TouchInv

LEMMA TouchStep ==
  ASSUME TouchInv, timer_limit \in Nat, CT!Next
  PROVE  TouchInv'
<1> USE DEF TouchInv, CallInv, WrittenSince, OwnFiles, MemoryInv, CT!StuckAfterFault, Compiling,
            FromLatestCall, CT!None, CT!serverVars, CT!fileVars, CT!scriptVars, CT!Return
<1>1. CASE CT!Request
  BY <1>1 DEF CT!Request
<1>2. CASE CT!Cached
  BY <1>2 DEF CT!Cached
<1>3. CASE CT!RemoveShellcode
  BY <1>3 DEF CT!RemoveShellcode
<1>4. CASE CT!RemoveExe
  BY <1>4 DEF CT!RemoveExe
<1>5. CASE CT!Compile
  BY <1>5 DEF CT!Compile
<1>6. CASE CT!NoShell
  BY <1>6 DEF CT!NoShell
<1>7. CASE CT!RunExe
  BY <1>7 DEF CT!RunExe
<1>8. CASE CT!ReadShellcode
  BY <1>8 DEF CT!ReadShellcode
<1>9. CASE CT!ReadRaises
  BY <1>9 DEF CT!ReadRaises
<1>10. CASE CT!ScriptRemove
  BY <1>10 DEF CT!ScriptRemove
<1>11. CASE CT!ScriptRemoveExe
  BY <1>11 DEF CT!ScriptRemoveExe
<1>12. CASE CT!ScriptCompile
  BY <1>12 DEF CT!ScriptCompile
<1>13. CASE CT!ScriptRun
  BY <1>13 DEF CT!ScriptRun
<1>14. CASE CT!Tick
  BY <1>14 DEF CT!Tick
<1> QED
  BY <1>1, <1>2, <1>3, <1>4, <1>5, <1>6, <1>7, <1>8, <1>9, <1>10, <1>11, <1>12, <1>13, <1>14
     DEF CT!Next, CT!Server, CT!CompilePy

LEMMA TouchStutter == TouchInv /\ UNCHANGED ctVars => TouchInv'
  BY DEF ctVars, TouchInv, CallInv, WrittenSince, OwnFiles, MemoryInv, CT!StuckAfterFault,
         Compiling, FromLatestCall, CT!None

\* The same of CantTouch alone and beside the other services.
LEMMA TouchInvariant ==
  ASSUME timer_limit \in Nat
  PROVE  MCSpec => []TouchInv
<1>1. MCInit => TouchInv
  BY TouchInit DEF MCInit
<1>2. TouchInv /\ [MCNext]_mcvars => TouchInv'
  BY TouchStep, TouchStutter DEF MCNext, BitStealRuns, CantTouchRuns, SpamRuns, mcvars
<1> QED BY <1>1, <1>2, PTL DEF MCSpec

\* Shellcode that CantTouchThis hands out was written in the latest compiling call or by a
\* compile.py that was not over when it began, and where only the server wrote, by the program
\* which that call has compiled: for every time limit, clock and number of calls.
THEOREM ShellcodeFresh ==
  ASSUME timer_limit \in Nat
  PROVE  MCSpec => []FreshShellcode
<1>1. TouchInv => FreshShellcode
  BY DEF TouchInv, MemoryInv, FromLatestCall, FreshShellcode, CT!FreshShellcode
<1> QED BY <1>1, TouchInvariant, PTL

\* Only a call that was answered with a fault leaves the lock behind, whatever came before it.
THEOREM LockLeftByFault ==
  ASSUME timer_limit \in Nat
  PROVE  MCSpec => []StuckAfterFault
<1>1. TouchInv => StuckAfterFault
  BY DEF TouchInv, StuckAfterFault
<1> QED BY <1>1, TouchInvariant, PTL

-----------------------------------------------------------------------------
(* The pool of ctf_spammaster.                                             *)

Stages == {"get", "say", "saying", "connect", "complain", "complaining", "sleep"}

\* The threads that have their address.
Fetched == {w \in Workers : wpc[w] # "get"}
Got == Cardinality(Fetched)

\* The queue holds the addresses that nobody has fetched, in their order; a thread's
\* address is one of those that were fetched, and none is ever counted as done.
PoolInv ==
  /\ ips \in Nat /\ put \in 0 .. ips /\ unfinished = put
  /\ main \in {"put", "join", "ended"} /\ (main # "put" => put = ips)
  /\ main = "ended" => ips = 0
  /\ wpc \in [Workers -> Stages] /\ ip \in [Workers -> Nat]
  /\ ip_queue \in Seq(Nat) /\ Len(ip_queue) + Got = put
  /\ \A j \in 1 .. Len(ip_queue) : ip_queue[j] = Got + j
  /\ \A w \in Workers : ip[w] <= Got

\* The instance's own copy of Cardinality.
LEMMA SameCardinality == SP!Cardinality(Workers) = Cardinality(Workers)
  BY DEF SP!Cardinality, Cardinality

LEMMA GotCounts ==
  ASSUME IsFiniteSet(Workers)
  PROVE  Got \in Nat /\ Got <= Cardinality(Workers)
<1>1. Fetched \subseteq Workers
  BY DEF Fetched
<1> QED BY <1>1, FS_Subset, FS_CardinalityType DEF Got

LEMMA PoolInit ==
  ASSUME SP!Init, MaxIps \in Nat
  PROVE  PoolInv
<1> USE DEF SP!Init
<1>1. Fetched = {}
  BY DEF Fetched
<1>2. Got = 0
  BY <1>1, FS_EmptySet DEF Got
<1>3. ip_queue \in Seq(Nat) /\ Len(ip_queue) = 0
  OBVIOUS
<1>4. wpc \in [Workers -> Stages] /\ ip \in [Workers -> Nat]
  BY DEF Stages
<1> QED BY <1>1, <1>2, <1>3, <1>4 DEF PoolInv

\* A thread goes on with the address that it has.
LEMMA GoOn ==
  ASSUME PoolInv, NEW w \in Workers, NEW pc \in Stages, wpc[w] # "get", pc # "get", SP!Goto(w, pc),
         UNCHANGED <<ips, put, main, ip_queue, unfinished, ip>>
  PROVE  PoolInv'
<1>1. Fetched' = Fetched /\ wpc' \in [Workers -> Stages]
  BY DEF PoolInv, SP!Goto, Fetched
<1>2. Got' = Got
  BY <1>1 DEF Got
<1> QED BY <1>1, <1>2 DEF PoolInv

\* The only get of a thread: the address at the head is the next one.
LEMMA GetStep ==
  ASSUME PoolInv, IsFiniteSet(Workers), NEW w \in Workers, SP!Get(w)
  PROVE  PoolInv'
<1> DEFINE n == Len(ip_queue)
           g == Got
<1>1. /\ wpc[w] = "get" /\ ip_queue # <<>> /\ ip_queue \in Seq(Nat)
      /\ wpc' = [wpc EXCEPT ![w] = "say"] /\ ip' = [ip EXCEPT ![w] = Head(ip_queue)]
      /\ ip_queue' = Tail(ip_queue) /\ UNCHANGED <<ips, put, main, unfinished>>
  BY DEF SP!Get, SP!Goto, PoolInv
<1>2. Fetched' = Fetched \cup {w} /\ w \notin Fetched
  BY <1>1 DEF Fetched, PoolInv
<1>3. g \in Nat /\ Got' = g + 1
  <2>1. IsFiniteSet(Fetched)
    BY FS_Subset DEF Fetched
  <2> QED BY <1>2, <2>1, FS_AddElement, FS_CardinalityType DEF Got
<1>4. n \in Nat /\ n > 0 /\ Head(ip_queue) = g + 1
  <2>1. n \in Nat /\ n # 0
    BY <1>1, EmptySeq, LenProperties
  <2>2. ip_queue[1] = g + 1
    BY <2>1 DEF PoolInv
  <2>3. Head(ip_queue) = ip_queue[1]
    BY <1>1, HeadTailProperties
  <2> QED BY <2>1, <2>2, <2>3
<1>5. /\ ip_queue' \in Seq(Nat) /\ Len(ip_queue') = n - 1
      /\ \A j \in 1 .. n - 1 : ip_queue'[j] = ip_queue[j + 1]
  BY <1>1, HeadTailProperties
<1>6. \A j \in 1 .. n - 1 : ip_queue'[j] = g + 1 + j
  <2>1. \A j \in 1 .. n - 1 : j + 1 \in 1 .. n /\ g + (j + 1) = g + 1 + j
    BY <1>3, <1>4
  <2>2. \A j \in 1 .. n : ip_queue[j] = g + j
    BY DEF PoolInv
  <2> HIDE DEF n, g
  <2> QED BY <1>5, <2>1, <2>2
<1>7. n - 1 + (g + 1) = put
  <2>1. n + g = put
    BY DEF PoolInv
  <2> HIDE DEF n, g
  <2> QED BY <1>3, <1>4, <2>1
<1>8. ip' \in [Workers -> Nat] /\ \A v \in Workers : ip'[v] <= g + 1
  <2>1. ip \in [Workers -> Nat] /\ \A v \in Workers : ip[v] <= g
    BY DEF PoolInv
  <2> HIDE DEF n, g
  <2> QED BY <1>1, <1>3, <1>4, <2>1
<1>9. wpc' \in [Workers -> Stages]
  BY <1>1 DEF PoolInv, Stages
<1> HIDE DEF n, g
<1> QED BY <1>1, <1>3, <1>5, <1>6, <1>7, <1>8, <1>9 DEF PoolInv

LEMMA PoolStep ==
  ASSUME PoolInv, IsFiniteSet(Workers), SP!Next
  PROVE  PoolInv'
<1>0. Got \in Nat
  BY GotCounts
<1>1. CASE SP!Put
  <2>1. UNCHANGED <<wpc, ip, ips, main>> /\ Fetched' = Fetched /\ put < ips /\ main = "put"
        /\ put' = put + 1 /\ unfinished' = unfinished + 1 /\ ip_queue' = Append(ip_queue, put + 1)
    BY <1>1 DEF SP!Put, SP!workerVars, Fetched
  <2>2. Got' = Got
    BY <2>1 DEF Got
  <2>3. ip_queue \in Seq(Nat) /\ put + 1 \in Nat /\ Len(ip_queue) \in Nat
    BY LenProperties DEF PoolInv
  <2>4. /\ ip_queue' \in Seq(Nat) /\ Len(ip_queue') = Len(ip_queue) + 1
        /\ \A j \in 1 .. Len(ip_queue) : ip_queue'[j] = ip_queue[j]
        /\ ip_queue'[Len(ip_queue) + 1] = put + 1
    BY <2>1, <2>3, AppendProperties
  <2>5. ASSUME NEW j \in 1 .. Len(ip_queue) + 1 PROVE ip_queue'[j] = Got + j
    <3>1. CASE j \in 1 .. Len(ip_queue)
      BY <2>4, <3>1 DEF PoolInv
    <3>2. CASE j = Len(ip_queue) + 1
      <4>1. Len(ip_queue) + Got = put
        BY DEF PoolInv
      <4> QED BY <1>0, <2>3, <2>4, <3>2, <4>1
    <3> QED BY <2>3, <3>1, <3>2
  <2> QED BY <1>0, <2>1, <2>2, <2>3, <2>4, <2>5 DEF PoolInv
<1>2. CASE SP!Join \/ SP!End
  <2>1. UNCHANGED <<wpc, ip, ips, put, ip_queue, unfinished>> /\ Fetched' = Fetched
        /\ main' \in {"join", "ended"} /\ put = ips /\ (main' = "ended" => unfinished = 0)
    BY <1>2 DEF SP!Join, SP!End, SP!workerVars, Fetched, PoolInv
  <2>2. Got' = Got
    BY <2>1 DEF Got
  <2> QED BY <2>1, <2>2 DEF PoolInv
<1>3. ASSUME NEW w \in Workers, SP!Get(w) PROVE PoolInv'
  BY <1>3, GetStep
<1>4. ASSUME NEW w \in Workers, SP!Acquire(w) \/ SP!Release(w) \/ SP!Connect(w) \/ SP!Wake(w)
      PROVE  PoolInv'
  <2>1. /\ wpc[w] # "get" /\ UNCHANGED <<ips, put, main, ip_queue, unfinished, ip>>
        /\ \E pc \in Stages : pc # "get" /\ SP!Goto(w, pc)
    BY <1>4 DEF SP!Acquire, SP!Release, SP!Connect, SP!Wake, SP!AfterPort, Stages
  <2> QED BY <2>1, GoOn
<1> QED BY <1>1, <1>2, <1>3, <1>4 DEF SP!Next, SP!Main, SP!Worker

LEMMA PoolStutter == PoolInv /\ UNCHANGED spVars => PoolInv'
  BY DEF spVars, PoolInv, Fetched, Got

\* No address is contacted but the first ones, and the program ends only without any.
THEOREM OthersNeverContacted ==
  ASSUME IsFiniteSet(Workers), MaxIps \in Nat
  PROVE  MCSpec => []SP!FirstOnly
<1>1. MCInit => PoolInv
  BY PoolInit DEF MCInit
<1>2. PoolInv /\ [MCNext]_mcvars => PoolInv'
  BY PoolStep, PoolStutter DEF MCNext, BitStealRuns, CantTouchRuns, SpamRuns, mcvars
<1>3. PoolInv => SP!FirstOnly
  <2> SUFFICES ASSUME PoolInv PROVE SP!FirstOnly
    OBVIOUS
  <2> SUFFICES ASSUME NEW a \in 1 .. ips, NEW w \in Workers, ip[w] = a
               PROVE  a <= Cardinality(Workers)
    <3>1. main = "ended" => ips = 0
      BY DEF PoolInv
    <3> QED BY <3>1, SameCardinality DEF SP!FirstOnly, SP!Contacts
  <2>1. ip[w] \in Nat /\ ip[w] <= Got /\ Got \in Nat /\ Got <= Cardinality(Workers)
    BY GotCounts DEF PoolInv
  <2>2. Cardinality(Workers) \in Nat
    BY FS_CardinalityType
  <2> QED BY <2>1, <2>2
<1> QED BY <1>1, <1>2, <1>3, PTL DEF MCSpec
=============================================================================
