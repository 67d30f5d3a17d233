-------------------------- MODULE MpscQueueProofs --------------------------
(***************************************************************************)
(* Proofs, for any sets of nodes and producers, of the safety properties   *)
(* of MpscQueue.                                                           *)
(***************************************************************************)
EXTENDS MpscQueueInv, SequenceLemmas

USE CellsAssumption

\* Init is a state of the invariant.
LEMMA InitStruct == Init => StructInv
<1> SUFFICES ASSUME Init PROVE StructInv
  OBVIOUS
<1>1. TypeOK
  <2>1. chain \in Seq(Cells)
    BY DEF Init, Cells
  <2> QED
    BY <2>1 DEF Init, TypeOK, Cells, PCs, RPCs, DequeuePCs
<1>2. ChainEnds /\ ChainDistinct /\ ChainLinked
  BY DEF Init, ChainEnds, ChainDistinct, ChainLinked, Cells
<1>3. LinkPending /\ LinkExclusive /\ ClaimExclusive /\ ProducerLocals
  BY DEF Init, LinkPending, Linking, LinkExclusive, ClaimExclusive, Claiming, ProducerLocals
<1>4. HeldExclusive /\ StubPlace /\ Lifetime /\ MarkerAhead
  BY DEF Init, HeldExclusive, InChain, StubPlace, DequeuePCs, Lifetime,
         KeepsQueue, MarkerAhead
<1> QED
  BY <1>1, <1>2, <1>3, <1>4 DEF StructInv

LEMMA ClaimStruct ==
  ASSUME NEW p \in Producers, NEW n \in Nodes, StructInv, Claim(p, n)
  PROVE  StructInv'
<1> USE DEF queueVars, receiverVars, wakeVars
<1>1. TypeOK'
  BY DEF StructInv, Claim, TypeOK, TrackRace, InDequeue, PCs
<1>2. ChainEnds' /\ ChainDistinct'
  BY DEF StructInv, Claim, ChainEnds, ChainDistinct
<1>3. \A a, b : Linking(a, b)' <=> Linking(a, b)
  BY DEF StructInv, Claim, TypeOK, Linking
<1>4. ChainLinked' /\ LinkPending'
  BY <1>3 DEF StructInv, Claim, ChainLinked, LinkPending
<1>5. ClaimExclusive' /\ LinkExclusive'
  BY DEF StructInv, Claim, TypeOK, ClaimExclusive, LinkExclusive, HeldExclusive,
         Claiming, InChain
<1>6. ProducerLocals'
  BY DEF StructInv, Claim, TypeOK, ProducerLocals
<1>7. HeldExclusive'
  BY DEF StructInv, Claim, TypeOK, HeldExclusive, InChain
<1>8. StubPlace' /\ MarkerAhead'
  BY DEF StructInv, Claim, StubPlace, MarkerAhead, InChain
<1>9. Lifetime'
  BY DEF StructInv, Claim, TypeOK, Lifetime, KeepsQueue
<1> QED
  BY <1>1, <1>2, <1>4, <1>5, <1>6, <1>7, <1>8, <1>9 DEF StructInv

LEMMA UpgradeStruct ==
  ASSUME NEW p \in Producers, StructInv, Upgrade(p)
  PROVE  StructInv'
<1> USE DEF queueVars, producerVars, receiverVars, wakeVars
<1>1. TypeOK'
  BY DEF StructInv, Upgrade, TypeOK, TrackRace, InDequeue, PCs, RPCs, DequeuePCs, Cells
<1>2. ChainEnds' /\ ChainDistinct'
  BY DEF StructInv, Upgrade, ChainEnds, ChainDistinct, Lifetime, KeepsQueue
<1>3. \A a, b : Linking(a, b)' <=> Linking(a, b)
  BY DEF StructInv, Upgrade, TypeOK, Linking
<1>4. ChainLinked' /\ LinkPending'
  BY <1>3 DEF StructInv, Upgrade, ChainLinked, LinkPending
<1>5. ClaimExclusive' /\ LinkExclusive'
  BY DEF StructInv, Upgrade, TypeOK, ClaimExclusive, LinkExclusive, HeldExclusive,
         Claiming, InChain
<1>6. ProducerLocals'
  BY DEF StructInv, Upgrade, TypeOK, ProducerLocals, PCs
<1>7. HeldExclusive'
  BY DEF StructInv, Upgrade, TypeOK, HeldExclusive, InChain
<1>8. StubPlace'
  BY DEF StructInv, Upgrade, TypeOK, StubPlace, DequeuePCs, InChain
<1>9. MarkerAhead'
  BY DEF StructInv, Upgrade, TypeOK, MarkerAhead, DequeuePCs, InChain
<1>10. Lifetime'
  BY DEF StructInv, Upgrade, TypeOK, Lifetime, KeepsQueue, PCs
<1> QED
  BY <1>1, <1>2, <1>4, <1>5, <1>6, <1>7, <1>8, <1>9, <1>10 DEF StructInv

LEMMA WakeStruct ==
  ASSUME NEW p \in Producers, StructInv, Wake(p)
  PROVE  StructInv'
<1> USE DEF queueVars, producerVars, receiverVars, wakeVars
<1>1. TypeOK'
  <2>1. notified' \in BOOLEAN /\ waker' \in BOOLEAN /\ raced' \in BOOLEAN
    BY DEF StructInv, Wake, TypeOK, TrackRace
  <2>2. pc' \in [Producers -> PCs]
    BY DEF StructInv, Wake, TypeOK, PCs
  <2> QED
    BY <2>1, <2>2 DEF StructInv, Wake, TypeOK
<1>2. ChainEnds' /\ ChainDistinct'
  BY DEF StructInv, Wake, ChainEnds, ChainDistinct, Lifetime, KeepsQueue
<1>3. \A a, b : Linking(a, b)' <=> Linking(a, b)
  BY DEF StructInv, Wake, TypeOK, Linking
<1>4. ChainLinked' /\ LinkPending'
  BY <1>3 DEF StructInv, Wake, ChainLinked, LinkPending
<1>5. ClaimExclusive' /\ LinkExclusive'
  BY DEF StructInv, Wake, TypeOK, ClaimExclusive, LinkExclusive, HeldExclusive,
         Claiming, InChain
<1>6. ProducerLocals'
  BY DEF StructInv, Wake, TypeOK, ProducerLocals, PCs
<1>7. HeldExclusive'
  BY DEF StructInv, Wake, TypeOK, HeldExclusive, InChain
<1>8. StubPlace'
  BY DEF StructInv, Wake, TypeOK, StubPlace, DequeuePCs, InChain
<1>9. MarkerAhead'
  BY DEF StructInv, Wake, TypeOK, MarkerAhead, DequeuePCs, InChain
<1>10. Lifetime'
  BY DEF StructInv, Wake, TypeOK, Lifetime, KeepsQueue, PCs
<1> QED
  BY <1>1, <1>2, <1>4, <1>5, <1>6, <1>7, <1>8, <1>9, <1>10 DEF StructInv

LEMMA ReleaseStruct ==
  ASSUME NEW p \in Producers, StructInv, Release(p)
  PROVE  StructInv'
<1> USE DEF queueVars, producerVars, receiverVars, wakeVars
<1>1. TypeOK'
  BY DEF StructInv, Release, TypeOK, TrackRace, InDequeue, PCs, RPCs, DequeuePCs, Cells
<1>2. ChainEnds' /\ ChainDistinct'
  BY DEF StructInv, Release, ChainEnds, ChainDistinct, Lifetime, KeepsQueue
<1>3. \A a, b : Linking(a, b)' <=> Linking(a, b)
  BY DEF StructInv, Release, TypeOK, Linking
<1>4. ChainLinked' /\ LinkPending'
  BY <1>3 DEF StructInv, Release, ChainLinked, LinkPending
<1>5. ClaimExclusive' /\ LinkExclusive'
  BY DEF StructInv, Release, TypeOK, ClaimExclusive, LinkExclusive, HeldExclusive,
         Claiming, InChain
<1>6. ProducerLocals'
  BY DEF StructInv, Release, TypeOK, ProducerLocals, PCs
<1>7. HeldExclusive'
  BY DEF StructInv, Release, TypeOK, HeldExclusive, InChain
<1>8. StubPlace'
  BY DEF StructInv, Release, TypeOK, StubPlace, DequeuePCs, InChain
<1>9. MarkerAhead'
  BY DEF StructInv, Release, TypeOK, MarkerAhead, DequeuePCs, InChain
<1>10. Lifetime'
  BY DEF StructInv, Release, TypeOK, Lifetime, KeepsQueue, PCs
<1> QED
  BY <1>1, <1>2, <1>4, <1>5, <1>6, <1>7, <1>8, <1>9, <1>10 DEF StructInv

LEMMA RegisterStruct ==
  ASSUME StructInv, Register
  PROVE  StructInv'
<1> USE DEF queueVars, producerVars, receiverVars, wakeVars
<1>1. TypeOK'
  BY DEF StructInv, Register, TypeOK, TrackRace, InDequeue, PCs, RPCs, DequeuePCs, Cells
<1>2. ChainEnds' /\ ChainDistinct'
  BY DEF StructInv, Register, ChainEnds, ChainDistinct, Lifetime, KeepsQueue
<1>3. \A a, b : Linking(a, b)' <=> Linking(a, b)
  BY DEF StructInv, Register, TypeOK, Linking
<1>4. ChainLinked' /\ LinkPending'
  BY <1>3 DEF StructInv, Register, ChainLinked, LinkPending
<1>5. ClaimExclusive' /\ LinkExclusive'
  BY DEF StructInv, Register, TypeOK, ClaimExclusive, LinkExclusive, HeldExclusive,
         Claiming, InChain
<1>6. ProducerLocals'
  BY DEF StructInv, Register, TypeOK, ProducerLocals, PCs
<1>7. HeldExclusive'
  BY DEF StructInv, Register, TypeOK, HeldExclusive, InChain
<1>8. StubPlace'
  BY DEF StructInv, Register, TypeOK, StubPlace, DequeuePCs, InChain
<1>9. MarkerAhead'
  BY DEF StructInv, Register, TypeOK, MarkerAhead, DequeuePCs, InChain
<1>10. Lifetime'
  BY DEF StructInv, Register, TypeOK, Lifetime, KeepsQueue, PCs
<1> QED
  BY <1>1, <1>2, <1>4, <1>5, <1>6, <1>7, <1>8, <1>9, <1>10 DEF StructInv

\* The marker register_waker returns is null or a node of the chain.
LEMMA MarkerOfChain ==
  ASSUME StructInv, life = "alive"
  PROVE  MarkerOf # Null => MarkerOf \in Nodes /\ InChain(MarkerOf)
<1>1. chain \in Seq(Cells) /\ Len(chain) \in Nat /\ Len(chain) >= 1
  <2>1. chain \in Seq(Cells) /\ chain # <<>>
    BY DEF StructInv, TypeOK, ChainEnds
  <2> QED
    BY <2>1, EmptySeq
<1>2. /\ tail = chain[1] /\ head = chain[Len(chain)]
      /\ \A i \in 1..Len(chain) : chain[i] \in Cells
  BY <1>1 DEF StructInv, ChainEnds
<1>3. CASE head # Stub
  BY <1>1, <1>2, <1>3 DEF MarkerOf, InChain, Cells
<1>4. CASE head = Stub /\ tail = Stub
  BY <1>4 DEF MarkerOf
<1>5. CASE head = Stub /\ tail # Stub
  <2> DEFINE k == Len(chain)
  <2>1. chain[1] # Stub /\ chain[k] = Stub
    BY <1>2, <1>5
  <2>2. k \in Nat /\ k > 1
    <3>1. \A i \in Nat : i >= 1 /\ chain[1] # chain[i] => i > 1
      OBVIOUS
    <3> QED
      BY <1>1, <2>1, <3>1
  <2>3. MarkerOf = chain[k - 1]
    <3> HIDE DEF k
    <3>1. \A i \in 1..k : i > 1 /\ chain[i] = Stub => stubPredecessor = chain[i - 1]
      BY DEF StructInv, StubPlace, k
    <3> QED
      BY <1>5, <2>1, <2>2, <3>1 DEF MarkerOf
  <2>4. chain[k - 1] # chain[k]
    <3>1. \A i, j \in 1..k : chain[i] = chain[j] => i = j
      BY DEF StructInv, ChainDistinct
    <3> HIDE DEF k
    <3> QED
      BY <2>2, <3>1
  <2> QED
    BY <1>2, <2>1, <2>2, <2>3, <2>4 DEF InChain, Cells
<1> QED
  BY <1>3, <1>4, <1>5

LEMMA SnapshotStruct ==
  ASSUME StructInv, Snapshot
  PROVE  StructInv'
<1> USE DEF queueVars, producerVars, receiverVars, wakeVars
<1>0. MarkerOf # Null => MarkerOf \in Nodes /\ InChain(MarkerOf)
  BY MarkerOfChain DEF StructInv, Snapshot, Lifetime
<1>1. TypeOK'
  BY <1>0 DEF StructInv, Snapshot, TypeOK, TrackRace, InDequeue, PCs, RPCs, DequeuePCs, Cells
<1>2. ChainEnds' /\ ChainDistinct'
  BY DEF StructInv, Snapshot, ChainEnds, ChainDistinct, Lifetime, KeepsQueue
<1>3. \A a, b : Linking(a, b)' <=> Linking(a, b)
  BY DEF StructInv, Snapshot, TypeOK, Linking
<1>4. ChainLinked' /\ LinkPending'
  BY <1>3 DEF StructInv, Snapshot, ChainLinked, LinkPending
<1>5. ClaimExclusive' /\ LinkExclusive'
  BY DEF StructInv, Snapshot, TypeOK, ClaimExclusive, LinkExclusive, HeldExclusive,
         Claiming, InChain
<1>6. ProducerLocals'
  BY DEF StructInv, Snapshot, TypeOK, ProducerLocals, PCs
<1>7. HeldExclusive'
  BY DEF StructInv, Snapshot, TypeOK, HeldExclusive, InChain
<1>8. StubPlace'
  BY DEF StructInv, Snapshot, TypeOK, StubPlace, DequeuePCs, InChain
<1>9. MarkerAhead'
  BY <1>0 DEF StructInv, Snapshot, TypeOK, MarkerAhead, DequeuePCs, InChain
<1>10. Lifetime'
  BY DEF StructInv, Snapshot, TypeOK, Lifetime, KeepsQueue, PCs
<1> QED
  BY <1>1, <1>2, <1>4, <1>5, <1>6, <1>7, <1>8, <1>9, <1>10 DEF StructInv

LEMMA StartDrainStruct ==
  ASSUME StructInv, StartDrain
  PROVE  StructInv'
<1> USE DEF queueVars, producerVars, receiverVars, wakeVars
<1>1. TypeOK'
  BY DEF StructInv, StartDrain, TypeOK, TrackRace, InDequeue, PCs, RPCs, DequeuePCs, Cells
<1>2. ChainEnds' /\ ChainDistinct'
  BY DEF StructInv, StartDrain, ChainEnds, ChainDistinct, Lifetime, KeepsQueue
<1>3. \A a, b : Linking(a, b)' <=> Linking(a, b)
  BY DEF StructInv, StartDrain, TypeOK, Linking
<1>4. ChainLinked' /\ LinkPending'
  BY <1>3 DEF StructInv, StartDrain, ChainLinked, LinkPending
<1>5. ClaimExclusive' /\ LinkExclusive'
  BY DEF StructInv, StartDrain, TypeOK, ClaimExclusive, LinkExclusive, HeldExclusive,
         Claiming, InChain
<1>6. ProducerLocals'
  BY DEF StructInv, StartDrain, TypeOK, ProducerLocals, PCs
<1>7. HeldExclusive'
  BY DEF StructInv, StartDrain, TypeOK, HeldExclusive, InChain
<1>8. StubPlace'
  BY DEF StructInv, StartDrain, TypeOK, StubPlace, DequeuePCs, InChain
<1>9. MarkerAhead'
  BY DEF StructInv, StartDrain, TypeOK, MarkerAhead, DequeuePCs, InChain
<1>10. Lifetime'
  BY DEF StructInv, StartDrain, TypeOK, Lifetime, KeepsQueue, PCs
<1> QED
  BY <1>1, <1>2, <1>4, <1>5, <1>6, <1>7, <1>8, <1>9, <1>10 DEF StructInv

LEMMA CompareHeadStruct ==
  ASSUME StructInv, CompareHead
  PROVE  StructInv'
<1> USE DEF queueVars, producerVars, receiverVars, wakeVars
<1>1. TypeOK'
  BY DEF StructInv, CompareHead, ReturnNone, TypeOK, TrackRace, InDequeue, PCs, RPCs, DequeuePCs, Cells
<1>2. ChainEnds' /\ ChainDistinct'
  BY DEF StructInv, CompareHead, ReturnNone, ChainEnds, ChainDistinct, Lifetime, KeepsQueue
<1>3. \A a, b : Linking(a, b)' <=> Linking(a, b)
  BY DEF StructInv, CompareHead, ReturnNone, TypeOK, Linking
<1>4. ChainLinked' /\ LinkPending'
  BY <1>3 DEF StructInv, CompareHead, ReturnNone, ChainLinked, LinkPending
<1>5. ClaimExclusive' /\ LinkExclusive'
  BY DEF StructInv, CompareHead, ReturnNone, TypeOK, ClaimExclusive, LinkExclusive, HeldExclusive,
         Claiming, InChain
<1>6. ProducerLocals'
  BY DEF StructInv, CompareHead, ReturnNone, TypeOK, ProducerLocals, PCs
<1>7. HeldExclusive'
  BY DEF StructInv, CompareHead, ReturnNone, TypeOK, HeldExclusive, InChain
<1>8. StubPlace'
  BY DEF StructInv, CompareHead, ReturnNone, TypeOK, StubPlace, DequeuePCs, InChain
<1>9. MarkerAhead'
  BY DEF StructInv, CompareHead, ReturnNone, TypeOK, MarkerAhead, DequeuePCs, InChain
<1>10. Lifetime'
  BY DEF StructInv, CompareHead, ReturnNone, TypeOK, Lifetime, KeepsQueue, PCs
<1> QED
  BY <1>1, <1>2, <1>4, <1>5, <1>6, <1>7, <1>8, <1>9, <1>10 DEF StructInv

LEMMA RecoverStruct ==
  ASSUME StructInv, Recover
  PROVE  StructInv'
<1> USE DEF queueVars, producerVars, receiverVars, wakeVars
<1>1. TypeOK'
  BY DEF StructInv, Recover, TypeOK, TrackRace, InDequeue, PCs, RPCs, DequeuePCs, Cells
<1>2. ChainEnds' /\ ChainDistinct'
  BY DEF StructInv, Recover, ChainEnds, ChainDistinct, Lifetime, KeepsQueue
<1>3. \A a, b : Linking(a, b)' <=> Linking(a, b)
  BY DEF StructInv, Recover, TypeOK, Linking
<1>4. ChainLinked' /\ LinkPending'
  BY <1>3 DEF StructInv, Recover, ChainLinked, LinkPending
<1>5. ClaimExclusive' /\ LinkExclusive'
  BY DEF StructInv, Recover, TypeOK, ClaimExclusive, LinkExclusive, HeldExclusive,
         Claiming, InChain
<1>6. ProducerLocals'
  BY DEF StructInv, Recover, TypeOK, ProducerLocals, PCs
<1>7. HeldExclusive'
  BY DEF StructInv, Recover, TypeOK, HeldExclusive, InChain
<1>8. StubPlace'
  BY DEF StructInv, Recover, TypeOK, StubPlace, DequeuePCs, InChain
<1>9. MarkerAhead'
  BY DEF StructInv, Recover, TypeOK, MarkerAhead, DequeuePCs, InChain
<1>10. Lifetime'
  BY DEF StructInv, Recover, TypeOK, Lifetime, KeepsQueue, PCs
<1> QED
  BY <1>1, <1>2, <1>4, <1>5, <1>6, <1>7, <1>8, <1>9, <1>10 DEF StructInv

LEMMA EndRoundStruct ==
  ASSUME NEW early \in BOOLEAN, StructInv, EndRound(early), rpc \in {"hold", "serving"}
  PROVE  StructInv'
<1> USE DEF queueVars, producerVars, receiverVars, wakeVars
<1>1. TypeOK'
  BY DEF StructInv, EndRound, TypeOK, TrackRace, InDequeue, PCs, RPCs, DequeuePCs, Cells
<1>2. ChainEnds' /\ ChainDistinct'
  BY DEF StructInv, EndRound, ChainEnds, ChainDistinct, Lifetime, KeepsQueue
<1>3. \A a, b : Linking(a, b)' <=> Linking(a, b)
  BY DEF StructInv, EndRound, TypeOK, Linking
<1>4. ChainLinked' /\ LinkPending'
  BY <1>3 DEF StructInv, EndRound, ChainLinked, LinkPending
<1>5. ClaimExclusive' /\ LinkExclusive'
  BY DEF StructInv, EndRound, TypeOK, ClaimExclusive, LinkExclusive, HeldExclusive,
         Claiming, InChain
<1>6. ProducerLocals'
  BY DEF StructInv, EndRound, TypeOK, ProducerLocals, PCs
<1>7. HeldExclusive'
  BY DEF StructInv, EndRound, TypeOK, HeldExclusive, InChain
<1>8. StubPlace'
  BY DEF StructInv, EndRound, TypeOK, StubPlace, DequeuePCs, InChain
<1>9. MarkerAhead'
  BY DEF StructInv, EndRound, TypeOK, MarkerAhead, DequeuePCs, InChain
<1>10. Lifetime'
  BY DEF StructInv, EndRound, TypeOK, Lifetime, KeepsQueue, PCs
<1> QED
  BY <1>1, <1>2, <1>4, <1>5, <1>6, <1>7, <1>8, <1>9, <1>10 DEF StructInv

LEMMA DropReceiverStruct ==
  ASSUME StructInv, DropReceiver
  PROVE  StructInv'
<1> USE DEF queueVars, producerVars, receiverVars, wakeVars
<1>1. TypeOK'
  BY DEF StructInv, DropReceiver, TypeOK, TrackRace, InDequeue, PCs, RPCs, DequeuePCs, Cells
<1>2. ChainEnds' /\ ChainDistinct'
  BY DEF StructInv, DropReceiver, ChainEnds, ChainDistinct, Lifetime, KeepsQueue
<1>3. \A a, b : Linking(a, b)' <=> Linking(a, b)
  BY DEF StructInv, DropReceiver, TypeOK, Linking
<1>4. ChainLinked' /\ LinkPending'
  BY <1>3 DEF StructInv, DropReceiver, ChainLinked, LinkPending
<1>5. ClaimExclusive' /\ LinkExclusive'
  BY DEF StructInv, DropReceiver, TypeOK, ClaimExclusive, LinkExclusive, HeldExclusive,
         Claiming, InChain
<1>6. ProducerLocals'
  BY DEF StructInv, DropReceiver, TypeOK, ProducerLocals, PCs
<1>7. HeldExclusive'
  BY DEF StructInv, DropReceiver, TypeOK, HeldExclusive, InChain
<1>8. StubPlace'
  BY DEF StructInv, DropReceiver, TypeOK, StubPlace, DequeuePCs, InChain
<1>9. MarkerAhead'
  BY DEF StructInv, DropReceiver, TypeOK, MarkerAhead, DequeuePCs, InChain
<1>10. Lifetime'
  BY DEF StructInv, DropReceiver, TypeOK, Lifetime, KeepsQueue, PCs
<1> QED
  BY <1>1, <1>2, <1>4, <1>5, <1>6, <1>7, <1>8, <1>9, <1>10 DEF StructInv

LEMMA FreeQueueStruct ==
  ASSUME StructInv, FreeQueue
  PROVE  StructInv'
<1> USE DEF queueVars, producerVars, receiverVars, wakeVars
<1>1. TypeOK'
  BY DEF StructInv, FreeQueue, TypeOK, TrackRace, InDequeue, PCs, RPCs, DequeuePCs, Cells
<1>2. ChainEnds' /\ ChainDistinct'
  BY DEF StructInv, FreeQueue, ChainEnds, ChainDistinct, Lifetime, KeepsQueue
<1>3. \A a, b : Linking(a, b)' <=> Linking(a, b)
  BY DEF StructInv, FreeQueue, TypeOK, Linking
<1>4. ChainLinked' /\ LinkPending'
  BY <1>3 DEF StructInv, FreeQueue, ChainLinked, LinkPending
<1>5. ClaimExclusive' /\ LinkExclusive'
  BY DEF StructInv, FreeQueue, TypeOK, ClaimExclusive, LinkExclusive, HeldExclusive,
         Claiming, InChain
<1>6. ProducerLocals'
  BY DEF StructInv, FreeQueue, TypeOK, ProducerLocals, PCs
<1>7. HeldExclusive'
  BY DEF StructInv, FreeQueue, TypeOK, HeldExclusive, InChain
<1>8. StubPlace'
  BY DEF StructInv, FreeQueue, TypeOK, StubPlace, DequeuePCs, InChain
<1>9. MarkerAhead'
  BY DEF StructInv, FreeQueue, TypeOK, MarkerAhead, DequeuePCs, InChain
<1>10. Lifetime'
  <2>1. chain = <<>>
    BY EmptySeq DEF StructInv, FreeQueue, TypeOK, ChainEnds, Cells
  <2> QED
    BY <2>1 DEF StructInv, FreeQueue, TypeOK, Lifetime, KeepsQueue, PCs
<1> QED
  BY <1>1, <1>2, <1>4, <1>5, <1>6, <1>7, <1>8, <1>9, <1>10 DEF StructInv

\* The chain as the steps below use it: cells, indexed from 1.
LEMMA ChainCells ==
  ASSUME StructInv
  PROVE  /\ chain \in Seq(Cells)
         /\ Len(chain) \in Nat
         /\ \A i \in 1..Len(chain) : chain[i] \in Cells
         /\ chain # <<>> => Len(chain) >= 1
<1>1. chain \in Seq(Cells)
  BY DEF StructInv, TypeOK
<1> QED
  BY <1>1, EmptySeq

\* A node being linked is in the chain, and so is the cell before it.
LEMMA LinkedInChain ==
  ASSUME StructInv, NEW q \in Producers, pc[q] = "link"
  PROVE  InChain(node[q]) /\ InChain(prev[q])
<1>1. node[q] \in Cells /\ prev[q] \in Cells
  BY DEF StructInv, TypeOK, ProducerLocals, Cells
<1>2. Linking(prev[q], node[q])
  BY DEF Linking
<1>3. PICK i \in 1..Len(chain) :
        i < Len(chain) /\ chain[i] = prev[q] /\ chain[i + 1] = node[q]
  BY <1>1, <1>2 DEF StructInv, LinkPending
<1>4. i + 1 \in 1..Len(chain)
  BY <1>3, ChainCells
<1> QED
  BY <1>3, <1>4 DEF InChain

LEMMA ClearNextStruct ==
  ASSUME NEW p \in Producers, StructInv, ClearNext(p)
  PROVE  StructInv'
<1> USE DEF queueVars, producerVars, receiverVars, wakeVars
<1>0. /\ node[p] \in Nodes /\ ~InChain(node[p])
      /\ \A c \in Cells : InChain(c) => next'[c] = next[c]
      /\ next'[node[p]] = Null /\ next'[Stub] = next[Stub]
      /\ \A q \in Producers : pc'[q] = IF q = p THEN "swap" ELSE pc[q]
  BY DEF StructInv, ClearNext, TypeOK, ClaimExclusive, Claiming, Cells
<1>1. TypeOK'
  BY <1>0 DEF StructInv, ClearNext, TypeOK, TrackRace, InDequeue, PCs, Cells
<1>2. ChainEnds' /\ ChainDistinct'
  BY DEF StructInv, ClearNext, ChainEnds, ChainDistinct
<1>3. \A a, b : Linking(a, b)' <=> Linking(a, b)
  BY DEF StructInv, ClearNext, TypeOK, Linking
<1>4. ChainLinked' /\ LinkPending'
  <2>1. \A i \in 1..Len(chain) : InChain(chain[i]) /\ next'[chain[i]] = next[chain[i]]
    BY <1>0, ChainCells DEF InChain
  <2>2. ChainLinked'
    BY <1>3, <2>1 DEF StructInv, ClearNext, ChainLinked
  <2>3. LinkPending'
    BY <1>3, <2>1 DEF StructInv, ClearNext, LinkPending
  <2> QED
    BY <2>2, <2>3
<1>5. ClaimExclusive' /\ LinkExclusive'
  BY <1>0 DEF StructInv, ClearNext, TypeOK, ClaimExclusive, LinkExclusive,
              Claiming, InChain, Cells
<1>6. ProducerLocals'
  BY <1>0 DEF StructInv, ClearNext, TypeOK, ProducerLocals, PCs
<1>7. HeldExclusive'
  BY DEF StructInv, ClearNext, TypeOK, HeldExclusive, InChain
<1>8. StubPlace'
  BY <1>0 DEF StructInv, ClearNext, TypeOK, StubPlace, DequeuePCs, InChain
<1>9. MarkerAhead'
  BY DEF StructInv, ClearNext, TypeOK, MarkerAhead, DequeuePCs, InChain
<1>10. Lifetime'
  BY <1>0 DEF StructInv, ClearNext, TypeOK, Lifetime, KeepsQueue, PCs
<1> QED
  BY <1>1, <1>2, <1>4, <1>5, <1>6, <1>7, <1>8, <1>9, <1>10 DEF StructInv

LEMMA SwapHeadStruct ==
  ASSUME NEW p \in Producers, StructInv, SwapHead(p)
  PROVE  StructInv'
<1> USE DEF queueVars, producerVars, receiverVars, wakeVars
<1> DEFINE n == node[p]
           len == Len(chain)
<1>0. /\ n \in Nodes /\ ~InChain(n) /\ isEnqueued[n] /\ next[n] = Null
      /\ rpc = "hold" => held # n
      /\ life = "alive" /\ chain # <<>>
      /\ head' = n /\ tail' = tail /\ next' = next
      /\ \A q \in Producers : pc'[q] = IF q = p THEN "link" ELSE pc[q]
      /\ \A q \in Producers : prev'[q] = IF q = p THEN head ELSE prev[q]
  BY DEF StructInv, SwapHead, TypeOK, ClaimExclusive, Claiming, KeepsQueue,
         Lifetime, ChainEnds
<1>1. /\ len \in Nat /\ len >= 1
      /\ chain' \in Seq(Cells) /\ chain' # <<>> /\ Len(chain') = len + 1
      /\ \A i \in 1..len : chain'[i] = chain[i] /\ chain[i] \in Cells
      /\ chain'[len + 1] = n
      /\ tail = chain[1] /\ head = chain[len]
  BY <1>0, ChainCells, AppendCell DEF StructInv, SwapHead, ChainEnds, Cells
<1>2. TypeOK'
  BY <1>0, <1>1 DEF StructInv, SwapHead, TypeOK, TrackRace, InDequeue, PCs, Cells
<1> HIDE DEF len
<1>3. ChainEnds' /\ ChainDistinct'
  BY <1>0, <1>1 DEF StructInv, ChainEnds, ChainDistinct, InChain, len
<1>4. \A a, b : Linking(a, b)' <=> Linking(a, b) \/ (a = head /\ b = n)
  BY <1>0 DEF StructInv, SwapHead, TypeOK, Linking
<1>5. ChainLinked'
  BY <1>0, <1>1, <1>4 DEF StructInv, ChainLinked, len
<1>6. LinkPending'
  <2>1. next[head] = Null
    BY <1>1 DEF StructInv, ChainLinked, len
  <2>2. ASSUME NEW a \in Cells, NEW b \in Cells, Linking(a, b)
        PROVE  \E i \in 1..len : /\ i < len /\ chain[i] = a /\ chain[i + 1] = b
                                 /\ next[a] = Null
    BY <2>2 DEF StructInv, LinkPending, len
  <2>3. ASSUME NEW a \in Cells, NEW b \in Cells, Linking(a, b)'
        PROVE  \E i \in 1..len + 1 : /\ i < len + 1 /\ chain'[i] = a
                                     /\ chain'[i + 1] = b /\ next[a] = Null
    <3>1. CASE Linking(a, b)
      BY <1>1, <2>2, <3>1
    <3>2. CASE a = head /\ b = n
      BY <1>1, <2>1, <3>2
    <3> QED
      BY <1>4, <2>3, <3>1, <3>2
  <2> QED
    BY <1>0, <1>1, <2>3 DEF LinkPending
<1>7. \A c : InChain(c)' <=> InChain(c) \/ c = n
  BY <1>1 DEF InChain, len
<1>8. ClaimExclusive' /\ LinkExclusive'
  <2>1. \A q \in Producers : pc[q] = "link" => InChain(node[q])
    BY LinkedInChain
  <2> QED
    BY <1>0, <1>7, <2>1 DEF StructInv, SwapHead, TypeOK, ClaimExclusive,
                            LinkExclusive, Claiming
<1>9. ProducerLocals' /\ Lifetime'
  BY <1>0, <1>1 DEF StructInv, SwapHead, TypeOK, ProducerLocals, Lifetime,
                    KeepsQueue, PCs, Cells
<1>10. HeldExclusive' /\ MarkerAhead'
  BY <1>0, <1>7 DEF StructInv, SwapHead, TypeOK, HeldExclusive, MarkerAhead
<1>11. StubPlace'
  <2>1. tail # n
    BY <1>0, <1>1 DEF InChain, len
  <2>2. n # Stub
    BY <1>0
  <2>3. /\ rpc \in DequeuePCs => tail # Stub
        /\ rpc \in {"clear", "swap"} => ~InChain(Stub)
        /\ rpc = "swap" => next[Stub] = Null
        /\ rpc = "link" => stubPredecessor # Null
        /\ rpc = "reload" => InChain(Stub)
        /\ \A i \in 1..len :
             i > 1 /\ chain[i] = Stub => stubPredecessor = chain[i - 1]
    BY DEF StructInv, StubPlace, len
  <2>4. \A i \in 1..len + 1 :
          i > 1 /\ chain'[i] = Stub => stubPredecessor = chain'[i - 1]
    BY <1>1, <2>2, <2>3
  <2> QED
    BY <1>0, <1>1, <1>7, <2>1, <2>2, <2>3, <2>4 DEF SwapHead, StubPlace
<1> QED
  BY <1>2, <1>3, <1>5, <1>6, <1>8, <1>9, <1>10, <1>11 DEF StructInv

LEMMA LinkPrevStruct ==
  ASSUME NEW p \in Producers, StructInv, LinkPrev(p)
  PROVE  StructInv'
<1> USE DEF queueVars, producerVars, receiverVars, wakeVars
<1> DEFINE a0 == prev[p]
           b0 == node[p]
<1>0. /\ a0 \in Cells /\ b0 \in Nodes /\ life = "alive"
      /\ \A c \in Cells : next'[c] = IF c = a0 THEN b0 ELSE next[c]
      /\ \A q \in Producers : pc'[q] = IF q = p THEN "wake" ELSE pc[q]
      /\ \A q \in Producers : q # p => prev'[q] = prev[q]
  BY DEF StructInv, LinkPrev, TypeOK, ProducerLocals, Lifetime, KeepsQueue, Cells
<1>1. PICK k \in 1..Len(chain) :
        k < Len(chain) /\ chain[k] = a0 /\ chain[k + 1] = b0
  BY <1>0 DEF StructInv, LinkPrev, LinkPending, Linking, Cells
<1>2. TypeOK'
  BY <1>0 DEF StructInv, LinkPrev, TypeOK, TrackRace, InDequeue, PCs, Cells
<1>3. ChainEnds' /\ ChainDistinct'
  BY DEF StructInv, LinkPrev, ChainEnds, ChainDistinct
<1>4. \A a, b : Linking(a, b)' <=> Linking(a, b) /\ b # b0
  <2>1. \A q \in Producers : pc[q] = "link" /\ node[q] = b0 => q = p
    BY DEF StructInv, LinkPrev, LinkExclusive
  <2> QED
    BY <1>0, <2>1 DEF StructInv, LinkPrev, TypeOK, Linking
<1>5. ChainLinked'
  <2>1. \A i \in 1..Len(chain) : chain[i] = a0 => i = k
    BY <1>1 DEF StructInv, ChainDistinct
  <2>2. \A i \in 1..Len(chain) : i < Len(chain) /\ chain[i + 1] = b0 => i = k
    <3>1. \A i \in 1..Len(chain) : i < Len(chain) => i + 1 \in 1..Len(chain)
      BY ChainCells
    <3> QED
      BY <1>1, <3>1, ChainCells DEF StructInv, ChainDistinct
  <2>3. \A i \in 1..Len(chain) : next'[chain[i]] = IF i = k THEN b0 ELSE next[chain[i]]
    BY <1>0, <1>1, <2>1, ChainCells
  <2> QED
    BY <1>1, <1>4, <2>2, <2>3 DEF StructInv, LinkPrev, ChainLinked
<1>6. LinkPending'
  <2>1. ASSUME NEW a \in Cells, NEW b \in Cells, Linking(a, b), b # b0
        PROVE  a # a0
    <3>1. PICK i \in 1..Len(chain) :
            i < Len(chain) /\ chain[i] = a /\ chain[i + 1] = b
      BY <2>1 DEF StructInv, LinkPending
    <3> QED
      BY <1>1, <2>1, <3>1 DEF StructInv, ChainDistinct
  <2> QED
    BY <1>0, <1>4, <2>1 DEF StructInv, LinkPrev, LinkPending
<1>7. ClaimExclusive' /\ LinkExclusive'
  <2>1. \A q \in Producers : pc[q] = "swap" => node[q] # a0
    BY LinkedInChain DEF StructInv, LinkPrev, ClaimExclusive, Claiming
  <2> QED
    BY <1>0, <2>1 DEF StructInv, LinkPrev, TypeOK, ClaimExclusive,
                      LinkExclusive, Claiming, InChain, Cells
<1>8. ProducerLocals' /\ Lifetime'
  BY <1>0 DEF StructInv, LinkPrev, TypeOK, ProducerLocals, Lifetime, KeepsQueue, PCs
<1>9. HeldExclusive' /\ MarkerAhead'
  BY DEF StructInv, LinkPrev, HeldExclusive, MarkerAhead, InChain
<1>10. StubPlace'
  <2>1. rpc = "swap" => a0 # Stub
    BY LinkedInChain DEF StructInv, LinkPrev, StubPlace
  <2> QED
    BY <1>0, <2>1 DEF StructInv, LinkPrev, StubPlace, InChain, Cells
<1> QED
  BY <1>2, <1>3, <1>5, <1>6, <1>7, <1>8, <1>9, <1>10 DEF StructInv

\* Moving tail to its successor takes the oldest cell off the chain.
LEMMA AdvanceTail ==
  ASSUME StructInv, chain # <<>>, next[tail] # Null,
         chain' = Tail(chain), tail' = next[tail], UNCHANGED <<head, next, life>>,
         \A a, b : Linking(a, b)' <=> Linking(a, b)
  PROVE  /\ tail \in Cells /\ tail' \in Cells /\ tail' # tail
         /\ chain' \in Seq(Cells)
         /\ \A c : InChain(c)' <=> InChain(c) /\ c # tail
         /\ InChain(tail)
         /\ ChainEnds' /\ ChainDistinct' /\ ChainLinked' /\ LinkPending'
         /\ Len(chain') = Len(chain) - 1
         /\ \A i \in 1..Len(chain') : chain'[i] = chain[i + 1]
<1> DEFINE len == Len(chain)
<1>1. /\ len \in Nat /\ len >= 1 /\ chain' \in Seq(Cells)
      /\ Len(chain') = len - 1
      /\ \A i \in 1..len - 1 : chain'[i] = chain[i + 1]
      /\ \A i \in 1..len : chain[i] \in Cells
      /\ tail = chain[1] /\ head = chain[len]
  BY ChainCells, TailCell DEF StructInv, ChainEnds
<1>2. len > 1 /\ tail' = chain[2]
  BY <1>1 DEF StructInv, ChainLinked
<1> HIDE DEF len
<1>3. /\ \A i, j \in 1..len : chain[i] = chain[j] => i = j
  BY DEF StructInv, ChainDistinct, len
<1>4. chain' # <<>>
  <2>1. \A i \in Nat : i > 1 => i - 1 # 0
    OBVIOUS
  <2> QED
    BY <1>1, <1>2, <2>1, EmptySeq
<1>5. ChainEnds'
  <2>1. chain'[1] = chain[2] /\ chain'[len - 1] = chain[len]
    BY <1>1, <1>2
  <2> QED
    BY <1>1, <1>2, <1>4, <2>1 DEF ChainEnds
<1>6. ChainDistinct'
  BY <1>1, <1>3 DEF ChainDistinct
<1>7. ChainLinked'
  <2>1. \A i \in 1..len :
          \/ i < len /\ next[chain[i]] = chain[i + 1]
          \/ /\ next[chain[i]] = Null
             /\ i < len => Linking(chain[i], chain[i + 1])
    BY DEF StructInv, ChainLinked, len
  <2>2. ASSUME NEW i \in 1..len - 1
        PROVE  \/ i < len - 1 /\ next[chain'[i]] = chain'[i + 1]
               \/ /\ next[chain'[i]] = Null
                  /\ i < len - 1 => Linking(chain'[i], chain'[i + 1])
    <3>1. i + 1 \in 1..len /\ (i < len - 1 <=> i + 1 < len)
      BY <1>1
    <3>2. chain'[i] = chain[i + 1] /\ (i < len - 1 => chain'[i + 1] = chain[(i + 1) + 1])
      BY <1>1
    <3> QED
      BY <2>1, <3>1, <3>2
  <2> QED
    BY <1>1, <2>2 DEF ChainLinked
<1>8. LinkPending'
  <2>1. ASSUME NEW a \in Cells, NEW b \in Cells, Linking(a, b)
        PROVE  \E i \in 1..len - 1 : /\ i < len - 1 /\ chain'[i] = a
                                     /\ chain'[i + 1] = b /\ next[a] = Null
    <3>1. PICK i \in 1..len : /\ i < len /\ chain[i] = a /\ chain[i + 1] = b
                              /\ next[a] = Null
      BY <2>1 DEF StructInv, LinkPending, len
    <3>2. i # 1
      BY <1>1, <3>1
    <3>3. PICK j \in 1..len - 1 : j < len - 1 /\ j + 1 = i
      BY <1>1, <3>1, <3>2
    <3>4. chain'[j] = a /\ chain'[j + 1] = b
      BY <1>1, <3>1, <3>3
    <3> QED
      BY <3>1, <3>3, <3>4
  <2>2. Len(chain') = len - 1 /\ next' = next
    BY <1>1
  <2>3. ASSUME NEW a \in Cells, NEW b \in Cells, Linking(a, b)'
        PROVE  \E i \in 1..Len(chain') : /\ i < Len(chain') /\ chain'[i] = a
                                         /\ chain'[i + 1] = b /\ next'[a] = Null
    BY <2>1, <2>2, <2>3
  <2> QED
    BY <2>3 DEF LinkPending
<1>9. \A c : InChain(c)' <=> InChain(c) /\ c # tail
  <2>1. ASSUME NEW c, NEW i \in 1..len, chain[i] = c, c # tail
        PROVE  i - 1 \in 1..len - 1 /\ chain'[i - 1] = c
    BY <1>1, <2>1
  <2>2. ASSUME NEW c, NEW i \in 1..len - 1, chain'[i] = c
        PROVE  i + 1 \in 1..len /\ chain[i + 1] = c /\ c # tail
    BY <1>1, <1>3, <2>2
  <2>3. ASSUME NEW c, InChain(c)' PROVE InChain(c) /\ c # tail
    <3>1. PICK i \in 1..len - 1 : chain'[i] = c
      BY <1>1, <2>3 DEF InChain
    <3> QED
      BY <2>2, <3>1 DEF InChain, len
  <2>4. ASSUME NEW c, InChain(c), c # tail PROVE InChain(c)'
    <3>1. PICK i \in 1..len : chain[i] = c
      BY <2>4 DEF InChain, len
    <3>2. i - 1 \in 1..len - 1 /\ chain'[i - 1] = c
      BY <2>1, <2>4, <3>1
    <3>3. Len(chain') = len - 1
      BY <1>1
    <3> QED
      BY <3>2, <3>3 DEF InChain
  <2> QED
    BY <2>3, <2>4
<1>10. InChain(tail)
  BY <1>1 DEF InChain, len
<1> QED
  BY <1>1, <1>2, <1>3, <1>5, <1>6, <1>7, <1>8, <1>9, <1>10 DEF len

\* A dequeue that returns None changes nothing but the receiver's locals.
LEMMA ReturnNoneStruct ==
  ASSUME StructInv, InDequeue, ReturnNone, TrackRace,
         UNCHANGED <<isEnqueued, producerVars, wakeVars, life>>, rpc # "link"
  PROVE  StructInv'
<1> USE DEF queueVars, producerVars, wakeVars
<1>1. TypeOK'
  BY DEF StructInv, ReturnNone, TypeOK, TrackRace, InDequeue, RPCs, DequeuePCs
<1>2. ChainEnds' /\ ChainDistinct'
  BY DEF StructInv, ReturnNone, ChainEnds, ChainDistinct
<1>3. \A a, b : Linking(a, b)' <=> Linking(a, b)
  BY DEF ReturnNone, Linking
<1>4. ChainLinked' /\ LinkPending'
  BY <1>3 DEF StructInv, ReturnNone, ChainLinked, LinkPending
<1>5. ClaimExclusive' /\ LinkExclusive' /\ ProducerLocals'
  BY DEF StructInv, ReturnNone, ClaimExclusive, LinkExclusive, ProducerLocals,
         Claiming, InChain
<1>6. HeldExclusive' /\ StubPlace' /\ MarkerAhead'
  BY DEF StructInv, ReturnNone, HeldExclusive, StubPlace, MarkerAhead, InChain,
         InDequeue, DequeuePCs
<1>7. Lifetime'
  BY DEF StructInv, ReturnNone, Lifetime, KeepsQueue, InDequeue, DequeuePCs
<1> QED
  BY <1>1, <1>2, <1>4, <1>5, <1>6, <1>7 DEF StructInv

\* A dequeue that returns the tail leaves the invariant.
LEMMA ReturnTailStruct ==
  ASSUME StructInv, InDequeue, rpc # "link", tail # Stub, next[tail] # Null,
         ReturnTail, TrackRace,
         UNCHANGED <<isEnqueued, producerVars, wakeVars, life>>
  PROVE  StructInv'
<1> USE DEF queueVars, producerVars, wakeVars
<1>1. life = "alive" /\ chain # <<>>
  BY DEF StructInv, Lifetime, ChainEnds, InDequeue, DequeuePCs
<1>2. \A a, b : Linking(a, b)' <=> Linking(a, b)
  BY DEF ReturnTail, Linking
<1>3. /\ tail \in Cells /\ tail' \in Cells /\ tail' # tail
      /\ chain' \in Seq(Cells)
      /\ \A c : InChain(c)' <=> InChain(c) /\ c # tail
      /\ InChain(tail)
      /\ ChainEnds' /\ ChainDistinct' /\ ChainLinked' /\ LinkPending'
      /\ Len(chain') = Len(chain) - 1
      /\ \A i \in 1..Len(chain') : chain'[i] = chain[i + 1]
  BY <1>1, <1>2, AdvanceTail DEF ReturnTail
<1>4. tail \in Nodes /\ isEnqueued[tail] /\ held' = tail /\ rpc' = "hold"
  BY <1>3 DEF StructInv, HeldExclusive, ReturnTail, Cells
<1>5. TypeOK'
  BY <1>3, <1>4 DEF StructInv, ReturnTail, TypeOK, TrackRace, InDequeue, RPCs,
                    DequeuePCs
<1>6. ClaimExclusive' /\ LinkExclusive' /\ ProducerLocals'
  BY <1>3, <1>4 DEF StructInv, ReturnTail, ClaimExclusive, LinkExclusive,
                    ProducerLocals, Claiming
<1>7. HeldExclusive' /\ MarkerAhead'
  BY <1>3, <1>4 DEF StructInv, ReturnTail, HeldExclusive, MarkerAhead, InDequeue,
                    DequeuePCs
<1>8. StubPlace'
  <2>1. \A i \in 1..Len(chain') : i > 1 /\ chain'[i] = Stub =>
                                     stubPredecessor = chain'[i - 1]
    <3>1. \A i \in 1..Len(chain) : i > 1 /\ chain[i] = Stub =>
                                      stubPredecessor = chain[i - 1]
      BY DEF StructInv, StubPlace
    <3>2. ASSUME NEW i \in 1..Len(chain'), i > 1, chain'[i] = Stub
          PROVE  stubPredecessor = chain'[i - 1]
      <4>1. i + 1 \in 1..Len(chain) /\ i + 1 > 1 /\ chain[i + 1] = Stub
        BY <1>3, <3>2, ChainCells
      <4>2. i - 1 \in 1..Len(chain') /\ (i - 1) + 1 = i /\ (i + 1) - 1 = i
        BY <1>3, <3>2, ChainCells
      <4> QED
        BY <1>3, <3>1, <4>1, <4>2
    <3> QED
      BY <3>2
  <2> QED
    BY <1>4, <2>1 DEF ReturnTail, StubPlace, DequeuePCs
<1>9. Lifetime'
  BY <1>1, <1>4 DEF StructInv, ReturnTail, Lifetime, KeepsQueue
<1> QED
  BY <1>3, <1>5, <1>6, <1>7, <1>8, <1>9 DEF StructInv

LEMMA LoadNextStruct ==
  ASSUME StructInv, LoadNext
  PROVE  StructInv'
<1> USE DEF queueVars, producerVars, receiverVars, wakeVars
<1>0. InDequeue /\ rpc # "link" /\ TrackRace
  BY DEF LoadNext, InDequeue, DequeuePCs
<1>1. CASE next[tail] # Null
  BY <1>0, <1>1, ReturnTailStruct DEF LoadNext
<1>2. CASE next[tail] = Null
  <2>0. /\ rpc' = "compare" /\ UNCHANGED <<queueVars, held, marker, stubPredecessor>>
        /\ UNCHANGED <<isEnqueued, producerVars, wakeVars, life>>
        /\ rpc \in {"drain", "load"} /\ tail # Stub
    BY <1>2 DEF LoadNext
  <2>1. TypeOK'
    BY <1>0, <2>0 DEF StructInv, TypeOK, TrackRace, InDequeue, RPCs, DequeuePCs
  <2>2. ChainEnds' /\ ChainDistinct'
    BY <2>0 DEF StructInv, ChainEnds, ChainDistinct
  <2>3. \A a, b : Linking(a, b)' <=> Linking(a, b)
    BY <2>0 DEF Linking
  <2>4. ChainLinked' /\ LinkPending'
    BY <2>0, <2>3 DEF StructInv, ChainLinked, LinkPending
  <2>5. ClaimExclusive' /\ LinkExclusive' /\ ProducerLocals'
    BY <2>0 DEF StructInv, ClaimExclusive, LinkExclusive, ProducerLocals,
                Claiming, InChain
  <2>6. HeldExclusive' /\ MarkerAhead' /\ Lifetime'
    BY <2>0 DEF StructInv, HeldExclusive, MarkerAhead, InChain, DequeuePCs,
                Lifetime, KeepsQueue
  <2>7. StubPlace'
    <3>1. tail = head => ~InChain(Stub)
      <4>1. chain # <<>> /\ tail = chain[1] /\ head = chain[Len(chain)]
        BY <2>0 DEF StructInv, Lifetime, ChainEnds
      <4>2. \A i \in 1..Len(chain) : chain[1] = chain[Len(chain)] => i = 1
        BY <4>1, ChainCells DEF StructInv, ChainDistinct
      <4> QED
        BY <2>0, <4>1, <4>2 DEF InChain
    <3> QED
      BY <2>0, <3>1 DEF StructInv, StubPlace, InChain, DequeuePCs
  <2> QED
    BY <2>1, <2>2, <2>4, <2>5, <2>6, <2>7 DEF StructInv
<1> QED
  BY <1>1, <1>2

LEMMA ReloadNextStruct ==
  ASSUME StructInv, ReloadNext
  PROVE  StructInv'
<1>1. InDequeue /\ rpc # "link" /\ TrackRace /\ tail # Stub
  BY DEF StructInv, StubPlace, ReloadNext, InDequeue, DequeuePCs
<1>2. CASE next[tail] = Null
  BY <1>1, <1>2, ReturnNoneStruct DEF ReloadNext
<1>3. CASE next[tail] # Null
  BY <1>1, <1>3, ReturnTailStruct DEF ReloadNext
<1> QED
  BY <1>2, <1>3

LEMMA SkipStubStruct ==
  ASSUME StructInv, SkipStub
  PROVE  StructInv'
<1> USE DEF queueVars, producerVars, receiverVars, wakeVars
<1>0. InDequeue /\ rpc = "drain" /\ TrackRace /\ tail = Stub
  BY DEF SkipStub, InDequeue, DequeuePCs
<1>1. CASE next[tail] = Null
  BY <1>0, <1>1, ReturnNoneStruct DEF SkipStub
<1>2. CASE next[tail] # Null
  <2>0. /\ tail' = next[tail] /\ chain' = Tail(chain) /\ rpc' = "load"
        /\ UNCHANGED <<head, next, held, marker, stubPredecessor>>
        /\ UNCHANGED <<isEnqueued, producerVars, wakeVars, life>>
    BY <1>2 DEF SkipStub
  <2>1. life = "alive" /\ chain # <<>>
    BY <1>0 DEF StructInv, Lifetime, ChainEnds
  <2>2. \A a, b : Linking(a, b)' <=> Linking(a, b)
    BY <1>0, <2>0 DEF Linking
  <2>3. /\ tail' \in Cells /\ tail' # Stub
        /\ chain' \in Seq(Cells)
        /\ \A c : InChain(c)' <=> InChain(c) /\ c # Stub
        /\ ChainEnds' /\ ChainDistinct' /\ ChainLinked' /\ LinkPending'
    BY <1>0, <1>2, <2>0, <2>1, <2>2, AdvanceTail
  <2>4. TypeOK'
    BY <1>0, <2>0, <2>3 DEF StructInv, TypeOK, TrackRace, InDequeue, RPCs, DequeuePCs
  <2>5. ClaimExclusive' /\ LinkExclusive' /\ ProducerLocals'
    BY <2>0, <2>3 DEF StructInv, ClaimExclusive, LinkExclusive, ProducerLocals,
                      Claiming
  <2>6. HeldExclusive' /\ MarkerAhead' /\ Lifetime'
    BY <1>0, <2>0, <2>1, <2>3 DEF StructInv, HeldExclusive, MarkerAhead,
                                  DequeuePCs, Lifetime, KeepsQueue
  <2>7. StubPlace'
    <3>1. \A i \in 1..Len(chain') : chain'[i] # Stub
      BY <2>3 DEF InChain
    <3> QED
      BY <2>0, <2>3, <3>1 DEF StubPlace, DequeuePCs
  <2> QED
    BY <2>3, <2>4, <2>5, <2>6, <2>7 DEF StructInv
<1> QED
  BY <1>1, <1>2

LEMMA ClearStubStruct ==
  ASSUME StructInv, ClearStub
  PROVE  StructInv'
<1> USE DEF queueVars, producerVars, receiverVars, wakeVars
<1>0. /\ ~InChain(Stub) /\ rpc = "clear" /\ rpc' = "swap"
      /\ \A c \in Cells : next'[c] = IF c = Stub THEN Null ELSE next[c]
      /\ tail # Stub
  BY DEF StructInv, ClearStub, TypeOK, StubPlace, DequeuePCs
<1>1. TypeOK'
  BY <1>0 DEF StructInv, ClearStub, TypeOK, TrackRace, InDequeue, RPCs, DequeuePCs,
              Cells
<1>2. ChainEnds' /\ ChainDistinct'
  BY DEF StructInv, ClearStub, ChainEnds, ChainDistinct
<1>3. \A a, b : Linking(a, b)' <=> Linking(a, b)
  BY <1>0 DEF ClearStub, Linking
<1>4. ChainLinked' /\ LinkPending'
  <2>1. \A i \in 1..Len(chain) : next'[chain[i]] = next[chain[i]]
    BY <1>0, ChainCells DEF InChain
  <2>2. ChainLinked'
    BY <1>3, <2>1 DEF StructInv, ClearStub, ChainLinked
  <2>3. LinkPending'
    BY <1>3, <2>1 DEF StructInv, ClearStub, LinkPending
  <2> QED
    BY <2>2, <2>3
<1>5. ClaimExclusive' /\ LinkExclusive' /\ ProducerLocals'
  BY <1>0 DEF StructInv, ClearStub, ClaimExclusive, LinkExclusive, ProducerLocals,
              Claiming, InChain, Cells
<1>6. HeldExclusive' /\ MarkerAhead' /\ Lifetime'
  BY <1>0 DEF StructInv, ClearStub, HeldExclusive, MarkerAhead, InChain,
              DequeuePCs, Lifetime, KeepsQueue
<1>7. StubPlace'
  BY <1>0 DEF StructInv, ClearStub, StubPlace, InChain, DequeuePCs, Cells
<1> QED
  BY <1>1, <1>2, <1>4, <1>5, <1>6, <1>7 DEF StructInv

LEMMA SwapStubStruct ==
  ASSUME StructInv, SwapStub
  PROVE  StructInv'
<1> USE DEF queueVars, producerVars, receiverVars, wakeVars
<1> DEFINE len == Len(chain)
<1>0. /\ ~InChain(Stub) /\ next[Stub] = Null /\ tail # Stub
      /\ life = "alive" /\ chain # <<>>
      /\ rpc = "swap" /\ rpc' = "link" /\ stubPredecessor' = head /\ head' = Stub
      /\ tail' = tail /\ next' = next
  BY DEF StructInv, SwapStub, StubPlace, DequeuePCs, Lifetime, ChainEnds
<1>1. /\ len \in Nat /\ len >= 1
      /\ chain' \in Seq(Cells) /\ chain' # <<>> /\ Len(chain') = len + 1
      /\ \A i \in 1..len : chain'[i] = chain[i] /\ chain[i] \in Cells
      /\ chain'[len + 1] = Stub
      /\ tail = chain[1] /\ head = chain[len] /\ head \in Cells
  BY <1>0, ChainCells, AppendCell DEF StructInv, SwapStub, ChainEnds, Cells
<1>2. TypeOK'
  BY <1>0, <1>1 DEF StructInv, SwapStub, TypeOK, TrackRace, InDequeue, RPCs,
                    DequeuePCs, Cells
<1> HIDE DEF len
<1>3. ChainEnds' /\ ChainDistinct'
  BY <1>0, <1>1 DEF StructInv, ChainEnds, ChainDistinct, InChain, len
<1>4. \A a, b : Linking(a, b)' <=> Linking(a, b) \/ (a = head /\ b = Stub)
  BY <1>0 DEF SwapStub, Linking
<1>5. ChainLinked'
  <2>1. \A i \in 1..len :
          \/ i < len /\ next[chain[i]] = chain[i + 1]
          \/ /\ next[chain[i]] = Null
             /\ i < len => Linking(chain[i], chain[i + 1])
    BY DEF StructInv, ChainLinked, len
  <2>2. ASSUME NEW i \in 1..len + 1
        PROVE  \/ i < len + 1 /\ next[chain'[i]] = chain'[i + 1]
               \/ /\ next[chain'[i]] = Null
                  /\ i < len + 1 => Linking(chain[i], chain[i + 1])'
    <3>1. CASE i < len
      BY <1>1, <1>4, <2>1, <3>1
    <3>2. CASE i = len
      BY <1>1, <1>4, <2>1, <3>2
    <3>3. CASE i = len + 1
      BY <1>0, <1>1, <3>3
    <3> QED
      BY <1>1, <3>1, <3>2, <3>3
  <2> QED
    BY <1>0, <1>1, <2>2 DEF ChainLinked
<1>6. LinkPending'
  <2>1. next[head] = Null
    BY <1>1 DEF StructInv, ChainLinked, len
  <2>2. ASSUME NEW a \in Cells, NEW b \in Cells, Linking(a, b)
        PROVE  \E i \in 1..len : /\ i < len /\ chain[i] = a /\ chain[i + 1] = b
                                 /\ next[a] = Null
    BY <2>2 DEF StructInv, LinkPending, len
  <2>3. ASSUME NEW a \in Cells, NEW b \in Cells, Linking(a, b)'
        PROVE  \E i \in 1..len + 1 : /\ i < len + 1 /\ chain'[i] = a
                                     /\ chain'[i + 1] = b /\ next[a] = Null
    <3>1. CASE Linking(a, b)
      BY <1>1, <2>2, <3>1
    <3>2. CASE a = head /\ b = Stub
      BY <1>1, <2>1, <3>2
    <3> QED
      BY <1>4, <2>3, <3>1, <3>2
  <2> QED
    BY <1>0, <1>1, <2>3 DEF LinkPending
<1>7. \A c : InChain(c)' <=> InChain(c) \/ c = Stub
  BY <1>1 DEF InChain, len
<1>8. ClaimExclusive' /\ LinkExclusive' /\ ProducerLocals'
  BY <1>0, <1>7 DEF StructInv, SwapStub, ClaimExclusive, LinkExclusive,
                    ProducerLocals, Claiming
<1>9. HeldExclusive' /\ MarkerAhead' /\ Lifetime'
  BY <1>0, <1>1, <1>7 DEF StructInv, SwapStub, HeldExclusive, MarkerAhead,
                          DequeuePCs, Lifetime, KeepsQueue
<1>10. StubPlace'
  <2>1. \A i \in 1..len : chain[i] # Stub
    BY <1>0 DEF InChain, len
  <2>2. \A i \in 1..len + 1 : i > 1 /\ chain'[i] = Stub => head = chain'[i - 1]
    BY <1>1, <2>1
  <2> QED
    BY <1>0, <1>1, <2>2 DEF StubPlace, DequeuePCs, Cells
<1> QED
  BY <1>2, <1>3, <1>5, <1>6, <1>8, <1>9, <1>10 DEF StructInv

LEMMA LinkStubStruct ==
  ASSUME StructInv, LinkStub
  PROVE  StructInv'
<1> USE DEF queueVars, producerVars, receiverVars, wakeVars
<1> DEFINE a0 == stubPredecessor
<1>0. /\ a0 \in Cells /\ rpc = "link" /\ rpc' = "reload" /\ tail # Stub
      /\ \A c \in Cells : next'[c] = IF c = a0 THEN Stub ELSE next[c]
  BY DEF StructInv, LinkStub, TypeOK, StubPlace, DequeuePCs, Cells
<1>1. PICK k \in 1..Len(chain) :
        k < Len(chain) /\ chain[k] = a0 /\ chain[k + 1] = Stub
  BY <1>0 DEF StructInv, LinkPending, Linking, Cells
<1>2. TypeOK'
  BY <1>0 DEF StructInv, LinkStub, TypeOK, TrackRace, InDequeue, RPCs, DequeuePCs,
              Cells
<1>3. ChainEnds' /\ ChainDistinct'
  BY DEF StructInv, LinkStub, ChainEnds, ChainDistinct
<1>4. \A a, b : Linking(a, b)' <=> Linking(a, b) /\ b # Stub
  BY <1>0 DEF StructInv, LinkStub, TypeOK, ProducerLocals, Linking
<1>5. ChainLinked'
  <2>1. \A i \in 1..Len(chain) : chain[i] = a0 => i = k
    BY <1>1 DEF StructInv, ChainDistinct
  <2>2. \A i \in 1..Len(chain) : i < Len(chain) /\ chain[i + 1] = Stub => i = k
    <3>1. \A i \in 1..Len(chain) : i < Len(chain) => i + 1 \in 1..Len(chain)
      BY ChainCells
    <3> QED
      BY <1>1, <3>1, ChainCells DEF StructInv, ChainDistinct
  <2>3. \A i \in 1..Len(chain) : next'[chain[i]] = IF i = k THEN Stub ELSE next[chain[i]]
    BY <1>0, <1>1, <2>1, ChainCells
  <2> QED
    BY <1>1, <1>4, <2>2, <2>3 DEF StructInv, LinkStub, ChainLinked
<1>6. LinkPending'
  <2>1. ASSUME NEW a \in Cells, NEW b \in Cells, Linking(a, b), b # Stub
        PROVE  a # a0
    <3>1. PICK i \in 1..Len(chain) :
            i < Len(chain) /\ chain[i] = a /\ chain[i + 1] = b
      BY <2>1 DEF StructInv, LinkPending
    <3> QED
      BY <1>1, <2>1, <3>1 DEF StructInv, ChainDistinct
  <2> QED
    BY <1>0, <1>4, <2>1 DEF StructInv, LinkStub, LinkPending
<1>7. ClaimExclusive' /\ LinkExclusive' /\ ProducerLocals'
  <2>1. InChain(a0)
    BY <1>1 DEF InChain
  <2>2. \A q \in Producers : pc[q] = "swap" => node[q] \in Nodes /\ node[q] # a0
    BY <2>1 DEF StructInv, ClaimExclusive, Claiming
  <2> QED
    BY <1>0, <2>2 DEF StructInv, LinkStub, TypeOK, ClaimExclusive,
                      LinkExclusive, ProducerLocals, Claiming, InChain, Cells
<1>8. HeldExclusive' /\ MarkerAhead' /\ Lifetime'
  BY <1>0 DEF StructInv, LinkStub, HeldExclusive, MarkerAhead, InChain,
              DequeuePCs, Lifetime, KeepsQueue
<1>9. StubPlace'
  <2>1. InChain(Stub)
    BY <1>1, ChainCells DEF InChain
  <2> QED
    BY <1>0, <2>1 DEF StructInv, LinkStub, StubPlace, InChain, DequeuePCs
<1> QED
  BY <1>2, <1>3, <1>5, <1>6, <1>7, <1>8, <1>9 DEF StructInv

LEMMA DropCellStruct ==
  ASSUME StructInv, DropCell
  PROVE  StructInv'
<1> USE DEF queueVars, producerVars, receiverVars, wakeVars
<1>0. /\ life = "dropping" /\ life' = "dropping" /\ rpc = "dropped" /\ rpc' = rpc
      /\ tail # Null /\ chain # <<>> /\ tail' = next[tail] /\ chain' = Tail(chain)
      /\ UNCHANGED <<head, next, life>>
      /\ \A q \in Producers : ~KeepsQueue(q)
      /\ marker = Null
  BY DEF StructInv, DropCell, ChainEnds, Lifetime, MarkerAhead, DequeuePCs
<1>1. \A a, b : ~Linking(a, b) /\ ~Linking(a, b)'
  BY <1>0 DEF DropCell, Linking, KeepsQueue
<1>2. ClaimExclusive' /\ ChainEnds' /\ ChainDistinct' /\ ChainLinked' /\ LinkPending'
      /\ (\A c : InChain(c)' => InChain(c)) /\ chain' \in Seq(Cells)
      /\ tail' \in Cells \cup {Null}
  <2>1. CASE next[tail] # Null
    <3>1. /\ tail' \in Cells /\ chain' \in Seq(Cells)
          /\ \A c : InChain(c)' <=> InChain(c) /\ c # tail
          /\ ChainEnds' /\ ChainDistinct' /\ ChainLinked' /\ LinkPending'
      BY <1>0, <1>1, <2>1, AdvanceTail
    <3>2. ClaimExclusive'
      BY <1>0, <3>1 DEF StructInv, DropCell, ClaimExclusive, Claiming
    <3> QED
      BY <3>1, <3>2
  <2>2. CASE next[tail] = Null
    <3>1. /\ tail = chain[1] /\ Len(chain) \in Nat /\ Len(chain) >= 1
          /\ \A i \in 1..Len(chain) : chain[i] \in Cells
      BY <1>0, ChainCells DEF StructInv, ChainEnds
    <3>2. ~(1 < Len(chain))
      <4>1. SUFFICES ASSUME 1 < Len(chain) PROVE FALSE
        OBVIOUS
      <4>2. chain[2] \in Cells /\ 1 \in 1..Len(chain)
        BY <3>1, <4>1
      <4>3. next[chain[1]] = chain[1 + 1]
        BY <1>1, <4>1, <4>2 DEF StructInv, ChainLinked
      <4> QED
        BY <2>2, <3>1, <4>2, <4>3 DEF Cells
    <3>3. Len(chain') = 0 /\ chain' \in Seq(Cells)
      BY <1>0, <3>1, <3>2, ChainCells, TailCell
    <3>4. chain' = <<>>
      BY <3>3, EmptySeq
    <3>5. \A c : ~InChain(c)'
      BY <3>3 DEF InChain
    <3> QED
      BY <1>0, <1>1, <2>2, <3>3, <3>4, <3>5
         DEF StructInv, DropCell, ClaimExclusive, Claiming, ChainEnds,
             ChainDistinct, ChainLinked, LinkPending
  <2> QED
    BY <2>1, <2>2
<1>3. TypeOK'
  BY <1>0, <1>2 DEF StructInv, DropCell, TypeOK, TrackRace, InDequeue, DequeuePCs
<1>4. LinkExclusive' /\ ProducerLocals' /\ Lifetime'
  BY <1>0 DEF StructInv, DropCell, LinkExclusive, ProducerLocals, Lifetime, KeepsQueue
<1>5. HeldExclusive' /\ MarkerAhead'
  BY <1>0, <1>2 DEF StructInv, DropCell, HeldExclusive, MarkerAhead, DequeuePCs
<1>6. StubPlace'
  <2>1. \A i \in 1..Len(chain') : i > 1 /\ chain'[i] = Stub =>
                                     stubPredecessor = chain'[i - 1]
    <3>1. \A i \in 1..Len(chain) : i > 1 /\ chain[i] = Stub =>
                                      stubPredecessor = chain[i - 1]
      BY DEF StructInv, StubPlace
    <3>2. /\ Len(chain') = Len(chain) - 1
          /\ \A i \in 1..Len(chain') : chain'[i] = chain[i + 1]
      BY <1>0, ChainCells, TailCell
    <3>3. ASSUME NEW i \in 1..Len(chain'), i > 1, chain'[i] = Stub
          PROVE  stubPredecessor = chain'[i - 1]
      <4>1. i + 1 \in 1..Len(chain) /\ i + 1 > 1 /\ chain[i + 1] = Stub
        BY <3>2, <3>3, ChainCells
      <4>2. i - 1 \in 1..Len(chain') /\ (i - 1) + 1 = i /\ (i + 1) - 1 = i
        BY <3>2, <3>3, ChainCells
      <4> QED
        BY <3>1, <3>2, <4>1, <4>2
    <3> QED
      BY <3>3
  <2> QED
    BY <1>0, <2>1 DEF DropCell, StubPlace, DequeuePCs
<1> QED
  BY <1>2, <1>3, <1>4, <1>5, <1>6 DEF StructInv

----------------------------------------------------------------------------

LEMMA NextStruct == StructInv /\ [Next]_vars => StructInv'
<1> SUFFICES ASSUME StructInv, [Next]_vars PROVE StructInv'
  OBVIOUS
<1>1. ASSUME NEW p \in Producers, Produce(p) PROVE StructInv'
  BY <1>1, UpgradeStruct, ClearNextStruct, SwapHeadStruct, LinkPrevStruct,
     WakeStruct, ReleaseStruct DEF Produce
<1>2. ASSUME NEW p \in Producers, NEW n \in Nodes, Claim(p, n) PROVE StructInv'
  BY <1>2, ClaimStruct
<1>3. CASE Register \/ StartDrain
  BY <1>3, RegisterStruct, StartDrainStruct
<1>4. CASE Receive
  <2>1. CASE Snapshot \/ SkipStub \/ LoadNext \/ CompareHead
    BY <2>1, SnapshotStruct, SkipStubStruct, LoadNextStruct, CompareHeadStruct
  <2>2. CASE ClearStub \/ SwapStub \/ LinkStub \/ ReloadNext
    BY <2>2, ClearStubStruct, SwapStubStruct, LinkStubStruct, ReloadNextStruct
  <2>3. CASE Recover
    BY <2>3, RecoverStruct
  <2>4. CASE Discard
    BY <2>4, EndRoundStruct DEF Discard
  <2>5. ASSUME NEW early \in BOOLEAN, Finish(early) PROVE StructInv'
    BY <2>5, EndRoundStruct DEF Finish
  <2> QED
    BY <1>4, <2>1, <2>2, <2>3, <2>4, <2>5 DEF Receive
<1>5. CASE DropReceiver \/ DropQueue
  BY <1>5, DropReceiverStruct, DropCellStruct, FreeQueueStruct DEF DropQueue
<1>6. CASE UNCHANGED vars
  BY <1>6 DEF vars, queueVars, producerVars, receiverVars, wakeVars, StructInv,
     TypeOK, ChainEnds, ChainDistinct, ChainLinked, LinkPending, LinkExclusive,
     Linking, ClaimExclusive, Claiming, ProducerLocals, HeldExclusive, InChain,
     StubPlace, Lifetime, KeepsQueue, MarkerAhead, DequeuePCs
<1> QED
  BY <1>1, <1>2, <1>3, <1>4, <1>5, <1>6 DEF Next

\* The pointer structure of the queue is intact in every reachable state,
\* however the producers' and the receiver's accesses interleave: every cell
\* leads to the next one or is about to, by exactly one linker.
THEOREM StructureCorrect == Spec => []StructInv
<1>1. Init => StructInv
  BY InitStruct
<1>2. StructInv /\ [Next]_vars => StructInv'
  BY NextStruct
<1> QED
  BY <1>1, <1>2, PTL DEF Spec

\* Type correctness; in particular dequeue never returns the stub.
THEOREM TypeCorrect == Spec => []TypeOK
<1>1. StructInv => TypeOK
  BY DEF StructInv
<1> QED
  BY <1>1, StructureCorrect, PTL

\* Of all the wakeups of a node since it was last recovered exactly one
\* enqueues it, and until it is recovered again nobody else can touch it.
THEOREM ClaimCorrect == Spec => []ClaimExclusive
<1>1. StructInv => ClaimExclusive
  BY DEF StructInv
<1> QED
  BY <1>1, StructureCorrect, PTL

\* The snapshot marker is a node this drain will still come to.
THEOREM MarkerCorrect == Spec => []MarkerAhead
<1>1. StructInv => MarkerAhead
  BY DEF StructInv
<1> QED
  BY <1>1, StructureCorrect, PTL

\* Queue::drop leaves no node behind.
THEOREM DropCorrect == Spec => []DropReleasesAll
<1>1. StructInv => DropReleasesAll
  BY EmptySeq DEF StructInv, Lifetime, ChainEnds, DropReleasesAll, HasNode, InChain
<1> QED
  BY <1>1, StructureCorrect, PTL

----------------------------------------------------------------------------
(* No wakeup is lost *)

\* A receiver that finds no successor although the chain goes on sees a
\* producer between its swap and its link.
LEMMA BrokenLinkOwed ==
  ASSUME StructInv, rpc # "link", chain # <<>>, next[tail] = Null, Len(chain) # 1
  PROVE  Racing /\ \E p \in Producers : Owes(p)
<1>1. /\ tail = chain[1] /\ Len(chain) \in Nat /\ Len(chain) >= 1
      /\ \A i \in 1..Len(chain) : chain[i] \in Cells
  BY ChainCells DEF StructInv, ChainEnds
<1>2. 1 < Len(chain)
  <2>1. \A k \in Nat : k >= 1 /\ k # 1 => 1 < k
    OBVIOUS
  <2> QED
    BY <1>1, <2>1
<1>3. chain[2] # Null
  BY <1>1, <1>2 DEF Cells
<1>4. Linking(chain[1], chain[1 + 1])
  BY <1>1, <1>2, <1>3 DEF StructInv, ChainLinked
<1> QED
  BY <1>4 DEF Linking, Owes, Racing

\* The quiet steps: the chain, the marker, the waker and what is owed stay.
LEMMA QuietWake ==
  ASSUME WakeInv, UNCHANGED <<chain, head, tail, marker, held, waker, notified>>,
         \A p \in Producers : Owes(p) => Owes(p)' /\ node'[p] = node[p],
         rpc' \in {"parked", "snapshot"} => rpc' = rpc,
         rpc' = "compare" => rpc = "compare"
  PROVE  WakeInv'
<1>1. NoLostWakeup' /\ Registered'
  BY DEF WakeInv, NoLostWakeup, Registered, HasNode, InChain
<1>2. LateNodesOwed' /\ RacersOwe'
  BY DEF WakeInv, LateNodesOwed, RacersOwe, PastMarker, InChain
<1> QED
  BY <1>1, <1>2 DEF WakeInv

LEMMA SwapHeadWake ==
  ASSUME NEW p \in Producers, StructInv, WakeInv, SwapHead(p)
  PROVE  WakeInv'
<1> USE DEF queueVars, producerVars, receiverVars, wakeVars
<1>1. /\ Owes(p)' /\ node' = node
      /\ \A q \in Producers : Owes(q) => Owes(q)'
  BY DEF StructInv, TypeOK, SwapHead, Owes
<1>2. /\ Len(chain) \in Nat /\ Len(chain') = Len(chain) + 1
      /\ \A i \in 1..Len(chain) : chain'[i] = chain[i]
      /\ chain'[Len(chain) + 1] = node[p]
  <2>1. node[p] \in Cells
    BY DEF StructInv, SwapHead, ClaimExclusive, Claiming, Cells
  <2> QED
    BY <2>1, ChainCells, AppendCell DEF SwapHead
<1>3. NoLostWakeup' /\ Registered' /\ RacersOwe'
  BY <1>1 DEF WakeInv, SwapHead, NoLostWakeup, Registered, RacersOwe
<1>4. ASSUME NEW n \in Nodes, n # node[p], InChain(n)', PastMarker(n)'
      PROVE  InChain(n) /\ PastMarker(n)
  BY <1>2, <1>4 DEF InChain, PastMarker, SwapHead
<1>5. LateNodesOwed'
  BY <1>1, <1>4 DEF WakeInv, SwapHead, LateNodesOwed
<1> QED
  BY <1>3, <1>5 DEF WakeInv

LEMMA WakeWake ==
  ASSUME NEW p \in Producers, WakeInv, Wake(p)
  PROVE  WakeInv'
<1> USE DEF queueVars, producerVars, receiverVars, wakeVars
<1>1. NoLostWakeup' /\ Registered'
  BY DEF WakeInv, Wake, NoLostWakeup, Registered
<1>2. LateNodesOwed' /\ RacersOwe'
  BY DEF Wake, LateNodesOwed, RacersOwe
<1> QED
  BY <1>1, <1>2 DEF WakeInv

LEMMA RegisterWake ==
  ASSUME StructInv, WakeInv, Register
  PROVE  WakeInv'
<1>1. marker' = Null
  BY DEF StructInv, Register, MarkerAhead, DequeuePCs
<1> QED
  BY <1>1 DEF Register, WakeInv, NoLostWakeup, Registered, LateNodesOwed, RacersOwe

LEMMA SnapshotWake ==
  ASSUME StructInv, WakeInv, Snapshot
  PROVE  WakeInv'
<1> USE DEF queueVars, producerVars, receiverVars, wakeVars
<1> DEFINE len == Len(chain)
<1>1. /\ chain # <<>> /\ len \in Nat /\ len >= 1
      /\ tail = chain[1] /\ head = chain[len]
      /\ \A i, j \in 1..len : chain[i] = chain[j] => i = j
      /\ held' = Null
  BY ChainCells DEF StructInv, Snapshot, Lifetime, ChainEnds, ChainDistinct,
                    HeldExclusive
<1> HIDE DEF len
<1>2. CASE head # Stub
  <2>1. marker' = head /\ marker' # Null /\ rpc' = "drain"
    BY <1>2 DEF Snapshot, MarkerOf, StructInv, TypeOK, Cells
  <2>2. \A c : ~PastMarker(c)'
    BY <1>1, <2>1 DEF PastMarker, Snapshot, len
  <2> QED
    BY <2>1, <2>2 DEF Snapshot, WakeInv, NoLostWakeup, Registered, LateNodesOwed,
                      RacersOwe
<1>3. CASE head = Stub /\ tail = Stub
  <2>1. marker' = Null /\ rpc' = "parked"
    BY <1>3 DEF Snapshot, MarkerOf
  <2>2. \A i \in 1..len : i = 1
    <3>1. 1 \in 1..len /\ len \in 1..len /\ chain[1] = chain[len]
      BY <1>1, <1>3
    <3>2. 1 = len
      BY <1>1, <3>1
    <3>3. \A k \in Nat : 1 = k => \A i \in 1..k : i = 1
      OBVIOUS
    <3> QED
      BY <1>1, <3>2, <3>3
  <2>3. ~HasNode'
    BY <1>1, <1>3, <2>2 DEF HasNode, InChain, Snapshot, len
  <2> QED
    BY <2>1, <2>3 DEF Snapshot, WakeInv, NoLostWakeup, Registered, LateNodesOwed,
                      RacersOwe
<1>4. CASE head = Stub /\ tail # Stub
  <2>1. len > 1
    <3>1. \A i \in Nat : i >= 1 /\ chain[1] # chain[i] => i > 1
      OBVIOUS
    <3> QED
      BY <1>1, <1>4, <3>1
  <2>2. marker' = chain[len - 1]
    <3>1. \A i \in 1..len : i > 1 /\ chain[i] = Stub => stubPredecessor = chain[i - 1]
      BY DEF StructInv, StubPlace, len
    <3>2. len \in 1..len /\ chain[len] = Stub
      BY <1>1, <1>4
    <3>3. stubPredecessor = chain[len - 1]
      BY <2>1, <3>1, <3>2
    <3>4. marker' = stubPredecessor
      BY <1>4 DEF Snapshot, MarkerOf
    <3> QED
      BY <3>3, <3>4
  <2>3. marker' # Null /\ rpc' = "drain"
    BY <1>1, <2>1, <2>2, ChainCells DEF Snapshot, Cells, len
  <2>4. \A n \in Nodes : ~PastMarker(n)'
    <3>1. ASSUME NEW i \in 1..len, NEW j \in 1..len, i < j, chain[i] = chain[len - 1]
          PROVE  chain[j] = Stub
      <4>1. len - 1 \in 1..len
        BY <1>1, <2>1
      <4>2. i = len - 1
        BY <1>1, <3>1, <4>1
      <4>3. j = len
        BY <1>1, <3>1, <4>2
      <4> QED
        BY <1>1, <1>4, <4>3
    <3>2. held' # marker'
      BY <1>1, <2>3
    <3> QED
      BY <2>2, <3>1, <3>2 DEF PastMarker, Snapshot, len
  <2> QED
    BY <2>3, <2>4 DEF Snapshot, WakeInv, NoLostWakeup, Registered, LateNodesOwed,
                      RacersOwe
<1> QED
  BY <1>2, <1>3, <1>4

\* A dequeue that returns None parks the receiver only if it has a marker, and
\* then it was a race that stopped it.
LEMMA ReturnNoneWake ==
  ASSUME WakeInv, ReturnNone,
         UNCHANGED <<isEnqueued, producerVars, wakeVars, life>>,
         marker # Null /\ HasNode /\ waker => \E p \in Producers : Owes(p)
  PROVE  WakeInv'
<1> USE DEF queueVars, producerVars, wakeVars
<1>1. NoLostWakeup'
  BY DEF WakeInv, ReturnNone, NoLostWakeup, Registered, HasNode, InChain, Owes
<1>2. Registered' /\ LateNodesOwed' /\ RacersOwe'
  BY DEF WakeInv, ReturnNone, Registered, LateNodesOwed, RacersOwe
<1> QED
  BY <1>1, <1>2 DEF WakeInv

LEMMA ReturnTailWake ==
  ASSUME StructInv, WakeInv, chain # <<>>, tail # Stub, ReturnTail,
         InDequeue, UNCHANGED <<isEnqueued, producerVars, wakeVars, life>>
  PROVE  WakeInv'
<1> USE DEF queueVars, producerVars, wakeVars
<1>1. /\ tail = chain[1] /\ Len(chain) \in Nat /\ Len(chain') = Len(chain) - 1
      /\ \A i \in 1..Len(chain') : chain'[i] = chain[i + 1]
      /\ Len(chain) >= 1
  BY ChainCells, TailCell DEF StructInv, ChainEnds, ReturnTail
<1>2. ASSUME NEW n \in Nodes, InChain(n)', PastMarker(n)'
      PROVE  InChain(n) /\ PastMarker(n)
  <2>1. PICK j \in 1..Len(chain') : chain'[j] = n
    BY <1>2 DEF InChain
  <2>2. j + 1 \in 1..Len(chain) /\ chain[j + 1] = n /\ 1 < j + 1
    BY <1>1, <2>1
  <2>3. InChain(n)
    BY <2>2 DEF InChain
  <2>4. CASE tail = marker
    <3>1. 1 \in 1..Len(chain) /\ chain[1] = marker
      BY <1>1, <2>4
    <3> QED
      BY <2>2, <2>3, <3>1 DEF PastMarker
  <2>5. CASE tail # marker
    <3>1. PICK i, k \in 1..Len(chain') : i < k /\ chain'[i] = marker /\ chain'[k] = n
      BY <1>2, <2>5 DEF PastMarker, ReturnTail
    <3>2. /\ i + 1 \in 1..Len(chain) /\ k + 1 \in 1..Len(chain) /\ i + 1 < k + 1
          /\ chain[i + 1] = marker /\ chain[k + 1] = n
      BY <1>1, <3>1
    <3> QED
      BY <2>3, <3>2 DEF PastMarker
  <2> QED
    BY <2>3, <2>4, <2>5
<1>3. LateNodesOwed'
  BY <1>2 DEF WakeInv, ReturnTail, LateNodesOwed, Owes
<1>4. NoLostWakeup' /\ Registered' /\ RacersOwe'
  BY DEF WakeInv, ReturnTail, NoLostWakeup, Registered, RacersOwe
<1> QED
  BY <1>3, <1>4 DEF WakeInv

LEMMA LoadNextWake ==
  ASSUME StructInv, WakeInv, LoadNext
  PROVE  WakeInv'
<1> USE DEF queueVars, producerVars, receiverVars, wakeVars
<1>1. chain # <<>> /\ InDequeue /\ rpc # "link"
  BY DEF StructInv, LoadNext, Lifetime, ChainEnds, InDequeue, DequeuePCs
<1>2. CASE next[tail] # Null
  BY <1>1, <1>2, ReturnTailWake DEF LoadNext
<1>3. CASE next[tail] = Null
  <2>1. tail # head => Len(chain) # 1
    BY <1>1 DEF StructInv, ChainEnds
  <2>2. RacersOwe'
    BY <1>1, <1>3, <2>1, BrokenLinkOwed DEF LoadNext, RacersOwe, Owes
  <2>3. NoLostWakeup' /\ Registered' /\ LateNodesOwed'
    BY <1>3 DEF LoadNext, WakeInv, NoLostWakeup, Registered, LateNodesOwed,
                PastMarker, InChain, Owes
  <2> QED
    BY <2>2, <2>3 DEF WakeInv
<1> QED
  BY <1>2, <1>3

LEMMA ReloadNextWake ==
  ASSUME StructInv, WakeInv, ReloadNext
  PROVE  WakeInv'
<1> USE DEF queueVars, producerVars, receiverVars, wakeVars
<1>1. chain # <<>> /\ InDequeue /\ rpc # "link" /\ tail # Stub
  BY DEF StructInv, ReloadNext, Lifetime, ChainEnds, InDequeue, DequeuePCs, StubPlace
<1>2. CASE next[tail] # Null
  BY <1>1, <1>2, ReturnTailWake DEF ReloadNext
<1>3. CASE next[tail] = Null
  <2>1. Len(chain) # 1
    BY <1>1 DEF StructInv, ReloadNext, StubPlace, InChain, ChainEnds
  <2> QED
    BY <1>1, <1>3, <2>1, BrokenLinkOwed, ReturnNoneWake DEF ReloadNext
<1> QED
  BY <1>2, <1>3

LEMMA SkipStubWake ==
  ASSUME StructInv, WakeInv, SkipStub
  PROVE  WakeInv'
<1> USE DEF queueVars, producerVars, receiverVars, wakeVars
<1>1. chain # <<>> /\ rpc = "drain" /\ tail = Stub
  BY DEF StructInv, SkipStub, Lifetime, ChainEnds
<1>2. CASE next[tail] = Null
  <2>1. HasNode => Len(chain) # 1
    BY <1>1 DEF StructInv, HasNode, InChain, ChainEnds
  <2> QED
    BY <1>1, <1>2, <2>1, BrokenLinkOwed, ReturnNoneWake DEF SkipStub
<1>3. CASE next[tail] # Null
  <2>1. /\ Len(chain) \in Nat /\ Len(chain') = Len(chain) - 1
        /\ \A i \in 1..Len(chain') : chain'[i] = chain[i + 1]
        /\ rpc' = "load"
        /\ UNCHANGED <<head, held, marker, node, waker, notified>>
        /\ \A p \in Producers : Owes(p)' <=> Owes(p)
    BY <1>1, <1>3, ChainCells, TailCell DEF SkipStub, Owes
  <2>2. ASSUME NEW n \in Nodes, InChain(n)' PROVE InChain(n)
    BY <2>1, <2>2 DEF InChain
  <2>3. ASSUME NEW n \in Nodes, PastMarker(n)' PROVE PastMarker(n)
    <3>1. CASE held = marker
      BY <3>1 DEF PastMarker
    <3>2. CASE held # marker
      <4>1. PICK i, k \in 1..Len(chain') : i < k /\ chain'[i] = marker /\ chain'[k] = n
        BY <2>1, <2>3, <3>2 DEF PastMarker
      <4>2. /\ i + 1 \in 1..Len(chain) /\ k + 1 \in 1..Len(chain) /\ i + 1 < k + 1
            /\ chain[i + 1] = marker /\ chain[k + 1] = n
        BY <2>1, <4>1
      <4> QED
        BY <4>2 DEF PastMarker
    <3> QED
      BY <3>1, <3>2
  <2>4. LateNodesOwed'
    BY <2>1, <2>2, <2>3 DEF WakeInv, LateNodesOwed
  <2>5. NoLostWakeup' /\ Registered' /\ RacersOwe'
    BY <1>1, <2>1 DEF WakeInv, NoLostWakeup, Registered, RacersOwe
  <2> QED
    BY <2>4, <2>5 DEF WakeInv
<1> QED
  BY <1>2, <1>3

LEMMA CompareHeadWake ==
  ASSUME StructInv, WakeInv, CompareHead
  PROVE  WakeInv'
<1> USE DEF queueVars, producerVars, receiverVars, wakeVars
<1>1. CASE tail # head
  BY <1>1, ReturnNoneWake DEF CompareHead, WakeInv, RacersOwe
<1>2. CASE tail = head
  BY <1>2, QuietWake DEF CompareHead, Owes
<1> QED
  BY <1>1, <1>2

LEMMA SwapStubWake ==
  ASSUME StructInv, WakeInv, SwapStub
  PROVE  WakeInv'
<1> USE DEF queueVars, producerVars, receiverVars, wakeVars
<1>1. /\ Len(chain) \in Nat /\ Len(chain') = Len(chain) + 1
      /\ \A i \in 1..Len(chain) : chain'[i] = chain[i]
      /\ chain'[Len(chain) + 1] = Stub
  BY ChainCells, AppendCell DEF SwapStub, Cells
<1>2. ASSUME NEW n \in Nodes, InChain(n)', PastMarker(n)'
      PROVE  InChain(n) /\ PastMarker(n)
  BY <1>1, <1>2 DEF InChain, PastMarker, SwapStub
<1>3. LateNodesOwed'
  BY <1>2 DEF WakeInv, SwapStub, LateNodesOwed, Owes
<1>4. NoLostWakeup' /\ Registered' /\ RacersOwe'
  BY DEF WakeInv, SwapStub, NoLostWakeup, Registered, RacersOwe
<1> QED
  BY <1>3, <1>4 DEF WakeInv

LEMMA EndRoundWake ==
  ASSUME NEW early \in BOOLEAN, StructInv, WakeInv, EndRound(early),
         rpc \in {"hold", "serving"}
  PROVE  WakeInv'
<1> USE DEF queueVars, producerVars, receiverVars, wakeVars
<1>1. held \in Nodes /\ held' = Null /\ RacersOwe'
  BY DEF StructInv, HeldExclusive, EndRound, RacersOwe
<1>2. CASE early
  BY <1>1, <1>2 DEF EndRound, WakeInv, NoLostWakeup, Registered, LateNodesOwed
<1>3. CASE ~early /\ held = marker
  <2>1. marker' = Null /\ rpc' = "parked"
    BY <1>3 DEF EndRound
  <2>2. waker \/ notified
    BY <1>1, <1>3 DEF WakeInv, Registered
  <2>3. waker /\ HasNode => \E p \in Producers : Owes(p)
    BY <1>1, <1>3 DEF WakeInv, LateNodesOwed, PastMarker, HasNode
  <2> QED
    BY <1>1, <2>1, <2>2, <2>3 DEF EndRound, WakeInv, NoLostWakeup, Registered,
                                  LateNodesOwed, HasNode, InChain, Owes
<1>4. CASE ~early /\ held # marker
  <2>1. marker' = marker /\ rpc' = "drain"
    BY <1>4 DEF EndRound
  <2>2. ASSUME NEW n \in Nodes, marker # Null, PastMarker(n)' PROVE PastMarker(n)
    BY <1>1, <2>1, <2>2 DEF EndRound, PastMarker
  <2> QED
    BY <1>1, <2>1, <2>2 DEF EndRound, WakeInv, NoLostWakeup, Registered,
                            LateNodesOwed, InChain, Owes
<1> QED
  BY <1>2, <1>3, <1>4

LEMMA DropWake ==
  ASSUME StructInv, WakeInv, DropReceiver \/ DropQueue
  PROVE  WakeInv'
<1>1. marker' = Null /\ rpc' = "dropped"
  BY DEF StructInv, MarkerAhead, DequeuePCs, DropReceiver, DropQueue, DropCell,
         FreeQueue, Lifetime, receiverVars
<1> QED
  BY <1>1 DEF WakeInv, NoLostWakeup, Registered, LateNodesOwed, RacersOwe

LEMMA NextWake == StructInv /\ WakeInv /\ [Next]_vars => WakeInv'
<1> SUFFICES ASSUME StructInv, WakeInv, [Next]_vars PROVE WakeInv'
  OBVIOUS
<1> USE DEF queueVars, producerVars, receiverVars, wakeVars
<1>1. ASSUME NEW p \in Producers, Produce(p) PROVE WakeInv'
  <2>1. CASE Upgrade(p) \/ ClearNext(p) \/ LinkPrev(p) \/ Release(p)
    BY <2>1, QuietWake DEF StructInv, TypeOK, Upgrade, ClearNext, LinkPrev, Release, Owes
  <2>2. CASE SwapHead(p)
    BY <2>2, SwapHeadWake
  <2>3. CASE Wake(p)
    BY <2>3, WakeWake
  <2> QED
    BY <1>1, <2>1, <2>2, <2>3 DEF Produce
<1>2. ASSUME NEW p \in Producers, NEW n \in Nodes, Claim(p, n) PROVE WakeInv'
  BY <1>2, QuietWake DEF StructInv, TypeOK, Claim, Owes
<1>3. CASE Register
  BY <1>3, RegisterWake
<1>4. CASE StartDrain
  BY <1>4, QuietWake DEF StartDrain, Owes
<1>5. CASE Receive
  <2>1. CASE ClearStub \/ LinkStub \/ Recover
    BY <2>1, QuietWake DEF ClearStub, LinkStub, Recover, Owes
  <2>2. CASE Snapshot \/ SkipStub \/ LoadNext \/ CompareHead \/ SwapStub \/ ReloadNext
    BY <2>2, SnapshotWake, SkipStubWake, LoadNextWake, CompareHeadWake,
       SwapStubWake, ReloadNextWake
  <2>3. CASE Discard
    BY <2>3, EndRoundWake DEF Discard
  <2>4. ASSUME NEW early \in BOOLEAN, Finish(early) PROVE WakeInv'
    BY <2>4, EndRoundWake DEF Finish
  <2> QED
    BY <1>5, <2>1, <2>2, <2>3, <2>4 DEF Receive
<1>6. CASE DropReceiver \/ DropQueue
  BY <1>6, DropWake
<1>7. CASE UNCHANGED vars
  BY <1>7, QuietWake DEF vars, Owes
<1> QED
  BY <1>1, <1>2, <1>3, <1>4, <1>5, <1>6, <1>7 DEF Next

----------------------------------------------------------------------------
(* The races of a dequeue *)

\* Every step keeps the history.
LEMMA EveryStepTracks ==
  ASSUME Next
  PROVE  TrackRace
<1>1. ASSUME NEW p \in Producers, Produce(p) PROVE TrackRace
  BY <1>1 DEF Produce, Upgrade, ClearNext, SwapHead, LinkPrev, Wake, Release
<1>2. ASSUME NEW p \in Producers, NEW n \in Nodes, Claim(p, n) PROVE TrackRace
  BY <1>2 DEF Claim
<1>3. CASE Register \/ StartDrain \/ DropReceiver \/ DropQueue
  BY <1>3 DEF Register, StartDrain, DropReceiver, DropQueue, DropCell, FreeQueue
<1>4. CASE Receive
  BY <1>4 DEF Receive, Snapshot, SkipStub, LoadNext, CompareHead, ClearStub, SwapStub,
              LinkStub, ReloadNext, Recover, Discard, Finish, EndRound
<1> QED
  BY <1>1, <1>2, <1>3, <1>4 DEF Next

\* A dequeue about to compare tail and head got there from a missing
\* successor, or stays there.
LEMMA CompareFound ==
  ASSUME StructInv, Next, rpc' = "compare", tail' # head'
  PROVE  \/ rpc = "compare" /\ (tail # head \/ Racing')
         \/ rpc \in {"drain", "load"} /\ Racing'
<1> USE DEF queueVars, producerVars, receiverVars, wakeVars
<1>1. ASSUME NEW p \in Producers, Produce(p) PROVE rpc = "compare" /\ (tail # head \/ Racing')
  <2>1. CASE SwapHead(p)
    <3>1. pc'[p] = "link"
      BY <2>1 DEF SwapHead, StructInv, TypeOK
    <3> QED
      BY <2>1, <3>1 DEF SwapHead, Racing
  <2>2. CASE Upgrade(p) \/ ClearNext(p) \/ LinkPrev(p) \/ Wake(p) \/ Release(p)
    BY <2>2 DEF Upgrade, ClearNext, LinkPrev, Wake, Release
  <2> QED
    BY <1>1, <2>1, <2>2 DEF Produce
<1>2. ASSUME NEW p \in Producers, NEW n \in Nodes, Claim(p, n)
      PROVE  rpc = "compare" /\ tail # head
  BY <1>2 DEF Claim
<1>3. CASE LoadNext
  <2>1. next[tail] = Null /\ UNCHANGED <<head, tail, pc>> /\ rpc \in {"drain", "load"}
    BY <1>3 DEF LoadNext, ReturnTail
  <2>2. chain # <<>> /\ tail = chain[1] /\ head = chain[Len(chain)]
    BY <2>1 DEF StructInv, Lifetime, ChainEnds
  <2>3. Len(chain) # 1
    BY <2>1, <2>2
  <2> QED
    BY <2>1, <2>2, <2>3, BrokenLinkOwed DEF Racing
<1>4. CASE Receive /\ ~LoadNext
  BY <1>4 DEF Receive, Snapshot, SkipStub, ReturnNone, CompareHead, ClearStub, SwapStub,
     LinkStub, ReloadNext, ReturnTail, Recover, Discard, Finish, EndRound
<1>5. CASE Register \/ StartDrain \/ DropReceiver
  BY <1>5 DEF Register, StartDrain, DropReceiver
<1>6. CASE DropQueue
  BY <1>6 DEF DropQueue, DropCell, FreeQueue, StructInv, Lifetime
<1> QED
  BY <1>1, <1>2, <1>3, <1>4, <1>5, <1>6 DEF Next

LEMMA NextRace == StructInv /\ RaceKnown /\ [Next]_vars => RaceKnown'
<1> SUFFICES ASSUME StructInv, RaceKnown, [Next]_vars PROVE RaceKnown'
  OBVIOUS
<1>1. CASE Next
  <2>1. raced' <=> InDequeue' /\ (Racing' \/ (InDequeue /\ raced))
    BY <1>1, EveryStepTracks DEF TrackRace
  <2>2. ASSUME rpc' = "compare" /\ tail' # head' PROVE raced'
    <3>1. InDequeue'
      BY <2>2 DEF InDequeue, DequeuePCs
    <3>2. rpc = "compare" /\ tail # head => InDequeue /\ raced
      BY DEF RaceKnown, InDequeue, DequeuePCs
    <3> QED
      BY <1>1, <2>1, <2>2, <3>1, <3>2, CompareFound
  <2> QED
    BY <2>1, <2>2 DEF RaceKnown
<1>2. CASE UNCHANGED vars
  BY <1>2 DEF vars, queueVars, producerVars, receiverVars, RaceKnown, InDequeue, Racing
<1> QED
  BY <1>1, <1>2

\* The whole inductive invariant.
THEOREM InvariantHolds == Spec => []IInv
<1>1. Init => WakeInv /\ RaceKnown
  BY DEF Init, WakeInv, NoLostWakeup, Registered, LateNodesOwed, RacersOwe,
         RaceKnown, InDequeue, DequeuePCs
<1>2. StructInv /\ WakeInv /\ [Next]_vars => WakeInv'
  BY NextWake
<1>3. StructInv /\ RaceKnown /\ [Next]_vars => RaceKnown'
  BY NextRace
<1>4. Spec => [](WakeInv /\ RaceKnown)
  BY <1>1, <1>2, <1>3, StructureCorrect, PTL DEF Spec
<1>5. StructInv /\ WakeInv /\ RaceKnown => IInv
  BY DEF IInv
<1> QED
  BY <1>4, <1>5, StructureCorrect, PTL

\* A dequeue that comes back with nothing found the stub alone, or a cell not
\* yet linked to its successor.
LEMMA GivesUp ==
  ASSUME IInv, Next, ReturnsNone
  PROVE  ~HasNode \/ raced
<1> USE DEF queueVars, producerVars, receiverVars, wakeVars
<1>1. rpc \in {"drain", "compare", "reload"} /\ chain # <<>> /\ tail = chain[1]
  <2>1. Receive
    BY DEF Next, Produce, Upgrade, ClearNext, SwapHead, LinkPrev, Wake, Release,
       Claim, Register, StartDrain, DropReceiver, DropQueue, DropCell, FreeQueue,
       ReturnsNone, InDequeue, DequeuePCs
  <2>2. rpc \in {"drain", "compare", "reload"}
    BY <2>1 DEF Receive, Snapshot, SkipStub, LoadNext, ReturnTail, CompareHead,
       ClearStub, SwapStub, LinkStub, ReloadNext, Recover, Discard, Finish, EndRound,
       ReturnsNone, InDequeue, DequeuePCs
  <2> QED
    BY <2>2 DEF IInv, StructInv, Lifetime, ChainEnds
<1>2. CASE rpc = "compare"
  <2>1. tail # head
    BY <1>2 DEF ReturnsNone, Next, Produce, Upgrade, ClearNext, SwapHead, LinkPrev,
       Wake, Release, Claim, Register, StartDrain, DropReceiver, DropQueue, DropCell,
       FreeQueue, Receive, Snapshot, SkipStub, LoadNext, CompareHead, ClearStub,
       SwapStub, LinkStub, ReloadNext, Recover, Discard, Finish, EndRound
  <2> QED
    BY <1>2, <2>1 DEF IInv, RaceKnown
<1>3. CASE rpc \in {"drain", "reload"}
  <2>1. next[tail] = Null /\ (rpc = "drain" => tail = Stub)
    BY <1>3 DEF ReturnsNone, Next, Produce, Upgrade, ClearNext, SwapHead, LinkPrev,
       Wake, Release, Claim, Register, StartDrain, DropReceiver, DropQueue, DropCell,
       FreeQueue, Receive, Snapshot, SkipStub, LoadNext, ReturnTail, CompareHead,
       ClearStub, SwapStub, LinkStub, ReloadNext, Recover, Discard, Finish, EndRound
  <2>2. CASE Len(chain) = 1
    <3>1. \A c : InChain(c) => c = tail
      BY <1>1, <2>2 DEF InChain
    <3>2. tail = Stub
      BY <1>3, <2>1, <3>1 DEF IInv, StructInv, StubPlace
    <3> QED
      BY <3>1, <3>2, CellsAssumption DEF HasNode
  <2>3. CASE Len(chain) # 1
    <3>1. Racing /\ InDequeue
      BY <1>1, <1>3, <2>1, <2>3, BrokenLinkOwed DEF IInv, InDequeue, DequeuePCs
    <3> QED
      BY <3>1 DEF IInv, RaceKnown
  <2> QED
    BY <2>2, <2>3
<1> QED
  BY <1>1, <1>2, <1>3

\* dequeue gives up only on an empty queue or because of an enqueue that was
\* going on during the call.
THEOREM GivesUpForCause == Spec => NoneJustified
<1>1. IInv /\ [Next]_vars => [ReturnsNone => ~HasNode \/ raced \/ Racing]_vars
  BY GivesUp
<1> QED
  BY <1>1, InvariantHolds, PTL DEF Spec, NoneJustified

\* A receiver that returned Pending is never left asleep over a queued node.
THEOREM NoWakeupLost == Spec => []NoLostWakeup
<1>1. IInv => NoLostWakeup
  BY DEF IInv, WakeInv
<1> QED
  BY <1>1, InvariantHolds, PTL

(***************************************************************************)
(* The refinement: with the stub taken out, the chain of pointers is the   *)
(* FIFO queue that Selector is built on, step by step.                     *)
(***************************************************************************)
----------------------------------------------------------------------------
(* The chain without the stub *)

\* Where the stub is, and what the other cells make.
Shape ==
  /\ Len(chain) \in Nat /\ StubAt \in 1..Len(chain) + 1
  /\ AbsLen = IF StubAt <= Len(chain) THEN Len(chain) - 1 ELSE Len(chain)
  /\ AbsLen \in Nat
  /\ \A i \in 1..Len(chain) : chain[i] = Stub <=> i = StubAt
  /\ AbsQueue \in Seq(Nodes) /\ Len(AbsQueue) = AbsLen
  /\ \A i \in 1..AbsLen : i < StubAt => AbsQueue[i] = chain[i]
  /\ \A i \in 1..AbsLen : i >= StubAt => AbsQueue[i] = chain[i + 1]

LEMMA HasShape == StructInv => Shape
<1> SUFFICES ASSUME StructInv PROVE Shape
  OBVIOUS
<1>1. /\ Len(chain) \in Nat
      /\ \A i \in 1..Len(chain) : chain[i] \in Nodes \cup {Stub}
  BY ChainCells DEF Cells
<1>2. /\ StubAt \in 1..Len(chain) + 1
      /\ \A i \in 1..Len(chain) : chain[i] = Stub <=> i = StubAt
      /\ InChain(Stub) <=> StubAt <= Len(chain)
  <2>1. CASE InChain(Stub)
    <3>1. StubAt \in 1..Len(chain) /\ chain[StubAt] = Stub
      BY <2>1 DEF StubAt, InChain
    <3>2. \A i, j \in 1..Len(chain) : chain[i] = chain[j] => i = j
      BY DEF StructInv, ChainDistinct
    <3> QED
      BY <1>1, <2>1, <3>1, <3>2
  <2>2. CASE ~InChain(Stub)
    <3>1. StubAt = Len(chain) + 1
      BY <2>2 DEF StubAt
    <3>2. \A i \in 1..Len(chain) : chain[i] # Stub
      BY <2>2 DEF InChain
    <3> QED
      BY <1>1, <2>2, <3>1, <3>2
  <2> QED
    BY <2>1, <2>2
<1>3. /\ AbsLen = IF StubAt <= Len(chain) THEN Len(chain) - 1 ELSE Len(chain)
      /\ AbsLen \in Nat
  BY <1>1, <1>2 DEF AbsLen
<1>4. \A i \in 1..AbsLen : AbsQueue[i] = IF i < StubAt THEN chain[i] ELSE chain[i + 1]
  BY DEF AbsQueue
<1>5. \A i \in 1..AbsLen : AbsQueue[i] \in Nodes
  <2> TAKE i \in 1..AbsLen
  <2>1. CASE i < StubAt
    <3>1. i \in 1..Len(chain) /\ i # StubAt
      BY <1>1, <1>2, <1>3, <2>1
    <3> QED
      BY <1>1, <1>2, <1>4, <2>1, <3>1
  <2>2. CASE ~(i < StubAt)
    <3>1. i + 1 \in 1..Len(chain) /\ i + 1 # StubAt
      BY <1>1, <1>2, <1>3, <2>2
    <3> QED
      BY <1>1, <1>2, <1>4, <2>2, <3>1
  <2> QED
    BY <2>1, <2>2
<1>6. AbsQueue \in Seq(Nodes) /\ Len(AbsQueue) = AbsLen
  <2>1. \A i \in 1..AbsLen :
          (IF i < StubAt THEN chain[i] ELSE chain[i + 1]) \in Nodes
    BY <1>4, <1>5
  <2> QED
    BY <1>3, <2>1, IsASeq DEF AbsQueue
<1> QED
  BY <1>1, <1>2, <1>3, <1>4, <1>6 DEF Shape

LEMMA HasShapeNext == StructInv' => Shape'
BY HasShape, PTL

\* A swap of head by a producer appends its node.
LEMMA AbsAppend ==
  ASSUME StructInv, Shape, Shape', NEW n \in Nodes, chain' = Append(chain, n)
  PROVE  AbsQueue' = Append(AbsQueue, n)
<1>1. /\ Len(chain') = Len(chain) + 1
      /\ \A i \in 1..Len(chain) : chain'[i] = chain[i]
      /\ chain'[Len(chain) + 1] = n
  BY ChainCells, AppendCell, CellsAssumption DEF Cells
<1>2. StubAt' = IF StubAt <= Len(chain) THEN StubAt ELSE Len(chain) + 2
  BY <1>1, CellsAssumption DEF Shape
<1>3. AbsLen' = AbsLen + 1
  BY <1>1, <1>2 DEF Shape
<1>4. /\ Append(AbsQueue, n) \in Seq(Nodes)
      /\ Len(Append(AbsQueue, n)) = AbsLen + 1
      /\ \A i \in 1..AbsLen : Append(AbsQueue, n)[i] = AbsQueue[i]
      /\ Append(AbsQueue, n)[AbsLen + 1] = n
  BY AppendCell DEF Shape
<1>5. \A i \in 1..AbsLen : AbsQueue'[i] = AbsQueue[i]
  BY <1>1, <1>2, <1>3, SMTT(20) DEF Shape
<1>6. AbsQueue'[AbsLen + 1] = n
  BY <1>1, <1>2, <1>3, SMTT(20) DEF Shape
<1> QED
  BY <1>3, <1>4, <1>5, <1>6, SeqEqual DEF Shape

\* The receiver's swap of head puts the stub back in.
LEMMA AbsStub ==
  ASSUME StructInv, Shape, Shape', ~InChain(Stub), chain' = Append(chain, Stub)
  PROVE  AbsQueue' = AbsQueue
<1>1. /\ Len(chain') = Len(chain) + 1
      /\ \A i \in 1..Len(chain) : chain'[i] = chain[i]
      /\ chain'[Len(chain) + 1] = Stub
  BY ChainCells, AppendCell DEF Cells
<1>2. StubAt = Len(chain) + 1 /\ StubAt' = Len(chain) + 1
  BY <1>1 DEF Shape, StubAt
<1>3. AbsLen' = AbsLen
  BY <1>1, <1>2 DEF Shape
<1>4. \A i \in 1..AbsLen : AbsQueue'[i] = AbsQueue[i]
  BY <1>1, <1>2, <1>3 DEF Shape
<1> QED
  BY <1>3, <1>4, SeqEqual DEF Shape

\* Stepping over the stub takes nothing out of the queue, anything else its
\* oldest node.
LEMMA AbsTail ==
  ASSUME StructInv, Shape, Shape', chain # <<>>, chain' = Tail(chain)
  PROVE  IF tail = Stub
         THEN AbsQueue' = AbsQueue
         ELSE /\ AbsQueue # <<>> /\ Head(AbsQueue) = tail
              /\ AbsQueue' = Tail(AbsQueue)
<1>1. /\ Len(chain) \in Nat /\ Len(chain) >= 1
      /\ Len(chain') = Len(chain) - 1
      /\ \A i \in 1..Len(chain) - 1 : chain'[i] = chain[i + 1]
      /\ tail = chain[1]
  BY ChainCells, TailCell DEF StructInv, ChainEnds
<1>2. PICK len \in Nat : len = Len(chain)
  BY <1>1
<1>3. PICK k \in Nat : k = StubAt
  BY DEF Shape
<1>4. PICK kk \in Nat : kk = StubAt'
  BY DEF Shape
<1>5. PICK n \in Nat : n = AbsLen
  BY DEF Shape
<1>6. PICK nn \in Nat : nn = AbsLen'
  BY DEF Shape
<1>7. /\ len >= 1 /\ Len(chain') = len - 1
      /\ \A i \in 1..len - 1 : chain'[i] = chain[i + 1]
      /\ tail = chain[1]
  BY <1>1, <1>2
<1>8. /\ k >= 1 /\ k <= len + 1
      /\ n = IF k <= len THEN len - 1 ELSE len
      /\ \A i \in 1..len : chain[i] = Stub <=> i = k
      /\ AbsQueue \in Seq(Nodes) /\ Len(AbsQueue) = n
      /\ \A i \in 1..n : i < k => AbsQueue[i] = chain[i]
      /\ \A i \in 1..n : i >= k => AbsQueue[i] = chain[i + 1]
  BY <1>2, <1>3, <1>5 DEF Shape
<1>9. /\ kk >= 1 /\ kk <= (len - 1) + 1
      /\ nn = IF kk <= len - 1 THEN (len - 1) - 1 ELSE len - 1
      /\ \A i \in 1..len - 1 : chain'[i] = Stub <=> i = kk
      /\ AbsQueue' \in Seq(Nodes) /\ Len(AbsQueue') = nn
      /\ \A i \in 1..nn : i < kk => AbsQueue'[i] = chain'[i]
      /\ \A i \in 1..nn : i >= kk => AbsQueue'[i] = chain'[i + 1]
  <2>1. /\ StubAt' \in 1..Len(chain') + 1
        /\ AbsLen' = IF StubAt' <= Len(chain') THEN Len(chain') - 1 ELSE Len(chain')
        /\ \A i \in 1..Len(chain') : chain'[i] = Stub <=> i = StubAt'
        /\ AbsQueue' \in Seq(Nodes) /\ Len(AbsQueue') = AbsLen'
        /\ \A i \in 1..AbsLen' : i < StubAt' => AbsQueue'[i] = chain'[i]
        /\ \A i \in 1..AbsLen' : i >= StubAt' => AbsQueue'[i] = chain'[i + 1]
    BY DEF Shape
  <2>2. kk >= 1 /\ kk <= (len - 1) + 1
    BY <1>4, <1>7, <2>1
  <2>3. nn = IF kk <= len - 1 THEN (len - 1) - 1 ELSE len - 1
    BY <1>4, <1>6, <1>7, <2>1
  <2>4. \A i \in 1..len - 1 : chain'[i] = Stub <=> i = kk
    BY <1>4, <1>7, <2>1
  <2> QED
    BY <1>4, <1>6, <2>1, <2>2, <2>3, <2>4
<1>10. \A i \in 1..len - 1 : i = kk <=> i + 1 = k
  <2> TAKE i \in 1..len - 1
  <2>1. i + 1 \in 1..len
    BY <1>7
  <2>2. chain[i + 1] = Stub <=> i + 1 = k
    BY <1>8, <2>1
  <2>3. chain'[i] = Stub <=> i = kk
    BY <1>9
  <2> QED
    BY <1>7, <2>2, <2>3
<1>11. k = 1 => kk = len
  BY <1>7, <1>8, <1>9, <1>10
<1>12. k > 1 => kk + 1 = k
  <2> SUFFICES ASSUME k > 1 PROVE kk + 1 = k
    OBVIOUS
  <2>1. PICK j \in Nat : j + 1 = k
    BY <1>8
  <2>2. CASE j \in 1..len - 1
    BY <1>10, <2>1, <2>2
  <2>3. CASE j \notin 1..len - 1
    <3>1. j = len
      BY <1>7, <1>8, <2>1, <2>3
    <3>2. kk \notin 1..len - 1
      BY <1>7, <1>10, <2>1, <3>1
    <3>3. kk = len
      BY <1>7, <1>9, <3>2
    <3> QED
      BY <2>1, <3>1, <3>3
  <2> QED
    BY <2>2, <2>3
<1>13. tail = Stub <=> k = 1
  BY <1>7, <1>8
<1>14. CASE tail = Stub
  <2>1. k = 1 /\ kk = len /\ nn = n /\ n = len - 1
    BY <1>7, <1>8, <1>9, <1>11, <1>13, <1>14
  <2>2. \A i \in 1..n : AbsQueue'[i] = AbsQueue[i]
    <3> TAKE i \in 1..n
    <3>1. AbsQueue[i] = chain[i + 1]
      BY <1>8, <2>1
    <3>2. i \in 1..nn /\ i < kk
      BY <1>7, <2>1
    <3>3. AbsQueue'[i] = chain'[i]
      BY <1>9, <3>2
    <3> QED
      BY <1>7, <2>1, <3>1, <3>3
  <2> QED
    BY <1>8, <1>9, <1>14, <2>1, <2>2, SeqEqual
<1>15. CASE tail # Stub
  <2>1. k > 1 /\ kk + 1 = k /\ n >= 1 /\ nn = n - 1 /\ n <= len
    BY <1>7, <1>8, <1>9, <1>12, <1>13, <1>15
  <2>2. AbsQueue[1] = tail
    BY <1>7, <1>8, <2>1
  <2>3. /\ AbsQueue # <<>> /\ Head(AbsQueue) = AbsQueue[1]
        /\ Tail(AbsQueue) \in Seq(Nodes) /\ Len(Tail(AbsQueue)) = n - 1
        /\ \A i \in 1..n - 1 : Tail(AbsQueue)[i] = AbsQueue[i + 1]
    <3>1. AbsQueue # <<>>
      BY <1>8, <2>1
    <3> QED
      BY <1>8, <3>1, TailCell, HeadTailProperties
  <2>4. \A i \in 1..n - 1 : AbsQueue'[i] = AbsQueue[i + 1]
    <3> TAKE i \in 1..n - 1
    <3>1. CASE i < kk
      <4>1. AbsQueue'[i] = chain'[i]
        BY <1>9, <2>1, <3>1
      <4>2. AbsQueue[i + 1] = chain[i + 1]
        BY <1>8, <2>1, <3>1
      <4> QED
        BY <1>7, <2>1, <4>1, <4>2
    <3>2. CASE i >= kk
      <4>1. AbsQueue'[i] = chain'[i + 1]
        BY <1>9, <2>1, <3>2
      <4>2. AbsQueue[i + 1] = chain[i + 1 + 1]
        BY <1>8, <2>1, <3>2
      <4>3. i + 1 \in 1..len - 1
        BY <1>8, <1>9, <2>1, <3>2
      <4> QED
        BY <1>7, <4>1, <4>2, <4>3
    <3> QED
      BY <3>1, <3>2
  <2>5. AbsQueue' = Tail(AbsQueue)
    BY <1>9, <2>1, <2>3, <2>4, SeqEqual
  <2> QED
    BY <1>15, <2>2, <2>3, <2>5
<1> QED
  BY <1>14, <1>15

\* The snapshot marker is the youngest node in the queue.
LEMMA MarkerIsLast ==
  ASSUME StructInv, Shape, life = "alive"
  PROVE  MarkerOf = Abstract!LastQueued
<1>1. /\ Len(chain) \in Nat /\ chain # <<>> /\ Len(chain) >= 1
      /\ tail = chain[1] /\ head = chain[Len(chain)]
  BY ChainCells DEF StructInv, ChainEnds
<1>2. PICK len \in Nat : len = Len(chain)
  BY <1>1
<1>3. PICK k \in Nat : k = StubAt
  BY DEF Shape
<1>4. PICK n \in Nat : n = AbsLen
  BY DEF Shape
<1>5. len >= 1 /\ tail = chain[1] /\ head = chain[len]
  BY <1>1, <1>2
<1>6. /\ k >= 1 /\ k <= len + 1
      /\ n = IF k <= len THEN len - 1 ELSE len
      /\ \A i \in 1..len : chain[i] = Stub <=> i = k
      /\ AbsQueue \in Seq(Nodes) /\ Len(AbsQueue) = n
      /\ \A i \in 1..n : i < k => AbsQueue[i] = chain[i]
      /\ \A i \in 1..n : i >= k => AbsQueue[i] = chain[i + 1]
  BY <1>2, <1>3, <1>4, SMTT(20) DEF Shape
<1>7. Abstract!LastQueued = IF n = 0 THEN Null ELSE AbsQueue[n]
  <2>1. AbsQueue = <<>> <=> n = 0
    BY <1>6, EmptySeq
  <2> QED
    BY <1>6, <2>1 DEF Abstract!LastQueued
<1>8. (head = Stub <=> k = len) /\ (tail = Stub <=> k = 1)
  <2>1. 1 \in 1..len /\ len \in 1..len
    BY <1>5
  <2> QED
    BY <1>5, <1>6, <2>1
<1>9. CASE head # Stub
  <2>1. k # len
    BY <1>8, <1>9
  <2>2. n >= 1 /\ AbsQueue[n] = chain[len]
    <3>1. CASE k <= len
      BY <1>5, <1>6, <2>1, <3>1
    <3>2. CASE k = len + 1
      BY <1>5, <1>6, <3>2
    <3> QED
      BY <1>6, <3>1, <3>2
  <2> QED
    BY <1>5, <1>7, <1>9, <2>2 DEF MarkerOf
<1>10. CASE head = Stub /\ tail = Stub
  <2>1. k = len /\ k = 1
    BY <1>8, <1>10
  <2>2. n = 0
    BY <1>6, <2>1
  <2> QED
    BY <1>7, <1>10, <2>2 DEF MarkerOf
<1>11. CASE head = Stub /\ tail # Stub
  <2>1. k = len /\ k # 1
    BY <1>8, <1>11
  <2>2. n = len - 1 /\ n >= 1
    BY <1>5, <1>6, <2>1
  <2>3. AbsQueue[n] = chain[n]
    BY <1>6, <2>1, <2>2
  <2>4. stubPredecessor = chain[len - 1]
    <3>1. \A i \in 1..len : i > 1 /\ chain[i] = Stub => stubPredecessor = chain[i - 1]
      BY <1>2 DEF StructInv, StubPlace
    <3>2. len \in 1..len /\ len > 1 /\ chain[len] = Stub
      BY <1>5, <1>11, <2>2
    <3> QED
      BY <3>1, <3>2
  <2> QED
    BY <1>7, <1>11, <2>2, <2>3, <2>4 DEF MarkerOf
<1> QED
  BY <1>9, <1>10, <1>11

----------------------------------------------------------------------------
(* The stages, the phases and the races correspond *)

LEMMA StagesMap ==
  ASSUME NEW p \in Producers
  PROVE  /\ AbsStage[p] = StageOf(pc[p])
         /\ AbsNode[p] = IF pc[p] = "release" THEN Null ELSE node[p]
         /\ AbsStage[p] = "appended" <=> pc[p] = "link"
         /\ AbsStage[p] = "linked" <=> pc[p] = "wake"
         /\ AbsStage[p] = "claimed" <=> pc[p] \in {"upgrade", "clear", "swap"}
<1> QED
  BY DEF AbsStage, AbsNode, StageOf

LEMMA PhasesMap ==
  /\ AbsPhase = "drain" <=> InDequeue
  /\ ~InDequeue => AbsPhase = rpc
BY DEF AbsPhase, InDequeue

LEMMA RacesMap == Abstract!Racing <=> Racing
BY StagesMap DEF Abstract!Racing, Racing

LEMMA TracksMap ==
  ASSUME TrackRace
  PROVE  Abstract!TrackRace
<1>1. Abstract!Racing' <=> Racing'
  BY RacesMap, PTL
<1>2. (AbsPhase = "drain" <=> InDequeue)'
  BY PhasesMap, PTL
<1> QED
  BY <1>1, <1>2, PhasesMap DEF TrackRace, Abstract!TrackRace

\* A step inside a dequeue, or away from it, that begins and ends no race
\* leaves the history alone.
LEMMA QuietRace ==
  ASSUME RaceKnown, raced \in BOOLEAN, TrackRace, InDequeue' <=> InDequeue, Racing' <=> Racing
  PROVE  raced' = raced
<1> QED
  BY DEF RaceKnown, TrackRace

----------------------------------------------------------------------------
(* The steps correspond *)

AbsVars == <<AbsQueue, isEnqueued, AbsStage, AbsNode, AbsPhase, held, marker,
             waker, notified, AbsOpen, raced>>

\* A step of WakeupQueue, or none.
Simulated == Abstract!Next \/ UNCHANGED AbsVars

\* The abstract queue is a function of the chain.
LEMMA SameQueue == chain' = chain => AbsQueue' = AbsQueue
BY DEF AbsQueue, AbsLen, StubAt, InChain

LEMMA SameStages == UNCHANGED <<pc, node>> => UNCHANGED <<AbsStage, AbsNode>>
BY DEF AbsStage, AbsNode

LEMMA ProduceSimulated ==
  ASSUME StructInv, StructInv', RaceKnown, NEW p \in Producers, Produce(p)
  PROVE  Simulated
<1> USE DEF queueVars, producerVars, receiverVars, wakeVars
<1>1. /\ pc \in [Producers -> PCs] /\ node \in [Producers -> Nodes \cup {Null}]
      /\ raced \in BOOLEAN
      /\ TrackRace
  BY DEF StructInv, TypeOK, Produce, Upgrade, ClearNext, SwapHead, LinkPrev, Wake, Release
<1>2. UNCHANGED <<rpc, held, marker>> /\ AbsPhase' = AbsPhase /\ (InDequeue' <=> InDequeue)
  BY DEF Produce, Upgrade, ClearNext, SwapHead, LinkPrev, Wake, Release, AbsPhase, InDequeue
<1>3. Abstract!TrackRace
  BY <1>1, TracksMap
<1>4. Shape /\ Shape'
  BY HasShape, HasShapeNext
<1>5. CASE Upgrade(p) /\ life = "alive"
  <2>1. /\ pc' = [pc EXCEPT ![p] = "clear"] /\ pc[p] = "upgrade"
        /\ UNCHANGED <<chain, node, isEnqueued, waker, notified, life>>
    BY <1>5 DEF Upgrade
  <2>2. UNCHANGED <<AbsStage, AbsNode>>
    BY <1>1, <2>1 DEF AbsStage, AbsNode, StageOf
  <2>3. Racing' <=> Racing
    BY <1>1, <2>1 DEF Racing
  <2> QED
    BY <1>1, <1>2, <2>1, <2>2, <2>3, SameQueue, QuietRace DEF Simulated, AbsVars, AbsOpen
<1>6. CASE Upgrade(p) /\ life # "alive"
  <2>1. /\ pc' = [pc EXCEPT ![p] = "idle"] /\ pc[p] = "upgrade"
        /\ node' = [node EXCEPT ![p] = Null]
        /\ UNCHANGED <<chain, isEnqueued, waker, notified, life>>
    BY <1>6 DEF Upgrade
  <2>2. /\ AbsStage[p] = "claimed"
        /\ AbsStage' = [AbsStage EXCEPT ![p] = "idle"]
        /\ AbsNode' = [AbsNode EXCEPT ![p] = Null]
    BY <1>1, <2>1 DEF AbsStage, AbsNode, StageOf
  <2>3. Abstract!Abandon(p)
    BY <1>2, <1>3, <1>6, <2>1, <2>2, SameQueue DEF Abstract!Abandon, AbsOpen,
       Abstract!receiverVars
  <2> QED
    BY <2>3 DEF Simulated, Abstract!Next, Abstract!Produce
<1>7. CASE ClearNext(p)
  <2>1. /\ pc' = [pc EXCEPT ![p] = "swap"] /\ pc[p] = "clear"
        /\ UNCHANGED <<chain, node, isEnqueued, waker, notified, life>>
    BY <1>7 DEF ClearNext
  <2>2. UNCHANGED <<AbsStage, AbsNode>>
    BY <1>1, <2>1 DEF AbsStage, AbsNode, StageOf
  <2>3. Racing' <=> Racing
    BY <1>1, <2>1 DEF Racing
  <2> QED
    BY <1>1, <1>2, <2>1, <2>2, <2>3, SameQueue, QuietRace DEF Simulated, AbsVars, AbsOpen
<1>8. CASE SwapHead(p)
  <2>1. /\ pc' = [pc EXCEPT ![p] = "link"] /\ pc[p] = "swap"
        /\ chain' = Append(chain, node[p])
        /\ UNCHANGED <<node, isEnqueued, waker, notified, life>>
    BY <1>8 DEF SwapHead
  <2>2. /\ AbsStage[p] = "claimed"
        /\ AbsStage' = [AbsStage EXCEPT ![p] = "appended"]
        /\ AbsNode' = AbsNode /\ AbsNode[p] = node[p]
    BY <1>1, <2>1 DEF AbsStage, AbsNode, StageOf
  <2>3. node[p] \in Nodes /\ life = "alive"
    BY <2>1 DEF StructInv, ClaimExclusive, Claiming, Lifetime, KeepsQueue
  <2>4. AbsQueue' = Append(AbsQueue, node[p])
    BY <1>4, <2>1, <2>3, AbsAppend
  <2>5. Abstract!Add(p)
    BY <1>2, <1>3, <2>1, <2>2, <2>3, <2>4 DEF Abstract!Add, AbsOpen, Abstract!receiverVars
  <2> QED
    BY <2>5 DEF Simulated, Abstract!Next, Abstract!Produce
<1>9. CASE LinkPrev(p)
  <2>1. /\ pc' = [pc EXCEPT ![p] = "wake"] /\ pc[p] = "link"
        /\ UNCHANGED <<chain, node, isEnqueued, waker, notified, life>>
    BY <1>9 DEF LinkPrev
  <2>2. /\ AbsStage[p] = "appended"
        /\ AbsStage' = [AbsStage EXCEPT ![p] = "linked"]
        /\ AbsNode' = AbsNode
    BY <1>1, <2>1 DEF AbsStage, AbsNode, StageOf
  <2>3. Abstract!Link(p)
    BY <1>2, <1>3, <2>1, <2>2, SameQueue DEF Abstract!Link, AbsOpen, Abstract!receiverVars
  <2> QED
    BY <2>3 DEF Simulated, Abstract!Next, Abstract!Produce
<1>10. CASE Wake(p)
  <2>1. /\ pc' = [pc EXCEPT ![p] = "release"] /\ pc[p] = "wake"
        /\ notified' = (notified \/ waker) /\ waker' = FALSE
        /\ UNCHANGED <<chain, node, isEnqueued, life>>
    BY <1>10 DEF Wake
  <2>2. /\ AbsStage[p] = "linked"
        /\ AbsStage' = [AbsStage EXCEPT ![p] = "idle"]
        /\ AbsNode' = [AbsNode EXCEPT ![p] = Null]
    BY <1>1, <2>1 DEF AbsStage, AbsNode, StageOf
  <2>3. Abstract!Wake(p)
    BY <1>2, <1>3, <2>1, <2>2, SameQueue DEF Abstract!Wake, AbsOpen, Abstract!receiverVars
  <2> QED
    BY <2>3 DEF Simulated, Abstract!Next, Abstract!Produce
<1>11. CASE Release(p)
  <2>1. /\ pc' = [pc EXCEPT ![p] = "idle"] /\ pc[p] = "release"
        /\ node' = [node EXCEPT ![p] = Null]
        /\ UNCHANGED <<chain, isEnqueued, waker, notified>>
        /\ life' = IF rpc = "dropped" /\ \A q \in Producers \ {p} : ~KeepsQueue(q)
                   THEN "dropping" ELSE life
    BY <1>11 DEF Release
  <2>2. UNCHANGED <<AbsStage, AbsNode>>
    BY <1>1, <2>1 DEF AbsStage, AbsNode, StageOf
  <2>3. Racing' <=> Racing
    BY <1>1, <2>1 DEF Racing
  <2>4. life = "alive"
    BY <2>1 DEF StructInv, Lifetime, KeepsQueue
  <2>5. CASE rpc = "dropped" /\ \A q \in Producers \ {p} : ~KeepsQueue(q)
    <3>1. \A q \in Producers : AbsStage[q] \notin {"appended", "linked"}
      BY <2>1, <2>5 DEF AbsStage, StageOf, KeepsQueue
    <3>2. AbsPhase = "dropped"
      BY <2>5 DEF AbsPhase, InDequeue, DequeuePCs
    <3>3. Abstract!Close
      BY <1>2, <1>3, <2>1, <2>2, <2>4, <2>5, <3>1, <3>2, SameQueue DEF Abstract!Close, AbsOpen,
         Abstract!receiverVars, Abstract!producerVars
    <3> QED
      BY <3>3 DEF Simulated, Abstract!Next
  <2>6. CASE ~(rpc = "dropped" /\ \A q \in Producers \ {p} : ~KeepsQueue(q))
    BY <1>1, <1>2, <2>1, <2>2, <2>3, <2>6, SameQueue, QuietRace DEF Simulated, AbsVars, AbsOpen
  <2> QED
    BY <2>5, <2>6
<1> QED
  BY <1>5, <1>6, <1>7, <1>8, <1>9, <1>10, <1>11 DEF Produce

LEMMA ClaimSimulated ==
  ASSUME StructInv, StructInv', RaceKnown, NEW p \in Producers, NEW n \in Nodes, Claim(p, n)
  PROVE  Simulated
<1> USE DEF queueVars, producerVars, receiverVars, wakeVars
<1>1. /\ pc \in [Producers -> PCs] /\ node \in [Producers -> Nodes \cup {Null}]
      /\ TrackRace
  BY DEF StructInv, TypeOK, Claim
<1>2. AbsPhase' = AbsPhase /\ Abstract!TrackRace /\ AbsOpen' = AbsOpen
  BY <1>1, TracksMap DEF Claim, AbsPhase, InDequeue, AbsOpen
<1>3. /\ AbsStage[p] = "idle"
      /\ IF isEnqueued[n]
         THEN UNCHANGED <<AbsStage, AbsNode>>
         ELSE /\ AbsStage' = [AbsStage EXCEPT ![p] = "claimed"]
              /\ AbsNode' = [AbsNode EXCEPT ![p] = n]
  <2>1. pc[p] = "idle" /\ AbsStage[p] = "idle"
    BY DEF Claim, AbsStage, StageOf
  <2>2. CASE isEnqueued[n]
    BY <2>1, <2>2, SameStages DEF Claim
  <2>3. CASE ~isEnqueued[n]
    BY <1>1, <2>1, <2>3 DEF Claim, AbsStage, AbsNode, StageOf
  <2> QED
    BY <2>1, <2>2, <2>3
<1>4. Abstract!Claim(p, n)
  BY <1>2, <1>3, SameQueue DEF Claim, Abstract!Claim, Abstract!producerVars,
     Abstract!receiverVars
<1> QED
  BY <1>4 DEF Simulated, Abstract!Next

\* Without a node in the chain the abstract queue is empty.
LEMMA NothingQueued ==
  ASSUME Shape, ~HasNode
  PROVE  AbsQueue = <<>>
<1>1. SUFFICES ASSUME AbsQueue # <<>> PROVE FALSE
  OBVIOUS
<1>2. /\ AbsLen \in Nat /\ Len(AbsQueue) = AbsLen /\ AbsQueue \in Seq(Nodes)
      /\ Len(chain) \in Nat
  BY DEF Shape
<1>3. AbsLen >= 1 /\ AbsQueue[1] \in Nodes
  BY <1>1, <1>2, EmptySeq
<1>4. \E i \in 1..Len(chain) : chain[i] = AbsQueue[1]
  BY <1>2, <1>3 DEF Shape
<1> QED
  BY <1>3, <1>4 DEF HasNode, InChain

LEMMA GiveUpSimulated ==
  ASSUME IInv, Next, InDequeue, ReturnNone, TrackRace,
         UNCHANGED <<isEnqueued, producerVars, wakeVars, life>>
  PROVE  Simulated
<1> USE DEF queueVars, producerVars, receiverVars, wakeVars
<1>1. rpc' \in {"ready", "parked"} /\ ReturnsNone
  BY DEF ReturnNone, ReturnsNone
<1>2. AbsPhase = "drain" /\ AbsPhase' = rpc'
  BY <1>1 DEF AbsPhase, InDequeue, DequeuePCs
<1>3. AbsQueue = <<>> \/ raced
  BY GivesUp, NothingQueued, HasShape, <1>1 DEF IInv
<1>4. Abstract!TakeNothing
  BY <1>2, <1>3, TracksMap, SameQueue, SameStages DEF ReturnNone, Abstract!TakeNothing, AbsOpen,
     Abstract!producerVars
<1> QED
  BY <1>4 DEF Simulated, Abstract!Next, Abstract!Receive

LEMMA TakeSimulated ==
  ASSUME StructInv, StructInv', InDequeue, tail # Stub, ReturnTail, TrackRace,
         UNCHANGED <<isEnqueued, producerVars, wakeVars, life>>
  PROVE  Simulated
<1> USE DEF queueVars, producerVars, receiverVars, wakeVars
<1>1. chain # <<>>
  BY DEF StructInv, Lifetime, ChainEnds, InDequeue, DequeuePCs
<1>2. AbsPhase = "drain" /\ AbsPhase' = "hold"
  BY DEF AbsPhase, InDequeue, DequeuePCs, ReturnTail
<1>3. AbsQueue # <<>> /\ Head(AbsQueue) = tail /\ AbsQueue' = Tail(AbsQueue)
  BY <1>1, AbsTail, HasShape, HasShapeNext DEF ReturnTail
<1>4. Abstract!Take
  BY <1>2, <1>3, TracksMap, SameStages DEF ReturnTail, Abstract!Take, AbsOpen,
     Abstract!producerVars
<1> QED
  BY <1>4 DEF Simulated, Abstract!Next, Abstract!Receive

\* What dequeue does with the stub is no step of the abstract queue.
LEMMA InsideDequeue ==
  ASSUME StructInv, RaceKnown, InDequeue, InDequeue', TrackRace, AbsQueue' = AbsQueue,
         UNCHANGED <<isEnqueued, producerVars, held, marker, wakeVars, life>>
  PROVE  Simulated
<1> USE DEF queueVars, producerVars, receiverVars, wakeVars
<1>1. raced' = raced
  <2>1. Racing' <=> Racing
    BY DEF Racing
  <2> QED
    BY <2>1, QuietRace DEF StructInv, TypeOK
<1>2. AbsPhase' = AbsPhase
  BY DEF AbsPhase
<1> QED
  BY <1>1, <1>2, SameStages DEF Simulated, AbsVars, AbsOpen

LEMMA DequeueSimulated ==
  ASSUME IInv, StructInv', Next,
         \/ SkipStub \/ LoadNext \/ CompareHead \/ ClearStub \/ SwapStub \/ LinkStub
         \/ ReloadNext
  PROVE  Simulated
<1> USE DEF queueVars, producerVars, receiverVars, wakeVars
<1>1. /\ InDequeue /\ TrackRace /\ StructInv /\ RaceKnown
      /\ UNCHANGED <<isEnqueued, producerVars, wakeVars, life>>
  BY DEF IInv, InDequeue, DequeuePCs, SkipStub, LoadNext, CompareHead, ClearStub, SwapStub,
     LinkStub, ReloadNext
<1>2. chain # <<>>
  BY <1>1 DEF StructInv, Lifetime, ChainEnds, InDequeue, DequeuePCs
<1>3. Shape /\ Shape'
  BY <1>1, HasShape, HasShapeNext
<1>4. CASE SkipStub
  <2>1. CASE next[tail] = Null
    BY <1>1, <1>4, <2>1, GiveUpSimulated DEF SkipStub
  <2>2. CASE next[tail] # Null
    <3>1. chain' = Tail(chain) /\ tail = Stub /\ rpc' = "load" /\ UNCHANGED <<held, marker>>
      BY <1>4, <2>2 DEF SkipStub
    <3>2. AbsQueue' = AbsQueue
      BY <1>1, <1>2, <1>3, <3>1, AbsTail
    <3> QED
      BY <1>1, <3>1, <3>2, InsideDequeue DEF InDequeue, DequeuePCs
  <2> QED
    BY <2>1, <2>2
<1>5. CASE LoadNext
  <2>1. CASE next[tail] # Null
    BY <1>1, <1>5, <2>1, TakeSimulated DEF LoadNext
  <2>2. CASE next[tail] = Null
    <3>1. chain' = chain /\ rpc' = "compare" /\ UNCHANGED <<held, marker>>
      BY <1>5, <2>2 DEF LoadNext
    <3> QED
      BY <1>1, <3>1, SameQueue, InsideDequeue DEF InDequeue, DequeuePCs
  <2> QED
    BY <2>1, <2>2
<1>6. CASE CompareHead
  <2>1. CASE tail # head
    BY <1>1, <1>6, <2>1, GiveUpSimulated DEF CompareHead
  <2>2. CASE tail = head
    <3>1. chain' = chain /\ rpc' = "clear" /\ UNCHANGED <<held, marker>>
      BY <1>6, <2>2 DEF CompareHead
    <3> QED
      BY <1>1, <3>1, SameQueue, InsideDequeue DEF InDequeue, DequeuePCs
  <2> QED
    BY <2>1, <2>2
<1>7. CASE ClearStub \/ LinkStub
  <2>1. chain' = chain /\ rpc' \in {"swap", "reload"} /\ UNCHANGED <<held, marker>>
    BY <1>7 DEF ClearStub, LinkStub
  <2> QED
    BY <1>1, <2>1, SameQueue, InsideDequeue DEF InDequeue, DequeuePCs
<1>8. CASE SwapStub
  <2>1. /\ chain' = Append(chain, Stub) /\ rpc' = "link" /\ ~InChain(Stub)
        /\ UNCHANGED <<held, marker>>
    BY <1>1, <1>8 DEF SwapStub, StructInv, StubPlace
  <2>2. AbsQueue' = AbsQueue
    BY <1>1, <1>3, <2>1, AbsStub
  <2> QED
    BY <1>1, <2>1, <2>2, InsideDequeue DEF InDequeue, DequeuePCs
<1>9. CASE ReloadNext
  <2>1. CASE next[tail] = Null
    BY <1>1, <1>9, <2>1, GiveUpSimulated DEF ReloadNext
  <2>2. CASE next[tail] # Null
    <3>1. tail # Stub
      BY <1>1, <1>9 DEF ReloadNext, StructInv, StubPlace, DequeuePCs
    <3> QED
      BY <1>1, <1>9, <2>2, <3>1, TakeSimulated DEF ReloadNext
  <2> QED
    BY <2>1, <2>2
<1> QED
  BY <1>4, <1>5, <1>6, <1>7, <1>8, <1>9

\* The receiver's other steps are those of WakeupQueue, one for one.
LEMMA PollSimulated ==
  ASSUME StructInv, StructInv',
         \/ Register \/ StartDrain \/ Snapshot \/ Recover \/ Discard
         \/ \E early \in BOOLEAN : Finish(early)
  PROVE  Simulated
<1> USE DEF queueVars, producerVars, receiverVars, wakeVars
<1>1. /\ TrackRace /\ Abstract!TrackRace /\ ~(rpc \in {"drain"} \cup DequeuePCs)
      /\ UNCHANGED <<chain, pc, node, life>>
  <2>1. TrackRace /\ UNCHANGED <<chain, pc, node, life>>
    BY DEF Register, StartDrain, Snapshot, Recover, Discard, Finish, EndRound
  <2>2. ~(rpc \in {"drain"} \cup DequeuePCs)
    BY DEF Register, StartDrain, Snapshot, Recover, Discard, Finish, DequeuePCs
  <2> QED
    BY <2>1, <2>2, TracksMap
<1>2. /\ UNCHANGED <<AbsQueue, AbsStage, AbsNode, AbsOpen>>
      /\ AbsPhase = rpc
  BY <1>1, SameQueue, SameStages DEF AbsOpen, AbsPhase, InDequeue
<1>3. rpc' \notin DequeuePCs
  BY DEF Register, StartDrain, Snapshot, Recover, Discard, Finish, EndRound, DequeuePCs
<1>4. AbsPhase' = rpc'
  BY <1>3 DEF AbsPhase, InDequeue
<1>5. CASE Register
  BY <1>1, <1>2, <1>4, <1>5 DEF Register, Abstract!Register, Simulated, Abstract!Next,
     Abstract!producerVars
<1>6. CASE StartDrain
  BY <1>1, <1>2, <1>4, <1>6 DEF StartDrain, Abstract!StartDrain, Simulated, Abstract!Next,
     Abstract!producerVars
<1>7. CASE Snapshot
  <2>1. life = "alive" /\ Shape
    BY <1>7, HasShape DEF Snapshot, StructInv, Lifetime
  <2>2. marker' = Abstract!LastQueued
    BY <1>7, <2>1, MarkerIsLast DEF Snapshot
  <2>3. marker' = Null <=> AbsQueue = <<>>
    <3>1. /\ AbsQueue \in Seq(Nodes) /\ Len(AbsQueue) \in Nat
          /\ \A i \in 1..Len(AbsQueue) : AbsQueue[i] \in Nodes
      BY <2>1 DEF Shape
    <3>2. AbsQueue # <<>> => AbsQueue[Len(AbsQueue)] \in Nodes
      <4>1. AbsQueue # <<>> => Len(AbsQueue) >= 1
        BY <3>1, EmptySeq
      <4> QED
        BY <3>1, <4>1
    <3> QED
      BY <2>2, <3>2, CellsAssumption DEF Abstract!LastQueued
  <2>4. Abstract!Snapshot
    BY <1>1, <1>2, <1>4, <1>7, <2>2, <2>3 DEF Snapshot, Abstract!Snapshot, Abstract!producerVars
  <2> QED
    BY <2>4 DEF Simulated, Abstract!Next, Abstract!Receive
<1>8. CASE Recover
  <2>1. Abstract!Recover
    BY <1>1, <1>2, <1>4, <1>8 DEF Recover, Abstract!Recover, Abstract!producerVars
  <2> QED
    BY <2>1 DEF Simulated, Abstract!Next, Abstract!Receive
<1>9. ASSUME NEW early \in BOOLEAN, EndRound(early) PROVE Abstract!EndRound(early)
  BY <1>4, <1>9 DEF EndRound, Abstract!EndRound
<1>10. CASE Discard
  <2>1. Abstract!Discard
    BY <1>1, <1>2, <1>4, <1>9, <1>10 DEF Discard, EndRound, Abstract!Discard,
       Abstract!producerVars
  <2> QED
    BY <2>1 DEF Simulated, Abstract!Next, Abstract!Receive
<1>11. ASSUME NEW early \in BOOLEAN, Finish(early) PROVE Simulated
  <2>1. Abstract!Finish(early)
    BY <1>1, <1>2, <1>4, <1>9, <1>11 DEF Finish, EndRound, Abstract!Finish,
       Abstract!producerVars
  <2> QED
    BY <2>1 DEF Simulated, Abstract!Next, Abstract!Receive
<1> QED
  BY <1>5, <1>6, <1>7, <1>8, <1>10, <1>11

LEMMA DropSimulated ==
  ASSUME StructInv, StructInv', RaceKnown, DropReceiver \/ DropCell \/ FreeQueue
  PROVE  Simulated
<1> USE DEF queueVars, producerVars, receiverVars, wakeVars
<1>1. TrackRace /\ Abstract!TrackRace /\ UNCHANGED <<AbsStage, AbsNode>>
  BY TracksMap, SameStages DEF DropReceiver, DropCell, FreeQueue
<1>2. CASE DropReceiver
  <2>1. AbsPhase = rpc /\ AbsPhase' = "dropped" /\ AbsQueue' = AbsQueue
    BY <1>2, SameQueue DEF DropReceiver, AbsPhase, InDequeue, DequeuePCs
  <2>2. ~AbsOpen' => \A p \in Producers : AbsStage[p] \notin {"appended", "linked"}
    BY <1>2 DEF DropReceiver, AbsOpen, KeepsQueue, AbsStage, StageOf, StructInv, Lifetime
  <2>3. AbsOpen' \in BOOLEAN
    BY DEF AbsOpen
  <2>4. Abstract!DropReceiver
    BY <1>1, <1>2, <2>1, <2>2, <2>3 DEF DropReceiver, Abstract!DropReceiver,
       Abstract!producerVars
  <2> QED
    BY <2>4 DEF Simulated, Abstract!Next
<1>3. ASSUME DropCell \/ FreeQueue
      PROVE  /\ rpc = "dropped" /\ AbsPhase' = AbsPhase /\ ~AbsOpen
             /\ AbsOpen' = AbsOpen /\ raced' = raced
  <2>1. rpc = "dropped" /\ rpc' = rpc /\ life # "alive" /\ life' # "alive"
    BY <1>3 DEF DropCell, FreeQueue, StructInv, Lifetime
  <2>2. ~InDequeue /\ ~InDequeue'
    BY <2>1 DEF InDequeue, DequeuePCs
  <2>3. raced = FALSE /\ raced' = FALSE
    BY <1>1, <2>2 DEF RaceKnown, TrackRace, StructInv, TypeOK
  <2> QED
    BY <2>1, <2>2, <2>3 DEF AbsPhase, AbsOpen
<1>4. CASE DropCell
  <2>1. chain # <<>> /\ chain' = Tail(chain)
    BY <1>4 DEF DropCell, StructInv, ChainEnds
  <2>2. IF tail = Stub THEN AbsQueue' = AbsQueue
        ELSE AbsQueue # <<>> /\ AbsQueue' = Tail(AbsQueue)
    BY <2>1, AbsTail, HasShape, HasShapeNext
  <2>3. CASE tail = Stub
    BY <1>1, <1>3, <1>4, <2>2, <2>3 DEF DropCell, Simulated, AbsVars
  <2>4. CASE tail # Stub
    <3>1. Abstract!DropNode
      BY <1>1, <1>3, <1>4, <2>2, <2>4 DEF DropCell, Abstract!DropNode,
         Abstract!producerVars, Abstract!receiverVars
    <3> QED
      BY <3>1 DEF Simulated, Abstract!Next
  <2> QED
    BY <2>3, <2>4
<1>5. CASE FreeQueue
  BY <1>1, <1>3, <1>5, SameQueue DEF FreeQueue, Simulated, AbsVars
<1> QED
  BY <1>2, <1>4, <1>5

LEMMA NextSimulated == IInv /\ StructInv' /\ [Next]_vars => Simulated
<1> SUFFICES ASSUME IInv, StructInv', [Next]_vars PROVE Simulated
  OBVIOUS
<1>1. StructInv /\ RaceKnown
  BY DEF IInv
<1>2. CASE UNCHANGED vars
  BY <1>2, SameQueue, SameStages DEF vars, queueVars, producerVars, receiverVars, wakeVars,
     Simulated, AbsVars, AbsPhase, AbsOpen, InDequeue
<1>3. CASE Next
  BY <1>1, <1>3, ProduceSimulated, ClaimSimulated, PollSimulated, DequeueSimulated,
     DropSimulated DEF Next, Receive, DropQueue
<1> QED
  BY <1>2, <1>3

LEMMA InitSimulated == Init => Abstract!Init
<1> SUFFICES ASSUME Init PROVE Abstract!Init
  OBVIOUS
<1>1. StructInv /\ ~HasNode
  <2>1. Len(chain) = 1 /\ chain[1] = Stub
    BY DEF Init
  <2> QED
    BY <2>1, InitStruct, CellsAssumption DEF HasNode, InChain
<1>2. AbsQueue = <<>>
  BY <1>1, HasShape, NothingQueued
<1>3. AbsStage = [p \in Producers |-> "idle"] /\ AbsNode = [p \in Producers |-> Null]
  BY DEF Init, AbsStage, AbsNode, StageOf
<1> QED
  BY <1>2, <1>3 DEF Init, Abstract!Init, AbsPhase, AbsOpen, InDequeue, DequeuePCs

\* The pointers, the stub and the retries of src/queue.rs implement the FIFO
\* queue: every behaviour of MpscQueue is one of WakeupQueue.
THEOREM Implements == Spec => ImplementsWakeupQueue
<1>1. IInv /\ StructInv' /\ [Next]_vars => [Abstract!Next]_(Abstract!vars)
  BY NextSimulated DEF Simulated, AbsVars, Abstract!vars
<1>2. Spec => [](IInv /\ StructInv)
  <2>1. IInv => StructInv
    BY DEF IInv
  <2> QED
    BY <2>1, InvariantHolds, PTL
<1>3. Spec => [][Abstract!Next]_(Abstract!vars)
  BY <1>1, <1>2, PTL DEF Spec
<1>4. Spec => Abstract!Init
  BY InitSimulated DEF Spec
<1> QED
  BY <1>3, <1>4 DEF ImplementsWakeupQueue, Abstract!Spec
=============================================================================
