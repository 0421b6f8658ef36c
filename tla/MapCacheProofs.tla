--------------------------- MODULE MapCacheProofs ---------------------------
(***************************************************************************)
(* Proofs about MapCache: type correctness for every value of the          *)
(* constants, and freshness of the map a pipeline decodes against, for     *)
(* sequential pipelines whose builds finish within the grace window.       *)
(***************************************************************************)
EXTENDS MapCache, TLAPS

(* Every step of the cache keeps the variables well typed.                 *)
LEMMA TypeStep == TypeOK /\ [Next]_vars => TypeOK'
<1> SUFFICES ASSUME TypeOK, [Next]_vars PROVE TypeOK'
  OBVIOUS
<1>1. CASE EditSource
  BY <1>1 DEF EditSource, TypeOK
<1>2. CASE Tick
  BY <1>2 DEF Tick, TypeOK
<1>3. ASSUME NEW p \in Proc, Check(p) PROVE TypeOK'
  BY <1>3 DEF Check, TypeOK, PC
<1>4. ASSUME NEW p \in Proc, Open(p) PROVE TypeOK'
  BY <1>4 DEF Open, TypeOK, PC
<1>5. ASSUME NEW p \in Proc, Finish(p) PROVE TypeOK'
  BY <1>5 DEF Finish, TypeOK, PC
<1>6. ASSUME NEW p \in Proc, Decode(p) PROVE TypeOK'
  BY <1>6 DEF Decode, TypeOK, PC
<1>7. CASE UNCHANGED vars
  BY <1>7 DEF vars, TypeOK
<1>8. QED
  BY <1>1, <1>2, <1>3, <1>4, <1>5, <1>6, <1>7 DEF Next

(* The initial state is well typed.                                        *)
LEMMA InitType == Init => TypeOK
<1> SUFFICES ASSUME Init PROVE TypeOK
  OBVIOUS
<1>1. pc \in [Proc -> PC]
  BY DEF Init, PC
<1>2. mapContent \in Nat \cup {Partial}
  BY DEF Init
<1>3. readVer \in [Proc -> Nat] /\ started \in [Proc -> Nat]
      /\ seen \in [Proc -> Nat]
  BY DEF Init
<1>4. now \in Nat /\ srcVer \in Nat /\ srcMtime \in Nat /\ mapMtime \in Nat
  BY DEF Init
<1>5. mapExists \in BOOLEAN
  BY Zenon DEF Init
<1>6. QED
  BY <1>1, <1>2, <1>3, <1>4, <1>5 DEF TypeOK

(* TypeCorrect: every reachable state of the cache is well typed.          *)
THEOREM TypeCorrect == Spec => []TypeOK
BY InitType, TypeStep, PTL DEF Spec

-----------------------------------------------------------------------------
(* The strengthening of FreshMapUsed.                                      *)

(* At most one pipeline is away from "idle".                               *)
Exclusive ==
    \A p, q \in Proc : pc[p] # "idle" /\ pc[q] # "idle" => p = q

(* File times never lie in the future.                                     *)
ClockOK ==
    srcMtime <= now /\ mapMtime <= now

(* A build in progress started no later than now, ends within BuildBound,  *)
(* and if the source changed since it was read, it changed after the map   *)
(* was truncated.                                                          *)
WriterOK ==
    \A p \in Proc : pc[p] = "writing" =>
        /\ started[p] <= now
        /\ now <= started[p] + BuildBound
        /\ readVer[p] # srcVer => started[p] <= srcMtime

(* With no build in progress, a map the freshness test would reuse holds   *)
(* the current source version.                                              *)
CacheOK ==
    (\A p \in Proc : pc[p] # "writing") /\ mapExists /\ ~NeedsRebuild
        => mapContent = srcVer

IRest == Exclusive /\ ClockOK /\ WriterOK /\ CacheOK /\ FreshMapUsed

IInv == TypeOK /\ IRest

LEMMA InitIInv == Init => IInv
<1> SUFFICES ASSUME Init PROVE IInv
  OBVIOUS
<1>1. TypeOK
  BY InitType
<1>2. Exclusive /\ ClockOK /\ WriterOK /\ FreshMapUsed
  BY DEF Init, Exclusive, ClockOK, WriterOK, FreshMapUsed
<1>3. CacheOK
  BY Zenon DEF Init, CacheOK
<1>4. QED
  BY <1>1, <1>2, <1>3 DEF IInv, IRest

LEMMA NextIInv ==
  ASSUME Sequential, BuildBound < Grace
  PROVE  IInv /\ [Next]_vars => IInv'
<1> SUFFICES ASSUME IInv, [Next]_vars PROVE IInv'
  OBVIOUS
<1> USE GraceAssumption, BoundsAssumption, PartialAssumption
    DEF IInv, TypeOK, PC
<1>0. TypeOK'
  BY TypeStep
<1>1. CASE EditSource
  BY <1>1 DEF EditSource, IRest, Exclusive, ClockOK, WriterOK, CacheOK,
              FreshMapUsed, NeedsRebuild
<1>2. CASE Tick
  BY <1>2 DEF Tick, IRest, Exclusive, ClockOK, WriterOK, CacheOK,
              FreshMapUsed, NeedsRebuild
<1>3. ASSUME NEW p \in Proc, Check(p) PROVE IRest'
  <2>1. \A q \in Proc \ {p} : pc[q] = "idle"
    BY <1>3 DEF Check, MayStart
  <2>2. Exclusive'
    BY <1>3, <2>1 DEF Check, Exclusive
  <2>3. CASE NeedsRebuild
    <3>1. \A q \in Proc : pc'[q] # "writing"
      BY <1>3, <2>1, <2>3 DEF Check
    <3>2. CacheOK'
      BY <1>3, <3>1, <2>3, Zenon DEF Check, CacheOK, NeedsRebuild
    <3>3. QED
      BY <1>3, <2>1, <2>2, <2>3, <3>2 DEF Check, IRest, ClockOK, WriterOK,
                                         FreshMapUsed
  <2>4. CASE ~NeedsRebuild
    <3>1. mapExists
      BY <2>4 DEF NeedsRebuild
    <3>2. mapContent = srcVer
      BY <1>3, <2>1, <2>4, <3>1 DEF Check, IRest, CacheOK
    <3>3. QED
      BY <1>3, <2>1, <2>2, <2>4, <3>2 DEF Check, IRest, ClockOK, WriterOK,
                                         CacheOK, FreshMapUsed, NeedsRebuild
  <2>5. QED
    BY <2>3, <2>4
<1>4. ASSUME NEW p \in Proc, Open(p) PROVE IRest'
  BY <1>4 DEF Open, IRest, Exclusive, ClockOK, WriterOK, CacheOK,
              FreshMapUsed
<1>5. ASSUME NEW p \in Proc, Finish(p) PROVE IRest'
  <2>1. \A q \in Proc \ {p} : pc[q] = "idle"
    BY <1>5 DEF Finish, IRest, Exclusive
  <2>2. CacheOK'
    <3>1. CASE readVer[p] = srcVer
      BY <1>5, <3>1 DEF Finish, CacheOK
    <3>2. CASE readVer[p] # srcVer
      <4>1. started[p] <= srcMtime /\ now <= started[p] + BuildBound
        BY <1>5, <3>2 DEF Finish, IRest, WriterOK
      <4>2. NeedsRebuild'
        BY <1>5, <4>1 DEF Finish, NeedsRebuild
      <4>3. QED
        BY <4>2 DEF CacheOK
    <3>3. QED
      BY <3>1, <3>2
  <2>3. QED
    BY <1>5, <2>1, <2>2 DEF Finish, IRest, Exclusive, ClockOK, WriterOK,
                           FreshMapUsed
<1>6. ASSUME NEW p \in Proc, Decode(p) PROVE IRest'
  BY <1>6 DEF Decode, IRest, Exclusive, ClockOK, WriterOK, CacheOK,
              FreshMapUsed, NeedsRebuild
<1>7. CASE UNCHANGED vars
  BY <1>7 DEF vars, IRest, Exclusive, ClockOK, WriterOK, CacheOK,
              FreshMapUsed, NeedsRebuild
<1>8. QED
  BY <1>0, <1>1, <1>2, <1>3, <1>4, <1>5, <1>6, <1>7 DEF Next

(* FreshMapTheorem: when analyzer pipelines run one after another (as     *)
(* runAllAnalyzers runs them) and a map build takes less than the grace    *)
(* window, every pipeline decodes against the map of the source version    *)
(* it judged current -- never a stale or half-written one.                 *)
THEOREM FreshMapTheorem ==
  ASSUME Sequential, BuildBound < Grace
  PROVE  Spec => []FreshMapUsed
<1>1. Init => IInv
  BY InitIInv
<1>2. IInv /\ [Next]_vars => IInv'
  BY NextIInv
<1>3. IInv => FreshMapUsed
  BY DEF IInv, IRest
<1>4. QED
  BY <1>1, <1>2, <1>3, PTL DEF Spec

=============================================================================
