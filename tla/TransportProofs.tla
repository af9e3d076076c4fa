---------------------------- MODULE TransportProofs ----------------------------
(***************************************************************************)
(* What one step of a request does to the invariants of the transport, for *)
(* any number of callers and slots.  The modules that compose Transport    *)
(* use these lemmas in the proofs of their own invariants.                 *)
(***************************************************************************)
EXTENDS Transport, FiniteSetTheorems, TLAPS

\* Nothing is sent before a slot is taken.
TriesInv ==
  \A c \in Callers :
    req[c] \in {"none", "waiting"} => tries[c] = 0

TransportInv == TransportTypeOK /\ SlotAccounting /\ TriesInv

LEMMA TransportInitInv ==
  ASSUME TransportInit, ctxDone \in [Callers -> BOOLEAN]
  PROVE  TransportInv
  <1>1. Holding = {}
    BY DEF TransportInit, Holding
  <1>2. QED
    BY <1>1, FS_EmptySet, TransportAssumption, RetryAssumption
    DEF TransportInit, TransportInv, TransportTypeOK, SlotAccounting, TriesInv

LEMMA HoldingCount == Cardinality(Holding) \in Nat /\ IsFiniteSet(Holding)
  <1>1. Holding \subseteq Callers
    BY DEF Holding
  <1>2. QED
    BY <1>1, CallersAssumption, FS_Subset, FS_CardinalityType

\* The holders after the request of c moved on.
LEMMA HoldingMoves ==
  ASSUME TransportTypeOK, NEW c \in Callers, NEW st, Move(c, st)
  PROVE  Holding' = IF st \in {"trying", "pausing"} THEN Holding \cup {c} ELSE Holding \ {c}
  BY DEF Holding, Move, TransportTypeOK

\* Taking a slot keeps the count of the tokens right.
LEMMA EnterAccounting ==
  ASSUME TransportInv, NEW c \in Callers, Enter(c)
  PROVE  SlotAccounting' /\ slots' \in 0..MaxInFlight
  <1>1. Holding' = Holding \cup {c}
    BY HoldingMoves DEF Enter, TransportInv, TransportTypeOK
  <1>2. c \notin Holding
    BY DEF Enter, Holding
  <1>3. Cardinality(Holding') = Cardinality(Holding) + 1
    BY <1>1, <1>2, HoldingCount, FS_AddElement
  <1>4. QED
    BY <1>3, HoldingCount, TransportAssumption
    DEF Enter, Acquire, SlotAccounting, TransportInv, TransportTypeOK

\* So does giving one back.
LEMMA ReleaseAccounting ==
  ASSUME TransportInv, NEW c \in Callers, c \in Holding, NEW st,
         st \notin {"trying", "pausing"}, Move(c, st), Release
  PROVE  SlotAccounting' /\ slots' \in 0..MaxInFlight
  <1>1. Holding' = Holding \ {c}
    BY HoldingMoves DEF TransportInv, TransportTypeOK
  <1>2. Cardinality(Holding') = Cardinality(Holding) - 1
    BY <1>1, HoldingCount, FS_RemoveElement
  <1>3. Cardinality(Holding') \in Nat
    <2>1. Holding' \subseteq Holding
      BY <1>1
    <2>2. QED
      BY <2>1, HoldingCount, FS_Subset, FS_CardinalityType
  <1>4. QED
    BY <1>2, <1>3, HoldingCount, TransportAssumption
    DEF Release, SlotAccounting, TransportInv, TransportTypeOK

\* Every other step leaves the tokens and their holders alone.
LEMMA SameAccounting ==
  ASSUME TransportInv, NEW c \in Callers, NEW st, Move(c, st), UNCHANGED slots,
         c \in Holding <=> st \in {"trying", "pausing"}
  PROVE  SlotAccounting' /\ slots' \in 0..MaxInFlight
  <1>1. Holding' = Holding
    BY HoldingMoves DEF TransportInv, TransportTypeOK
  <1>2. QED
    BY <1>1 DEF SlotAccounting, TransportInv, TransportTypeOK

LEMMA TransportStepInv ==
  ASSUME TransportInv, ctxDone' \in [Callers -> BOOLEAN], NEW c \in Callers,
         RequestStep(c) \/ Submit(c) \/ Collect(c)
  PROVE  TransportInv'
  <1> USE TransportAssumption, RetryAssumption DEF TransportTypeOK, TriesInv
  <1>h. \A d \in Callers : d \in Holding <=> req[d] \in {"trying", "pausing"}
    BY DEF Holding
  <1>1. CASE Enter(c)
    <2>1. SlotAccounting' /\ slots' \in 0..MaxInFlight
      BY <1>1, EnterAccounting
    <2>2. QED
      BY <1>1, <2>1 DEF Enter, Move, TransportInv
  <1>2. ASSUME NEW answer \in Answers, Retry(c, answer) PROVE TransportInv'
    <2>1. Holding' = Holding
      BY <1>2 DEF Retry, Holding
    <2>2. QED
      BY <1>2, <2>1 DEF Retry, TransportInv, SlotAccounting
  <1>3. ASSUME NEW answer \in Answers, Reject(c, answer) PROVE TransportInv'
    <2>1. SlotAccounting' /\ slots' \in 0..MaxInFlight
      BY <1>3, <1>h, ReleaseAccounting DEF Reject, LastAnswer, ReturnWith
    <2>2. QED
      BY <1>3, <2>1 DEF Reject, LastAnswer, ReturnWith, Move, Answers, TransportInv
  <1>4. CASE GiveUp(c)
    <2>1. SlotAccounting' /\ slots' \in 0..MaxInFlight
      BY <1>4, <1>h, SameAccounting DEF GiveUp, ReturnWith
    <2>2. QED
      BY <1>4, <2>1 DEF GiveUp, ReturnWith, Move, TransportInv
  <1>5. CASE Accept(c)
    <2>1. SlotAccounting' /\ slots' \in 0..MaxInFlight
      BY <1>5, <1>h, SameAccounting DEF Accept
    <2>2. QED
      BY <1>5, <2>1 DEF Accept, Move, TransportInv
  <1>6. CASE Finish(c) \/ Abort(c)
    <2>a. Move(c, "returned") /\ Release /\ c \in Holding
      BY <1>6, <1>h DEF Finish, Abort, ReturnWith
    <2>1. SlotAccounting' /\ slots' \in 0..MaxInFlight
      BY <2>a, ReleaseAccounting
    <2>2. QED
      BY <1>6, <2>1 DEF Finish, Abort, ReturnWith, Move, TransportInv
  <1>7. ASSUME Overrun(c), c \in Holding PROVE TransportInv'
    <2>a. Move(c, "returned") /\ Release
      BY <1>7, <1>h DEF Overrun, ReturnWith
    <2>1. SlotAccounting' /\ slots' \in 0..MaxInFlight
      BY <1>7, <2>a, ReleaseAccounting
    <2>2. QED
      BY <1>7, <2>1 DEF Overrun, ReturnWith, Move, TransportInv
  <1>8. ASSUME Overrun(c), c \notin Holding PROVE TransportInv'
    <2>a. Move(c, "returned") /\ UNCHANGED slots
      BY <1>8, <1>h DEF Overrun, ReturnWith
    <2>1. SlotAccounting' /\ slots' \in 0..MaxInFlight
      BY <1>8, <2>a, SameAccounting
    <2>2. QED
      BY <1>8, <2>1 DEF Overrun, ReturnWith, Move, TransportInv
  <1>9. CASE Submit(c)
    <2>a. Move(c, "waiting") /\ UNCHANGED slots /\ c \notin Holding
      BY <1>9, <1>h DEF Submit
    <2>1. SlotAccounting' /\ slots' \in 0..MaxInFlight
      BY <2>a, SameAccounting
    <2>2. QED
      BY <1>9, <2>1 DEF Submit, Move, TransportInv
  <1>10. CASE Collect(c)
    <2>a. Move(c, "none") /\ UNCHANGED slots /\ c \notin Holding
      BY <1>10, <1>h DEF Collect
    <2>1. SlotAccounting' /\ slots' \in 0..MaxInFlight
      BY <2>a, SameAccounting
    <2>2. QED
      BY <1>10, <2>1 DEF Collect, Move, TransportInv
  <1>11. QED
    BY <1>1, <1>2, <1>3, <1>4, <1>5, <1>6, <1>7, <1>8, <1>9, <1>10 DEF RequestStep

LEMMA TransportStutterInv ==
  ASSUME TransportInv, ctxDone' \in [Callers -> BOOLEAN], UNCHANGED reqVars
  PROVE  TransportInv'
  <1>1. Holding' = Holding
    BY DEF Holding, reqVars
  <1>2. QED
    BY <1>1 DEF TransportInv, TransportTypeOK, SlotAccounting, TriesInv, reqVars
================================================================================
