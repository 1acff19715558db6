-------------------------- MODULE SStoreGasProofs ---------------------------
(***************************************************************************)
(* Proofs about SStoreGas, for all contracts, slots, values and depths.    *)
(***************************************************************************)
EXTENDS SStoreGas, FiniteSetTheorems, SequenceTheorems, TLAPS

State == [current : [Cell -> Val], refund : Nat, addrs : SUBSET Contract, slots : SUBSET Cell,
          suicided : SUBSET Contract, paid : [Cell -> Int]]
Frame == [addr : Contract, saved : State]

(* What holds of the state now and of every state a call may restore.      *)
Good(f, o, s) == s \in State /\ Covered(f, o, s) /\ Metered(f, o, s)

(* The contract of a call is in the access list, and stays there when any  *)
(* call it has made, directly or not, is reverted.                         *)
Listed ==
    Berlin(rules) => \A i \in DOMAIN frames : /\ frames[i].addr \in st.addrs
                                              /\ \A j \in DOMAIN frames : i <= j => frames[i].addr \in frames[j].saved.addrs

IInv ==
    /\ rules \in Forks /\ original \in [Cell -> Val] /\ frames \in Seq(Frame) /\ panicked = FALSE
    /\ Good(rules, original, st) /\ \A i \in DOMAIN frames : Good(rules, original, frames[i].saved)
    /\ Listed

-----------------------------------------------------------------------------
(* A write under net metering changes the net price by what it costs less  *)
(* what it refunds.                                                        *)
LEMMA NetStep ==
    ASSUME Words, NEW f \in Forks \ {"legacy"}, NEW o \in Val, NEW c \in Val, NEW v \in Val
    PROVE  /\ Net(f, o, c, v).gas \in Int /\ Net(f, o, c, v).refund \in Int
           /\ NetPrice(f, o, v) = NetPrice(f, o, c) + Net(f, o, c, v).gas - Noop(f) - Net(f, o, c, v).refund
  <1>1. o \in Nat /\ c \in Nat /\ v \in Nat
    BY DEF Words
  <1>2. Noop(f) \in Int /\ Clear(f) \in Int /\ Clean(f) \in Int /\ SetGas \in Int
    BY DEF Noop, Clear, Clean, SetGas
  <1> QED
    BY <1>1, <1>2 DEF Net, NetPrice

(* It refunds the price of a clear slot when it clears one, and takes back *)
(* no more than that when it sets one again.                               *)
LEMMA RefundStep ==
    ASSUME Words, NEW f \in Forks \ {"legacy"}, NEW o \in Val, NEW c \in Val, NEW v \in Val
    PROVE  /\ o # 0 /\ c # 0 /\ v = 0 => Net(f, o, c, v).refund >= Clear(f)
           /\ o # 0 /\ c = 0 /\ v # 0 => Net(f, o, c, v).refund >= -Clear(f)
           /\ o = 0 \/ (c = 0 <=> v = 0) => Net(f, o, c, v).refund >= 0
  <1>1. o \in Nat /\ c \in Nat /\ v \in Nat
    BY DEF Words
  <1>2. Noop(f) \in Int /\ Clear(f) \in Int /\ Clean(f) \in Int /\ SetGas \in Int
    BY DEF Noop, Clear, Clean, SetGas
  <1>3. 0 <= Noop(f) /\ 0 <= Clear(f) /\ Noop(f) <= Clean(f) /\ Noop(f) <= SetGas
    BY DEF Noop, Clear, Clean, SetGas
  <1>4. CASE o # 0 /\ c # 0 /\ v = 0
    <2>1. Net(f, o, c, v).refund = Clear(f)
      BY <1>1, <1>2, <1>4 DEF Net
    <2> QED
      BY <2>1, <1>2, <1>4
  <1>5. CASE o # 0 /\ c = 0 /\ v # 0
    <2>1. Net(f, o, c, v).refund = -Clear(f) + (IF o = v THEN Clean(f) - Noop(f) ELSE 0)
      BY <1>1, <1>2, <1>5 DEF Net
    <2> QED
      BY <2>1, <1>2, <1>3, <1>5
  <1>6. CASE o = 0
    <2>1. Net(f, o, c, v).refund \in {0, SetGas - Noop(f)}
      BY <1>1, <1>2, <1>6 DEF Net
    <2> QED
      BY <2>1, <1>2, <1>3, <1>6
  <1>7. CASE o # 0 /\ (c = 0 <=> v = 0)
    <2>1. Net(f, o, c, v).refund \in {0, Clean(f) - Noop(f)}
      BY <1>1, <1>2, <1>7 DEF Net
    <2> QED
      BY <2>1, <1>2, <1>3, <1>7
  <1> QED
    BY <1>4, <1>5, <1>6, <1>7

LEMMA LegacyStep ==
    ASSUME NEW c \in Val, NEW v \in Val
    PROVE  Legacy(c, v).gas \in Int /\ Legacy(c, v).refund \in Nat
  BY DEF Legacy

LEMMA NoopType == ASSUME NEW f PROVE Noop(f) \in Nat
  BY DEF Noop

LEMMA ClearType == ASSUME NEW f PROVE Clear(f) \in Nat
  BY DEF Clear

-----------------------------------------------------------------------------
(* A write adds its cell to the cleared ones, takes it away, or neither.   *)
LEMMA ClearedStep ==
    ASSUME Words, NEW o \in [Cell -> Val], NEW s \in State, NEW t \in State, NEW c \in Cell, NEW v \in Val,
           t.current = [s.current EXCEPT ![c] = v]
    PROVE  /\ Cardinality(Cleared(o, s)) \in Nat /\ Cardinality(Cleared(o, t)) \in Nat
           /\ o[c] # 0 /\ s.current[c] # 0 /\ v = 0 => Cardinality(Cleared(o, t)) = Cardinality(Cleared(o, s)) + 1
           /\ o[c] # 0 /\ s.current[c] = 0 /\ v # 0 => Cardinality(Cleared(o, t)) = Cardinality(Cleared(o, s)) - 1
           /\ o[c] = 0 \/ (s.current[c] = 0 <=> v = 0) => Cleared(o, t) = Cleared(o, s)
  <1>1. s.current \in [Cell -> Val]
    BY DEF State
  <1>2. IsFiniteSet(Cleared(o, s)) /\ IsFiniteSet(Cleared(o, t))
    BY FS_Subset DEF Words, Cleared
  <1>3. Cardinality(Cleared(o, s)) \in Nat /\ Cardinality(Cleared(o, t)) \in Nat
    BY <1>2, FS_CardinalityType
  <1>4. \A e \in Cell : t.current[e] = IF e = c THEN v ELSE s.current[e]
    BY <1>1
  <1>5. CASE o[c] # 0 /\ s.current[c] # 0 /\ v = 0
    <2>1. Cleared(o, t) = Cleared(o, s) \cup {c} /\ c \notin Cleared(o, s)
      BY <1>4, <1>5 DEF Cleared
    <2> QED
      BY <2>1, <1>2, <1>3, <1>5, FS_AddElement
  <1>6. CASE o[c] # 0 /\ s.current[c] = 0 /\ v # 0
    <2>1. Cleared(o, t) = Cleared(o, s) \ {c} /\ c \in Cleared(o, s)
      BY <1>4, <1>6 DEF Cleared
    <2> QED
      BY <2>1, <1>2, <1>3, <1>6, FS_RemoveElement
  <1>7. CASE o[c] = 0 \/ (s.current[c] = 0 <=> v = 0)
    <2>1. Cleared(o, t) = Cleared(o, s)
      BY <1>4, <1>7 DEF Cleared
    <2> QED
      BY <2>1, <1>3, <1>7
  <1> QED
    BY <1>5, <1>6, <1>7

(* The counter stays above what the cleared cells need.                    *)
LEMMA Arithmetic ==
    ASSUME NEW r \in Nat, NEW p \in Nat, NEW m \in Nat, NEW n \in Nat, NEW x \in Int, r >= p * m,
           \/ n = m + 1 /\ x >= p
           \/ n = m - 1 /\ x >= -p
           \/ n = m /\ x >= 0
    PROVE  r + x \in Nat /\ r + x >= p * n
  <1>1. p * m \in Nat /\ p * n \in Nat
    OBVIOUS
  <1>2. p * (m + 1) = p * m + p /\ p * (m - 1) = p * m - p
    OBVIOUS
  <1> QED
    BY <1>1, <1>2

LEMMA WriteCovered ==
    ASSUME Words, NEW f \in Forks \ {"legacy"}, NEW o \in [Cell -> Val],
           NEW s, Good(f, o, s), NEW c \in Cell, NEW v \in Val, NEW t \in [current : [Cell -> Val]],
           NEW x, x = Net(f, o[c], s.current[c], v),
           t.current = [s.current EXCEPT ![c] = v]
    PROVE  /\ s.refund + x.refund \in Nat
           /\ s.refund + x.refund >= Clear(f) * Cardinality(Cleared(o, t))
  <1> DEFINE u == [s EXCEPT !.current = t.current]
  <1>1. s \in State /\ u \in State /\ u.current = t.current
    BY DEF Good, State
  <1>2. Cleared(o, u) = Cleared(o, t)
    BY <1>1 DEF Cleared
  <1>3. o[c] \in Val /\ s.current[c] \in Val /\ s.refund \in Nat
    BY <1>1 DEF State
  <1>4. x.refund \in Int
    BY <1>3, NetStep
  <1>5. s.refund >= Clear(f) * Cardinality(Cleared(o, s))
    BY DEF Good, Covered
  <1> HIDE DEF u
  <1>6. Cardinality(Cleared(o, s)) \in Nat /\ Cardinality(Cleared(o, t)) \in Nat
    BY <1>1, <1>2, ClearedStep
  <1>7. \/ Cardinality(Cleared(o, t)) = Cardinality(Cleared(o, s)) + 1 /\ x.refund >= Clear(f)
        \/ Cardinality(Cleared(o, t)) = Cardinality(Cleared(o, s)) - 1 /\ x.refund >= -Clear(f)
        \/ Cardinality(Cleared(o, t)) = Cardinality(Cleared(o, s)) /\ x.refund >= 0
    <2>1. CASE o[c] # 0 /\ s.current[c] # 0 /\ v = 0
      <3>1. Cardinality(Cleared(o, t)) = Cardinality(Cleared(o, s)) + 1
        BY <2>1, <1>1, <1>2, ClearedStep
      <3>2. x.refund >= Clear(f)
        BY <2>1, <1>3, RefundStep
      <3> QED
        BY <3>1, <3>2
    <2>2. CASE o[c] # 0 /\ s.current[c] = 0 /\ v # 0
      <3>1. Cardinality(Cleared(o, t)) = Cardinality(Cleared(o, s)) - 1
        BY <2>2, <1>1, <1>2, ClearedStep
      <3>2. x.refund >= -Clear(f)
        BY <2>2, <1>3, RefundStep
      <3> QED
        BY <3>1, <3>2
    <2>3. CASE o[c] = 0 \/ (s.current[c] = 0 <=> v = 0)
      <3>1. Cleared(o, t) = Cleared(o, s)
        BY <2>3, <1>1, <1>2, ClearedStep
      <3>2. x.refund >= 0
        BY <2>3, <1>3, RefundStep
      <3> QED
        BY <3>1, <3>2
    <2> QED
      BY <2>1, <2>2, <2>3
  <1> QED
    BY <1>3, <1>4, <1>5, <1>6, <1>7, ClearType, Arithmetic

(* What SubRefund takes for a cell that is cleared is in the counter.      *)
LEMMA TakenCovered ==
    ASSUME Words, NEW f \in Forks, NEW o \in [Cell -> Val], NEW s, Good(f, o, s), NEW c \in Cell, NEW v \in Val
    PROVE  ~(s.refund < Taken(f, o[c], s.current[c], v))
  <1>1. s \in State /\ s.refund \in Nat /\ s.current \in [Cell -> Val]
    BY DEF Good, State
  <1>2. CASE Taken(f, o[c], s.current[c], v) = 0
    BY <1>1, <1>2
  <1>3. CASE Taken(f, o[c], s.current[c], v) # 0
    <2>1. f # "legacy" /\ o[c] # 0 /\ s.current[c] = 0 /\ Taken(f, o[c], s.current[c], v) = Clear(f)
      BY <1>3 DEF Taken
    <2>2. c \in Cleared(o, s) /\ IsFiniteSet(Cleared(o, s))
      BY <2>1, FS_Subset DEF Words, Cleared
    <2>3. Cardinality(Cleared(o, s)) \in Nat /\ Cardinality(Cleared(o, s)) # 0
      BY <2>2, FS_CardinalityType, FS_EmptySet
    <2>4. s.refund >= Clear(f) * Cardinality(Cleared(o, s))
      BY <2>1 DEF Good, Covered
    <2>5. Clear(f) * Cardinality(Cleared(o, s)) >= Clear(f)
      <3>1. \A m \in Nat, n \in Nat : n # 0 => m * n >= m
        OBVIOUS
      <3> QED
        BY <3>1, <2>3, ClearType
    <2>6. Clear(f) * Cardinality(Cleared(o, s)) \in Nat
      BY <2>3, ClearType
    <2> QED
      BY <1>1, <2>1, <2>4, <2>5, <2>6, ClearType
  <1> QED
    BY <1>2, <1>3

(* SSTORE keeps what holds of a state, under all rules.                    *)
LEMMA WriteGood ==
    ASSUME Words, NEW f \in Forks, NEW o \in [Cell -> Val], NEW s, Good(f, o, s), NEW c \in Cell, NEW v \in Val,
           NEW sl \in SUBSET Cell, NEW ad \in SUBSET Contract, NEW x, x = Cost(f, o[c], s.current[c], v)
    PROVE  Good(f, o, [s EXCEPT !.current[c] = v, !.refund = @ + x.refund, !.slots = sl, !.addrs = ad,
                                !.paid[c] = @ + x.gas - Noop(f) - x.refund])
  <1> DEFINE t == [s EXCEPT !.current[c] = v, !.refund = @ + x.refund, !.slots = sl, !.addrs = ad,
                            !.paid[c] = @ + x.gas - Noop(f) - x.refund]
  <1>1. s \in State /\ s.refund \in Nat /\ s.current \in [Cell -> Val] /\ s.paid \in [Cell -> Int]
    BY DEF Good, State
  <1>2. /\ t.current = [s.current EXCEPT ![c] = v] /\ t.refund = s.refund + x.refund
        /\ t.paid = [s.paid EXCEPT ![c] = @ + x.gas - Noop(f) - x.refund]
    BY <1>1 DEF State
  <1>3. o[c] \in Val /\ s.current[c] \in Val /\ Noop(f) \in Nat
    BY <1>1, NoopType
  <1>4. x.gas \in Int /\ x.refund \in Int
    BY <1>3, NetStep, LegacyStep DEF Cost
  <1>5. s.refund + x.refund \in Nat => t \in State
    <2> SUFFICES ASSUME s.refund + x.refund \in Nat PROVE t \in State
      OBVIOUS
    <2>1. s.paid[c] + x.gas - Noop(f) - x.refund \in Int
      BY <1>1, <1>3, <1>4
    <2>2. t.current \in [Cell -> Val] /\ t.paid \in [Cell -> Int]
      BY <1>1, <1>2, <2>1
    <2> QED
      BY <1>1, <2>2 DEF State
  <1> HIDE DEF t
  <1>6. CASE f = "legacy"
    <2>1. s.refund + x.refund \in Nat
      BY <1>1, <1>3, <1>6, LegacyStep DEF Cost
    <2> QED
      BY <2>1, <1>5, <1>6 DEF Good, Covered, Metered, t
  <1>7. CASE f # "legacy"
    <2>1. x = Net(f, o[c], s.current[c], v)
      BY <1>7 DEF Cost
    <2>2. [current |-> t.current] \in [current : [Cell -> Val]]
      BY <1>1, <1>2
    <2>3. Cleared(o, [current |-> t.current]) = Cleared(o, t)
      BY DEF Cleared
    <2>4. s.refund + x.refund \in Nat /\ s.refund + x.refund >= Clear(f) * Cardinality(Cleared(o, t))
      BY <2>1, <2>2, <2>3, <1>2, <1>7, WriteCovered
    <2>5. Covered(f, o, t)
      BY <2>4, <1>2 DEF Covered
    <2>6. Metered(f, o, t)
      <3> SUFFICES ASSUME NEW e \in Cell PROVE t.paid[e] = NetPrice(f, o[e], t.current[e])
        BY DEF Metered
      <3>1. s.paid[e] = NetPrice(f, o[e], s.current[e])
        BY <1>7 DEF Good, Metered
      <3>2. CASE e # c
        BY <3>1, <3>2, <1>1, <1>2
      <3>3. CASE e = c
        <4>1. NetPrice(f, o[c], v) = NetPrice(f, o[c], s.current[c]) + x.gas - Noop(f) - x.refund
          BY <1>3, <1>7, <2>1, NetStep
        <4>2. t.paid[c] = s.paid[c] + x.gas - Noop(f) - x.refund /\ t.current[c] = v
          BY <1>1, <1>2
        <4> QED
          BY <3>1, <3>3, <4>1, <4>2
      <3> QED
        BY <3>2, <3>3
    <2> QED
      BY <2>4, <2>5, <2>6, <1>5 DEF Good, t
  <1> QED
    BY <1>6, <1>7

(* More refund, and another access list, change nothing.                   *)
LEMMA GoodSame ==
    ASSUME Words, NEW f \in Forks, NEW o \in [Cell -> Val], NEW s, Good(f, o, s), NEW t \in State,
           t.current = s.current, t.paid = s.paid, t.refund >= s.refund
    PROVE  Good(f, o, t)
  <1>1. s \in State /\ s.refund \in Nat /\ t.refund \in Nat
    BY DEF Good, State
  <1>2. Cleared(o, t) = Cleared(o, s)
    BY DEF Cleared
  <1>3. Cardinality(Cleared(o, s)) \in Nat
    BY FS_Subset, FS_CardinalityType DEF Words, Cleared
  <1>4. Clear(f) * Cardinality(Cleared(o, s)) \in Nat
    BY <1>3, ClearType
  <1>5. Covered(f, o, t)
    BY <1>1, <1>2, <1>4 DEF Good, Covered
  <1>6. Metered(f, o, t)
    BY DEF Good, Metered
  <1> QED
    BY <1>5, <1>6 DEF Good

LEMMA PreparedGood ==
    ASSUME Words, NEW f \in Forks, NEW o \in [Cell -> Val]
    PROVE  Good(f, o, Prepared(o))
  <1>1. Prepared(o) \in State /\ Prepared(o).current = o /\ Prepared(o).refund = 0
    BY DEF Prepared, State
  <1>2. Cleared(o, Prepared(o)) = {}
    BY <1>1 DEF Cleared
  <1>3. Covered(f, o, Prepared(o))
    BY <1>1, <1>2, ClearType, FS_EmptySet DEF Covered
  <1>4. Metered(f, o, Prepared(o))
    BY <1>1 DEF Metered, NetPrice, Prepared
  <1> QED
    BY <1>1, <1>3, <1>4 DEF Good

-----------------------------------------------------------------------------
(* IInv holds of a new transaction on any storage.                         *)
THEOREM InitIInv ==
    ASSUME Words PROVE Init => IInv
  <1> SUFFICES ASSUME Init PROVE IInv
    OBVIOUS
  <1>1. rules \in Forks /\ original \in [Cell -> Val] /\ frames = <<>> /\ panicked = FALSE
    BY DEF Init
  <1>2. Good(rules, original, st)
    BY <1>1, PreparedGood DEF Init
  <1>3. frames \in Seq(Frame) /\ DOMAIN frames = {}
    BY <1>1
  <1>4. Listed
    BY <1>3 DEF Listed
  <1> QED
    BY <1>1, <1>2, <1>3, <1>4 DEF IInv

(* A call is entered with a state that has its contract in the access list.*)
LEMMA PushIInv ==
    ASSUME Words, IInv, NEW a \in Contract, Good(rules, original, st'), frames' = Append(frames, [addr |-> a, saved |-> st']),
           UNCHANGED <<rules, original, panicked>>,
           Berlin(rules) => a \in st'.addrs /\ st.addrs \subseteq st'.addrs
    PROVE  IInv'
  <1> DEFINE fr == [addr |-> a, saved |-> st']
  <1>1. fr \in Frame
    BY DEF Good, Frame
  <1>2. frames \in Seq(Frame) /\ frames' = Append(frames, fr)
    BY DEF IInv
  <1>3. fr.addr = a /\ fr.saved = st'
    OBVIOUS
  <1> HIDE DEF fr
  <1>4. /\ frames' \in Seq(Frame) /\ DOMAIN frames' = 1 .. Len(frames) + 1 /\ DOMAIN frames = 1 .. Len(frames)
        /\ Len(frames) \in Nat
        /\ \A i \in 1 .. Len(frames) : frames'[i] = frames[i]
        /\ frames'[Len(frames) + 1] = fr
    BY <1>1, <1>2
  <1>5. \A i \in DOMAIN frames' : i \in DOMAIN frames \/ i = Len(frames) + 1
    BY <1>4
  <1>6. \A i \in DOMAIN frames' : Good(rules, original, frames'[i].saved)
    BY <1>3, <1>4, <1>5 DEF IInv
  <1>7. Listed'
    <2> SUFFICES ASSUME Berlin(rules), NEW i \in DOMAIN frames'
                 PROVE  /\ frames'[i].addr \in st'.addrs
                        /\ \A j \in DOMAIN frames' : i <= j => frames'[i].addr \in frames'[j].saved.addrs
      BY <1>2 DEF Listed
    <2>1. CASE i = Len(frames) + 1
      <3>1. \A j \in DOMAIN frames' : i <= j => j = i
        BY <2>1, <1>4
      <3> QED
        BY <3>1, <2>1, <1>3, <1>4
    <2>2. CASE i \in DOMAIN frames
      <3>1. frames'[i] = frames[i] /\ frames[i].addr \in st'.addrs
        BY <2>2, <1>4 DEF IInv, Listed
      <3>2. ASSUME NEW j \in DOMAIN frames', i <= j PROVE frames[i].addr \in frames'[j].saved.addrs
        <4>1. CASE j = Len(frames) + 1
          BY <3>1, <4>1, <1>3, <1>4
        <4>2. CASE j \in DOMAIN frames
          BY <3>2, <4>2, <2>2, <1>4 DEF IInv, Listed
        <4> QED
          BY <4>1, <4>2, <1>5
      <3> QED
        BY <3>1, <3>2
    <2> QED
      BY <2>1, <2>2, <1>5
  <1> QED
    BY <1>2, <1>4, <1>6, <1>7 DEF IInv

(* A call ends, with the state it leaves or with the one it saved.         *)
LEMMA PopIInv ==
    ASSUME Words, IInv, frames # <<>>, frames' = Pop, Good(rules, original, st'), UNCHANGED <<rules, original, panicked>>,
           Berlin(rules) => \A i \in DOMAIN frames : frames[i].addr \in st'.addrs
    PROVE  IInv'
  <1>1. frames \in Seq(Frame) /\ Len(frames) \in Nat /\ Len(frames) > 0 /\ DOMAIN frames = 1 .. Len(frames)
    BY DEF IInv
  <1>2. /\ frames' \in Seq(Frame) /\ DOMAIN frames' = 1 .. Len(frames) - 1
        /\ \A i \in DOMAIN frames' : i \in DOMAIN frames /\ frames'[i] = frames[i]
    BY <1>1 DEF Pop
  <1>3. \A i \in DOMAIN frames' : Good(rules, original, frames'[i].saved)
    BY <1>2 DEF IInv
  <1>4. Listed'
    BY <1>2 DEF Listed, IInv
  <1> QED
    BY <1>2, <1>3, <1>4 DEF IInv

LEMMA TopFacts ==
    ASSUME Words, IInv, frames # <<>>
    PROVE  /\ Len(frames) \in DOMAIN frames /\ Top \in Frame /\ Top.addr \in Contract /\ Good(rules, original, Top.saved)
           /\ Berlin(rules) => Top.addr \in st.addrs /\ \A i \in DOMAIN frames : frames[i].addr \in Top.saved.addrs
  <1>1. frames \in Seq(Frame) /\ Len(frames) \in DOMAIN frames /\ DOMAIN frames = 1 .. Len(frames) /\ Len(frames) \in Nat
    BY DEF IInv
  <1>2. Top \in Frame
    BY <1>1 DEF Top
  <1>3. \A i \in DOMAIN frames : i <= Len(frames)
    BY <1>1
  <1> QED
    BY <1>1, <1>2, <1>3 DEF IInv, Listed, Top, Frame

(* A state with a larger access list.                                      *)
LEMMA WarmedGood ==
    ASSUME Words, IInv, NEW a \in Contract
    PROVE  /\ Good(rules, original, Warmed(st, a)) /\ st.addrs \subseteq Warmed(st, a).addrs
           /\ Berlin(rules) => a \in Warmed(st, a).addrs
           /\ Warmed(st, a) \in State /\ Warmed(st, a).refund = st.refund /\ Warmed(st, a).suicided = st.suicided
  <1>1. st \in State /\ Good(rules, original, st) /\ rules \in Forks /\ original \in [Cell -> Val]
    BY DEF IInv, Good
  <1>2. /\ Warmed(st, a) \in State /\ Warmed(st, a).current = st.current /\ Warmed(st, a).paid = st.paid
        /\ Warmed(st, a).refund = st.refund /\ Warmed(st, a).suicided = st.suicided /\ st.addrs \subseteq Warmed(st, a).addrs
        /\ Berlin(rules) => a \in Warmed(st, a).addrs
    BY <1>1 DEF Warmed, State
  <1>3. st.refund \in Nat
    BY <1>1 DEF State
  <1>4. Good(rules, original, Warmed(st, a))
    BY <1>1, <1>2, <1>3, GoodSame
  <1> QED
    BY <1>2, <1>4

LEMMA EnterIInv ==
    ASSUME Words, IInv, NEW a \in Contract, NEW list \in SUBSET Cell, Enter(a, list)
    PROVE  IInv'
  <1> DEFINE s == [st EXCEPT !.slots = list, !.addrs = {c[1] : c \in list}]
  <1>1. st \in State /\ Good(rules, original, st) /\ rules \in Forks /\ original \in [Cell -> Val] /\ st.refund \in Nat
    BY DEF IInv, Good, State
  <1>2. {c[1] : c \in list} \in SUBSET Contract
    BY DEF Cell
  <1>3. /\ st' = Warmed(s, a) /\ st' \in State /\ st'.current = st.current /\ st'.paid = st.paid /\ st'.refund = st.refund
        /\ Berlin(rules) => a \in st'.addrs
    BY <1>1, <1>2 DEF Enter, Push, Warmed, State
  <1>4. Good(rules, original, st')
    BY <1>1, <1>3, GoodSame
  <1>5. frames = <<>> /\ frames' = <<[addr |-> a, saved |-> st']>> /\ UNCHANGED <<rules, original, panicked>>
    BY DEF Enter, Push
  <1>6. [addr |-> a, saved |-> st'] \in Frame
    BY <1>3 DEF Frame
  <1>7. /\ frames' \in Seq(Frame) /\ DOMAIN frames' = {1} /\ frames'[1].saved = st' /\ frames'[1].addr = a
    BY <1>5, <1>6
  <1>8. Listed'
    BY <1>3, <1>5, <1>7 DEF Listed
  <1> QED
    BY <1>4, <1>5, <1>7, <1>8 DEF IInv

LEMMA CallIInv ==
    ASSUME Words, IInv, NEW a \in Contract, Call(a) \/ DelegateCall(a)
    PROVE  IInv'
  <1>1. st' = Warmed(st, a) /\ UNCHANGED <<rules, original, panicked>> /\ frames # <<>>
    BY DEF Call, DelegateCall, Push
  <1>2. Good(rules, original, st') /\ st.addrs \subseteq st'.addrs /\ (Berlin(rules) => a \in st'.addrs)
    BY <1>1, WarmedGood
  <1>3. CASE Call(a)
    <2>1. frames' = Append(frames, [addr |-> a, saved |-> st'])
      BY <1>1, <1>3 DEF Call, Push
    <2> QED
      BY <2>1, <1>1, <1>2, PushIInv
  <1>4. CASE DelegateCall(a)
    <2>1. frames' = Append(frames, [addr |-> Top.addr, saved |-> st'])
      BY <1>1, <1>4 DEF DelegateCall, Push
    <2>2. Top.addr \in Contract /\ (Berlin(rules) => Top.addr \in st'.addrs)
      BY <1>1, <1>2, TopFacts
    <2> QED
      BY <2>1, <2>2, <1>1, <1>2, PushIInv
  <1> QED
    BY <1>3, <1>4

(* Steps inside a call leave the calls alone and only add to the list.     *)
LEMMA InsideIInv ==
    ASSUME Words, IInv, Good(rules, original, st'), st.addrs \subseteq st'.addrs, UNCHANGED <<rules, original, frames>>, panicked' = FALSE
    PROVE  IInv'
  <1>1. Listed'
    BY DEF IInv, Listed
  <1> QED
    BY <1>1 DEF IInv

LEMMA SLoadIInv ==
    ASSUME Words, IInv, NEW k \in Slot, SLoad(k)
    PROVE  IInv'
  <1>1. st \in State /\ Good(rules, original, st) /\ rules \in Forks /\ original \in [Cell -> Val] /\ st.refund \in Nat
    BY DEF IInv, Good, State
  <1>2. Top.addr \in Contract /\ <<Top.addr, k>> \in Cell
    BY TopFacts DEF SLoad, Cell
  <1>3. /\ st' \in State /\ st'.current = st.current /\ st'.paid = st.paid /\ st'.refund = st.refund
        /\ st.addrs \subseteq st'.addrs
    BY <1>1, <1>2 DEF SLoad, State
  <1>4. Good(rules, original, st')
    BY <1>1, <1>3, GoodSame
  <1>5. UNCHANGED <<rules, original, frames>> /\ panicked' = FALSE
    BY DEF SLoad, IInv
  <1> QED
    BY <1>3, <1>4, <1>5, InsideIInv

LEMMA SStoreIInv ==
    ASSUME Words, IInv, NEW k \in Slot, NEW v \in Val, SStore(k, v)
    PROVE  IInv'
  <1> DEFINE a == Top.addr
             c == <<a, k>>
             x == Cost(rules, original[c], st.current[c], v)
             short == st.refund < Taken(rules, original[c], st.current[c], v)
             cold == Berlin(rules) /\ c \notin st.slots
             sl == IF cold THEN st.slots \cup {c} ELSE st.slots
             ad == IF cold THEN st.addrs \cup {a} ELSE st.addrs
  <1>1. st \in State /\ Good(rules, original, st) /\ rules \in Forks /\ original \in [Cell -> Val]
    BY DEF IInv, Good
  <1>2. a \in Contract /\ c \in Cell /\ (Berlin(rules) => a \in st.addrs)
    BY TopFacts DEF SStore, Cell
  <1>3. sl \in SUBSET Cell /\ ad \in SUBSET Contract /\ st.addrs \subseteq ad
    BY <1>1, <1>2 DEF State
  <1>4. st' = [st EXCEPT !.current[c] = v, !.refund = @ + x.refund, !.slots = sl, !.addrs = ad,
                         !.paid[c] = @ + x.gas - Noop(rules) - x.refund]
    BY DEF SStore
  <1>5. panicked' = (panicked \/ short \/ (cold /\ a \notin st.addrs))
    BY DEF SStore
  <1>6. UNCHANGED <<rules, original, frames>> /\ panicked = FALSE
    BY DEF SStore, IInv
  <1>7. st'.addrs = ad
    BY <1>1, <1>4 DEF State
  <1>8. ~short
    BY <1>1, <1>2, TakenCovered
  <1>9. ~(cold /\ a \notin st.addrs)
    BY <1>2
  <1> HIDE DEF x, c, a, short, cold, sl, ad
  <1>10. Good(rules, original, st')
    BY <1>1, <1>2, <1>3, <1>4, WriteGood DEF x
  <1>11. panicked' = FALSE
    BY <1>5, <1>6, <1>8, <1>9, Zenon
  <1> QED
    BY <1>3, <1>6, <1>7, <1>10, <1>11, InsideIInv

LEMMA SelfdestructIInv ==
    ASSUME Words, IInv, NEW b \in Contract, Selfdestruct(b)
    PROVE  IInv'
  <1> DEFINE w == Warmed(st, b)
  <1>1. /\ Good(rules, original, w) /\ st.addrs \subseteq w.addrs /\ w \in State /\ rules \in Forks /\ original \in [Cell -> Val]
    BY WarmedGood DEF IInv
  <1>2. frames # <<>> /\ Top.addr \in Contract /\ frames' = Pop /\ UNCHANGED <<rules, original, panicked>>
    BY TopFacts DEF Selfdestruct
  <1>3. PICK r \in {w.refund, w.refund + SelfdestructRefundGas} :
            st' = [w EXCEPT !.refund = r, !.suicided = @ \cup {Top.addr}]
    BY <1>1 DEF Selfdestruct, State
  <1> HIDE DEF w
  <1>4. w.refund \in Nat /\ r \in Nat /\ r >= w.refund
    BY <1>1 DEF State, SelfdestructRefundGas
  <1>5. st' \in State /\ st'.current = w.current /\ st'.paid = w.paid /\ st'.refund = r /\ st'.addrs = w.addrs
    BY <1>1, <1>2, <1>3, <1>4 DEF State
  <1>6. Good(rules, original, st')
    BY <1>1, <1>4, <1>5, GoodSame
  <1>7. Berlin(rules) => \A i \in DOMAIN frames : frames[i].addr \in st'.addrs
    BY <1>1, <1>5 DEF IInv, Listed
  <1> QED
    BY <1>2, <1>6, <1>7, PopIInv

LEMMA EndTxIInv ==
    ASSUME Words, IInv, EndTx
    PROVE  IInv'
  <1> DEFINE left == [c \in Cell |-> IF c[1] \in st.suicided THEN 0 ELSE st.current[c]]
  <1>1. st \in State /\ rules \in Forks /\ frames = <<>> /\ panicked = FALSE
    BY DEF IInv, Good, EndTx
  <1>2. left \in [Cell -> Val]
    BY <1>1 DEF Words, State
  <1>3. original' = left /\ st' = Prepared(left) /\ UNCHANGED <<rules, frames, panicked>>
    BY DEF EndTx
  <1> HIDE DEF left
  <1>4. Good(rules', original', st')
    BY <1>1, <1>2, <1>3, PreparedGood
  <1>5. frames' \in Seq(Frame) /\ DOMAIN frames' = {}
    BY <1>1, <1>3
  <1>6. Listed'
    BY <1>5 DEF Listed
  <1> QED
    BY <1>1, <1>2, <1>3, <1>4, <1>5, <1>6 DEF IInv

(* Every operation of a call, its end and the end of the transaction keep  *)
(* IInv.                                                                   *)
THEOREM NextIInv ==
    ASSUME Words PROVE IInv /\ [Next]_vars => IInv'
  <1> SUFFICES ASSUME IInv, [Next]_vars PROVE IInv'
    OBVIOUS
  <1>1. ASSUME NEW a \in Contract, NEW list \in SUBSET Cell, Enter(a, list) PROVE IInv'
    BY <1>1, EnterIInv
  <1>2. ASSUME NEW a \in Contract, Call(a) \/ DelegateCall(a) PROVE IInv'
    BY <1>2, CallIInv
  <1>3. ASSUME NEW a \in Contract, Selfdestruct(a) PROVE IInv'
    BY <1>3, SelfdestructIInv
  <1>4. ASSUME NEW k \in Slot, SLoad(k) PROVE IInv'
    BY <1>4, SLoadIInv
  <1>5. ASSUME NEW k \in Slot, NEW v \in Val, SStore(k, v) PROVE IInv'
    BY <1>5, SStoreIInv
  <1>6. CASE Return
    <2>1. frames # <<>> /\ frames' = Pop /\ UNCHANGED <<rules, original, st, panicked>>
      BY <1>6 DEF Return
    <2>2. Good(rules, original, st') /\ (Berlin(rules) => \A i \in DOMAIN frames : frames[i].addr \in st'.addrs)
      BY <2>1 DEF IInv, Listed
    <2> QED
      BY <2>1, <2>2, PopIInv
  <1>7. CASE Revert
    <2>1. frames # <<>> /\ frames' = Pop /\ st' = Top.saved /\ UNCHANGED <<rules, original, panicked>>
      BY <1>7 DEF Revert
    <2>2. Good(rules, original, st') /\ (Berlin(rules) => \A i \in DOMAIN frames : frames[i].addr \in st'.addrs)
      BY <2>1, TopFacts
    <2> QED
      BY <2>1, <2>2, PopIInv
  <1>8. CASE EndTx
    BY <1>8, EndTxIInv
  <1>9. CASE UNCHANGED vars
    BY <1>9 DEF vars, IInv, Listed
  <1> QED
    BY <1>1, <1>2, <1>3, <1>4, <1>5, <1>6, <1>7, <1>8, <1>9 DEF Next

(* IInv holds always.                                                      *)
THEOREM Invariance ==
    ASSUME Words PROVE Spec => []IInv
  <1>1. Init => IInv
    BY InitIInv
  <1>2. IInv /\ [Next]_vars => IInv'
    BY NextIInv
  <1> QED
    BY <1>1, <1>2, PTL DEF Spec

(* Neither panic is reached: the counter covers what SubRefund takes, and  *)
(* the contract of a call is always in the access list.                    *)
THEOREM NeverPanics ==
    ASSUME Words PROVE Spec => []NoPanic
  <1>1. IInv => NoPanic
    BY DEF IInv, NoPanic
  <1>2. Spec => []IInv
    BY Invariance
  <1> QED
    BY <1>1, <1>2, PTL

(* A cell's price depends on its original and its current value only.      *)
THEOREM PriceIsNet ==
    ASSUME Words PROVE Spec => []NetMetering
  <1>1. IInv => NetMetering
    BY DEF IInv, Good, NetMetering
  <1>2. Spec => []IInv
    BY Invariance
  <1> QED
    BY <1>1, <1>2, PTL

(* The refund counter covers the cleared cells, in saved states too.       *)
THEOREM CounterCovers ==
    ASSUME Words PROVE Spec => []RefundCovers
  <1>1. IInv => RefundCovers
    BY DEF IInv, Good, RefundCovers
  <1>2. Spec => []IInv
    BY Invariance
  <1> QED
    BY <1>1, <1>2, PTL
=============================================================================
