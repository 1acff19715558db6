-------------------------- MODULE SubstateDBProofs --------------------------
(***************************************************************************)
(* Proofs about SubstateRLP and SubstateDB: reading a stored substate      *)
(* gives back what was stored, a substate of the DB is never without its   *)
(* codes, whatever the workers' order and wherever a crash cuts the        *)
(* journal, and the DB implements SubstateMap.                             *)
(***************************************************************************)
EXTENDS SubstateDB, SequenceTheorems, WellFoundedInduction, TLAPS

(* The codes of a substate, which PutSubstate puts.                        *)
Codes(s) == Range(s.input) \cup Range(s.output) \cup (IF s.msg.to = Nil THEN {s.msg.data} ELSE {})

-----------------------------------------------------------------------------
(* The encodings.                                                          *)

(* The fields of a substate have their types.                              *)
LEMMA SubstateFields ==
  ASSUME NEW s \in Substate
  PROVE  /\ s = [input |-> s.input, output |-> s.output, baseFee |-> s.baseFee, msg |-> s.msg]
         /\ s.msg = [to |-> s.msg.to, data |-> s.msg.data, price |-> s.msg.price,
                     list |-> s.msg.list, feeCap |-> s.msg.feeCap, tipCap |-> s.msg.tipCap]
         /\ s.msg \in Message /\ s.input \in Alloc /\ s.output \in Alloc
         /\ s.msg.data \in MaybeCode
BY DEF Substate, Message

(* AsRead, field by field.                                                 *)
LEMMA AsReadFields ==
  ASSUME NEW g, NEW s \in Substate
  PROVE  AsRead(g, s) = [input |-> s.input, output |-> s.output, baseFee |-> s.baseFee,
                         msg |-> [to |-> s.msg.to, data |-> s.msg.data, price |-> s.msg.price,
                                  list |-> IF g = "latest" THEN s.msg.list ELSE Nil,
                                  feeCap |-> s.msg.feeCap, tipCap |-> s.msg.tipCap]]
<1>1. CASE g = "latest"
  BY <1>1, SubstateFields DEF AsRead
<1>2. CASE g # "latest"
  <2> DEFINE m == [s.msg EXCEPT !.list = Nil]
  <2>1. m = [to |-> s.msg.to, data |-> s.msg.data, price |-> s.msg.price,
             list |-> Nil, feeCap |-> s.msg.feeCap, tipCap |-> s.msg.tipCap]
    BY DEF Substate, Message
  <2>2. AsRead(g, s) = [s EXCEPT !.msg = m]
    BY <1>2 DEF AsRead
  <2> HIDE DEF m
  <2>3. [s EXCEPT !.msg = m] = [input |-> s.input, output |-> s.output, baseFee |-> s.baseFee, msg |-> m]
    BY DEF Substate
  <2> QED
    BY <1>2, <2>1, <2>2, <2>3
<1> QED
  BY <1>1, <1>2

(* What setOldRLP replaces.                                                *)
LEMMA EnvAndMsg ==
  ASSUME NEW i, NEW o, NEW e, NEW m
  PROVE  setOldRLP([input |-> i, output |-> o, env |-> e, msg |-> m]) =
           [input |-> i, output |-> o, env |-> <<e[1], Nil>>,
            msg |-> <<m[1], m[2], m[3], m[4], Nil, m[1], m[1]>>]
<1> DEFINE v == [input |-> i, output |-> o, env |-> e, msg |-> m]
           f == <<e[1], Nil>>
           n == <<m[1], m[2], m[3], m[4], Nil, m[1], m[1]>>
           w == [v EXCEPT !.env = f]
<1>1. setOldRLP(v) = [w EXCEPT !.msg = n]
  BY DEF setOldRLP
<1> HIDE DEF f, n
<1>2. w = [input |-> i, output |-> o, env |-> f, msg |-> m]
  OBVIOUS
<1> HIDE DEF w
<1>3. [w EXCEPT !.msg = n] = [input |-> i, output |-> o, env |-> f, msg |-> n]
  BY <1>2
<1> QED
  BY <1>1, <1>3 DEF f, n

(* An allocation maps some addresses to codes.                             *)
LEMMA AllocFields ==
  ASSUME NEW m \in Alloc
  PROVE  /\ m = [a \in DOMAIN m |-> m[a]] /\ DOMAIN m \subseteq Addr
         /\ \A a \in DOMAIN m : m[a] \in MaybeCode
         /\ Range(m) = {m[a] : a \in DOMAIN m} /\ Range(m) \subseteq MaybeCode
BY DEF Alloc, Range

(* Whatever generation wrote a substate, the fallbacks of GetSubstate make *)
(* of it what this release would have written for AsRead.                  *)
LEMMA DecodeEncode ==
  ASSUME NEW g \in Generation, NEW s \in Substate, Recordable(g, s)
  PROVE  /\ Decodable(Encode(g, s))
         /\ DecodeRLP(Encode(g, s)) = NewSubstateRLP(AsRead(g, s))
<1> DEFINE v == Encode(g, s)
<1>1. CASE g = "latest"
  <2>1. v.env = <<"env", s.baseFee>> /\ Len(v.env) = 2
    BY <1>1 DEF Encode, EnvRLP
  <2>2. Len(v.msg) = 7
    BY <1>1 DEF Encode, MessageRLP
  <2>3. Fits(v, "latest")
    BY <2>1, <2>2 DEF Fits
  <2>4. AsRead(g, s) = s
    BY <1>1, SubstateFields, AsReadFields
  <2> QED
    BY <1>1, <2>3, <2>4 DEF Decodable, DecodeRLP, NewSubstateRLP
<1>2. CASE g = "berlin"
  <2>1. v.env = <<"env">> /\ Len(v.env) = 1
    BY <1>2 DEF Encode, EnvRLP
  <2>2. Len(v.msg) = 5
    BY <1>2 DEF Encode, MessageRLP
  <2>3. Fits(v, "berlin") /\ ~Fits(v, "latest")
    BY <2>1, <2>2 DEF Fits
  <2>4. setOldRLP(v) = NewSubstateRLP(AsRead(g, s))
    <3> DEFINE t == AsRead(g, s)
    <3>1. /\ t.input = s.input /\ t.output = s.output /\ t.baseFee = Nil /\ t.msg.to = s.msg.to
          /\ t.msg.data = s.msg.data /\ t.msg.price = s.msg.price /\ t.msg.list = Nil
          /\ t.msg.feeCap = s.msg.price /\ t.msg.tipCap = s.msg.price
      BY <1>2, AsReadFields DEF Recordable
    <3> HIDE DEF t
    <3>2. NewSubstateRLP(t) = [input |-> AllocRLP(s.input), output |-> AllocRLP(s.output), env |-> <<"env", Nil>>,
            msg |-> <<s.msg.price, s.msg.to, Data(s.msg), InitCodeHash(s.msg), Nil, s.msg.price, s.msg.price>>]
      BY <3>1 DEF NewSubstateRLP, Encode, EnvRLP, MessageRLP, Data, InitCodeHash
    <3>3. v = [input |-> AllocRLP(s.input), output |-> AllocRLP(s.output), env |-> <<"env">>, msg |-> MessageRLP(g, s.msg)]
      BY <1>2 DEF Encode, EnvRLP
    <3> DEFINE M == MessageRLP(g, s.msg)
    <3>4. /\ M[1] = s.msg.price /\ M[2] = s.msg.to /\ M[3] = Data(s.msg) /\ M[4] = InitCodeHash(s.msg)
      BY <1>2 DEF MessageRLP
    <3>5. setOldRLP([input |-> AllocRLP(s.input), output |-> AllocRLP(s.output), env |-> <<"env">>, msg |-> M]) =
            [input |-> AllocRLP(s.input), output |-> AllocRLP(s.output), env |-> <<<<"env">>[1], Nil>>,
             msg |-> <<M[1], M[2], M[3], M[4], Nil, M[1], M[1]>>]
      BY EnvAndMsg
    <3>6. <<"env">>[1] = "env"
      OBVIOUS
    <3> HIDE DEF v, M
    <3> QED
      BY <3>2, <3>3, <3>4, <3>5, <3>6 DEF t, M
  <2> QED
    BY <1>2, <2>3, <2>4 DEF Decodable, DecodeRLP
<1>3. CASE g = "legacy"
  <2>1. v.env = <<"env">> /\ Len(v.env) = 1
    BY <1>3 DEF Encode, EnvRLP
  <2>2. Len(v.msg) = 4
    BY <1>3 DEF Encode, MessageRLP
  <2>3. Fits(v, "legacy") /\ ~Fits(v, "latest")
    BY <2>1, <2>2 DEF Fits
  <2>4. setOldRLP(v) = NewSubstateRLP(AsRead(g, s))
    <3> DEFINE t == AsRead(g, s)
    <3>1. /\ t.input = s.input /\ t.output = s.output /\ t.baseFee = Nil /\ t.msg.to = s.msg.to
          /\ t.msg.data = s.msg.data /\ t.msg.price = s.msg.price /\ t.msg.list = Nil
          /\ t.msg.feeCap = s.msg.price /\ t.msg.tipCap = s.msg.price
      BY <1>3, AsReadFields DEF Recordable
    <3> HIDE DEF t
    <3>2. NewSubstateRLP(t) = [input |-> AllocRLP(s.input), output |-> AllocRLP(s.output), env |-> <<"env", Nil>>,
            msg |-> <<s.msg.price, s.msg.to, Data(s.msg), InitCodeHash(s.msg), Nil, s.msg.price, s.msg.price>>]
      BY <3>1 DEF NewSubstateRLP, Encode, EnvRLP, MessageRLP, Data, InitCodeHash
    <3>3. v = [input |-> AllocRLP(s.input), output |-> AllocRLP(s.output), env |-> <<"env">>, msg |-> MessageRLP(g, s.msg)]
      BY <1>3 DEF Encode, EnvRLP
    <3> DEFINE M == MessageRLP(g, s.msg)
    <3>4. /\ M[1] = s.msg.price /\ M[2] = s.msg.to /\ M[3] = Data(s.msg) /\ M[4] = InitCodeHash(s.msg)
      BY <1>3 DEF MessageRLP
    <3>5. setOldRLP([input |-> AllocRLP(s.input), output |-> AllocRLP(s.output), env |-> <<"env">>, msg |-> M]) =
            [input |-> AllocRLP(s.input), output |-> AllocRLP(s.output), env |-> <<<<"env">>[1], Nil>>,
             msg |-> <<M[1], M[2], M[3], M[4], Nil, M[1], M[1]>>]
      BY EnvAndMsg
    <3>6. <<"env">>[1] = "env"
      OBVIOUS
    <3> HIDE DEF v, M
    <3> QED
      BY <3>2, <3>3, <3>4, <3>5, <3>6 DEF t, M
  <2> QED
    BY <1>3, <2>3, <2>4 DEF Decodable, DecodeRLP
<1> QED
  BY <1>1, <1>2, <1>3 DEF Generation

(* A stored substate refers to the codes of the substate.                  *)
LEMMA HashesOfCodes ==
  ASSUME NEW s \in Substate
  PROVE  CodeHashes(NewSubstateRLP(s)) = {CodeHash(c) : c \in Codes(s)}
<1> DEFINE v == NewSubstateRLP(s)
<1>1. v.input = AllocRLP(s.input) /\ v.output = AllocRLP(s.output) /\ v.msg[4] = InitCodeHash(s.msg)
  BY DEF NewSubstateRLP, Encode, MessageRLP
<1>2. ASSUME NEW m \in Alloc PROVE Range(AllocRLP(m)) = {CodeHash(c) : c \in Range(m)}
  <2>1. Range(AllocRLP(m)) = {CodeHash(m[a]) : a \in DOMAIN m}
    BY DEF AllocRLP, Range
  <2>2. Range(m) = {m[a] : a \in DOMAIN m}
    BY AllocFields
  <2> QED
    BY <2>1, <2>2
<1>3. {InitCodeHash(s.msg)} \ {Nil} = {CodeHash(c) : c \in IF s.msg.to = Nil THEN {s.msg.data} ELSE {}}
  <2>1. s.msg.data \in MaybeCode /\ CodeHash(s.msg.data) # Nil
    BY SubstateFields, RLPAssumption
  <2>2. CASE s.msg.to = Nil
    BY <2>1, <2>2 DEF InitCodeHash
  <2>3. CASE s.msg.to # Nil
    BY <2>3 DEF InitCodeHash
  <2> QED
    BY <2>2, <2>3
<1>4. s.input \in Alloc /\ s.output \in Alloc
  BY SubstateFields
<1>5. Range(AllocRLP(s.input)) = {CodeHash(c) : c \in Range(s.input)}
  BY <1>2, <1>4
<1>6. Range(AllocRLP(s.output)) = {CodeHash(c) : c \in Range(s.output)}
  BY <1>2, <1>4
<1>7. CodeHashes(v) = Range(v.input) \cup Range(v.output) \cup ({v.msg[4]} \ {Nil})
  BY DEF CodeHashes
<1> QED
  BY <1>1, <1>3, <1>5, <1>6, <1>7 DEF Codes

(* Reading a stored substate with its codes gives the substate.            *)
LEMMA SetNew ==
  ASSUME NEW s \in Substate, NEW code, DOMAIN code = CodeHashes(NewSubstateRLP(s)),
         \A c \in Codes(s) : code[CodeHash(c)] = c
  PROVE  SetRLP(NewSubstateRLP(s), code) = s
<1> DEFINE v == NewSubstateRLP(s)
<1>1. /\ v.input = AllocRLP(s.input) /\ v.output = AllocRLP(s.output) /\ v.env[2] = s.baseFee
      /\ v.msg = <<s.msg.price, s.msg.to, Data(s.msg), InitCodeHash(s.msg), s.msg.list, s.msg.feeCap, s.msg.tipCap>>
  BY DEF NewSubstateRLP, Encode, MessageRLP, EnvRLP
<1>2. Codes(s) \subseteq MaybeCode
  <2>1. s.input \in Alloc /\ s.output \in Alloc /\ s.msg.data \in MaybeCode
    BY SubstateFields
  <2>2. Range(s.input) \subseteq MaybeCode /\ Range(s.output) \subseteq MaybeCode
    BY <2>1, AllocFields
  <2> QED
    BY <2>1, <2>2 DEF Codes
<1>3. Panic \notin Range(code)
  BY <1>2, HashesOfCodes, RLPAssumption DEF Range
<1>4. [a \in DOMAIN v.input |-> code[v.input[a]]] = s.input
  <2>1. s.input \in Alloc
    BY SubstateFields
  <2>2. \A a \in DOMAIN s.input : s.input[a] \in Codes(s)
    BY <2>1, AllocFields DEF Codes
  <2>3. v.input = [a \in DOMAIN s.input |-> CodeHash(s.input[a])]
    BY <1>1 DEF AllocRLP
  <2>4. s.input = [a \in DOMAIN s.input |-> s.input[a]]
    BY <2>1, AllocFields
  <2> HIDE DEF v
  <2>5. DOMAIN v.input = DOMAIN s.input /\ \A a \in DOMAIN s.input : code[v.input[a]] = s.input[a]
    BY <2>2, <2>3
  <2> QED
    BY <2>4, <2>5
<1>5. [a \in DOMAIN v.output |-> code[v.output[a]]] = s.output
  <2>1. s.output \in Alloc
    BY SubstateFields
  <2>2. \A a \in DOMAIN s.output : s.output[a] \in Codes(s)
    BY <2>1, AllocFields DEF Codes
  <2>3. v.output = [a \in DOMAIN s.output |-> CodeHash(s.output[a])]
    BY <1>1 DEF AllocRLP
  <2>4. s.output = [a \in DOMAIN s.output |-> s.output[a]]
    BY <2>1, AllocFields
  <2> HIDE DEF v
  <2>5. DOMAIN v.output = DOMAIN s.output /\ \A a \in DOMAIN s.output : code[v.output[a]] = s.output[a]
    BY <2>2, <2>3
  <2> QED
    BY <2>4, <2>5
<1>6. (IF v.msg[2] = Nil THEN code[v.msg[4]] ELSE v.msg[3]) = s.msg.data
  BY <1>1 DEF Data, InitCodeHash, Codes
<1>7. [to |-> v.msg[2], price |-> v.msg[1], data |-> IF v.msg[2] = Nil THEN code[v.msg[4]] ELSE v.msg[3],
       list |-> v.msg[5], feeCap |-> v.msg[6], tipCap |-> v.msg[7]] = s.msg
  BY <1>1, <1>6, SubstateFields
<1> HIDE DEF v
<1>8. SetRLP(v, code) = [input |-> s.input, output |-> s.output, baseFee |-> s.baseFee, msg |-> s.msg]
  BY <1>1, <1>3, <1>4, <1>5, <1>7 DEF SetRLP
<1> QED
  BY <1>8, SubstateFields DEF v

(* Reading the source gives what was recorded, but for the access list of  *)
(* a record from before London: setBerlinRLP and setLegacyRLP drop it.     *)
LEMMA DecodedIsAsRead ==
  ASSUME src \in Sources, NEW k \in Key
  PROVE  /\ Decoded(k) = AsRead(src[k].gen, src[k].sub) /\ Decoded(k) \in Substate
         /\ Codes(Decoded(k)) \subseteq MaybeCode
<1> DEFINE g == src[k].gen
           s == src[k].sub
           t == AsRead(g, s)
<1>1. g \in Generation /\ s \in Substate /\ Recordable(g, s)
  BY SourceAssumption
<1>2. t \in Substate
  <2>1. (IF g = "latest" THEN s.msg.list ELSE Nil) \in List \cup {Nil}
    BY <1>1 DEF Substate, Message
  <2> QED
    BY <1>1, <2>1, AsReadFields DEF Substate, Message
<1>3. DecodeRLP(Encode(g, s)) = NewSubstateRLP(t)
  BY <1>1, DecodeEncode
<1> HIDE DEF t
<1>4. Codes(t) \subseteq MaybeCode
  BY <1>2, SubstateFields, AllocFields DEF Codes
<1>5. \A c \in MaybeCode : SourceCode(CodeHash(c)) = c
  BY RLPAssumption DEF SourceCode
<1> DEFINE code == [h \in CodeHashes(NewSubstateRLP(t)) |-> SourceCode(h)]
<1>6. \A c \in Codes(t) : code[CodeHash(c)] = c
  BY <1>2, <1>4, <1>5, HashesOfCodes
<1>7. SetRLP(NewSubstateRLP(t), code) = t
  <2> HIDE DEF code
  <2>1. DOMAIN code = CodeHashes(NewSubstateRLP(t))
    BY DEF code
  <2> QED
    BY <1>2, <1>6, <2>1, SetNew
<1>8. Decoded(k) = SetRLP(NewSubstateRLP(t), code)
  BY <1>3 DEF Decoded
<1> QED
  BY <1>2, <1>4, <1>7, <1>8 DEF t

(* A get finds a put when there is one.                                    *)
LEMMA LastIsThere ==
  ASSUME NEW n \in Nat, NEW S \in SUBSET (1 .. n), S # {}
  PROVE  Last(S) \in S
<1> DEFINE T == {n - i : i \in S}
           R == {p \in Nat \X Nat : p[1] < p[2]}
<1>0. T \subseteq Nat /\ T # {}
  OBVIOUS
<1>1. IsWellFoundedOn(R, Nat)
  BY NatLessThanWellFounded DEF OpToRel
<1>2. PICK x \in T : \A y \in T : ~(<<y, x>> \in R)
  <2> HIDE DEF T, R
  <2> QED
    BY <1>0, <1>1, WFMin
<1>3. ASSUME NEW y \in T PROVE ~(y < x)
  <2>1. x \in Nat /\ y \in Nat /\ <<y, x>> \notin R
    BY <1>0, <1>2, Zenon
  <2>2. <<y, x>> \in Nat \X Nat /\ <<y, x>>[1] = y /\ <<y, x>>[2] = x
    BY <2>1
  <2> QED
    BY <2>1, <2>2
<1>4. PICK i \in S : x = n - i
  BY <1>2
<1>5. \A j \in S : j <= i
  BY <1>3, <1>4
<1> QED
  BY <1>5 DEF Last

-----------------------------------------------------------------------------
(* The inductive invariant.                                                *)

(* The puts that a worker makes.                                           *)
SubPut(k) == [key |-> SubstateKey(k), value |-> NewSubstateRLP(Decoded(k))]
CodePut(c) == [key |-> CodeKey(CodeHash(c)), value |-> c]
PutSet == {SubPut(k) : k \in Key} \cup {CodePut(c) : c \in Code}

Written(p) == \E j \in 1 .. Len(db) : db[j] = p
NonEmpty(k) == Codes(Decoded(k)) \ {Empty}

(* In the journal every substate comes after its codes, so any prefix of   *)
(* the journal has the codes of its substates.                             *)
JournalInv ==
    /\ db \in Seq(PutSet)
    /\ \A i \in 1 .. Len(db), k \in Key : db[i] = SubPut(k) =>
          \A c \in NonEmpty(k) : \E j \in 1 .. i - 1 : db[j] = CodePut(c)

(* A worker has put the codes of its substate that it has not still to put.*)
Groups == [1 .. 3 -> SUBSET Code]
JobOf(k, r) == [key |-> k, sub |-> Decoded(k), rest |-> r]

JobInv ==
    /\ job \in [Worker -> {Idle} \cup {JobOf(k, r) : k \in Key, r \in Groups}]
    /\ \A w \in Worker, k \in Key, r \in Groups : job[w] = JobOf(k, r) =>
          \A c \in NonEmpty(k) : Written(CodePut(c)) \/ \E i \in 1 .. 3 : c \in r[i]

(* No key is forgotten.                                                    *)
TodoInv ==
    /\ \A k \in Key : k \in todo \/ Written(SubPut(k)) \/ \E w \in Worker : job[w] # Idle /\ job[w].key = k
    /\ done \in BOOLEAN /\ (done => \A k \in Key : Written(SubPut(k)))

DBInv == src \in Sources /\ JournalInv /\ JobInv /\ TodoInv

-----------------------------------------------------------------------------
(* The source is never written: what a step puts is what it is meant to.   *)
LEMMA SameSource ==
  ASSUME src' = src
  PROVE  /\ \A k : Decoded(k)' = Decoded(k)
         /\ \A k : SubPut(k)' = SubPut(k)
         /\ \A c : CodePut(c)' = CodePut(c)
         /\ PutSet' = PutSet
         /\ \A k : NonEmpty(k)' = NonEmpty(k)
         /\ \A k, r : JobOf(k, r)' = JobOf(k, r)
<1>1. ASSUME NEW k PROVE Decoded(k)' = Decoded(k)
  BY DEF Decoded
<1>2. ASSUME NEW k PROVE SubPut(k)' = SubPut(k)
  BY <1>1 DEF SubPut
<1>3. \A c : CodePut(c)' = CodePut(c)
  BY DEF CodePut
<1>4. PutSet' = PutSet
  BY <1>2, <1>3 DEF PutSet
<1>5. ASSUME NEW k PROVE NonEmpty(k)' = NonEmpty(k)
  BY <1>1 DEF NonEmpty
<1>6. ASSUME NEW k, NEW r PROVE JobOf(k, r)' = JobOf(k, r)
  BY <1>1 DEF JobOf
<1> QED
  BY <1>1, <1>2, <1>3, <1>4, <1>5, <1>6

(* A put is for a substate or for a code.                                  *)
LEMMA PutKinds ==
  /\ \A k, c : SubPut(k) # CodePut(c)
  /\ \A k, l : SubPut(k).key = SubstateKey(l) => k = l
  /\ \A k, h : SubPut(k).key # CodeKey(h)
  /\ \A c, k : CodePut(c).key # SubstateKey(k)
  /\ \A c \in MaybeCode, d \in MaybeCode : CodePut(c).key = CodeKey(CodeHash(d)) => c = d
<1>1. \A k, c : SubPut(k).key = <<"1s", k>> /\ CodePut(c).key = <<"1c", CodeHash(c)>>
  BY DEF SubPut, CodePut, SubstateKey, CodeKey
<1>2. \A x, y, u, v : <<x, y>> = <<u, v>> => x = u /\ y = v
  OBVIOUS
<1>3. "1s" # "1c"
  OBVIOUS
<1>4. \A k, l : SubPut(k).key = SubstateKey(l) => k = l
  BY <1>1, <1>2 DEF SubstateKey
<1>5. \A k, h : SubPut(k).key # CodeKey(h)
  BY <1>1, <1>2, <1>3 DEF CodeKey
<1>6. \A c, k : CodePut(c).key # SubstateKey(k)
  BY <1>1, <1>2, <1>3 DEF SubstateKey
<1>7. \A c \in MaybeCode, d \in MaybeCode : CodePut(c).key = CodeKey(CodeHash(d)) => c = d
  BY <1>1, <1>2, RLPAssumption DEF CodeKey
<1>8. \A k, c : SubPut(k) # CodePut(c)
  BY <1>1, <1>2, <1>3
<1> QED
  BY <1>4, <1>5, <1>6, <1>7, <1>8

(* What a put adds to the journal.                                         *)
LEMMA Grows ==
  ASSUME db \in Seq(PutSet), NEW p \in PutSet, db' = Append(db, p)
  PROVE  /\ db' \in Seq(PutSet) /\ Len(db) \in Nat /\ Len(db') = Len(db) + 1 /\ db'[Len(db) + 1] = p
         /\ \A j \in 1 .. Len(db) : db'[j] = db[j]
         /\ (\E j \in 1 .. Len(db') : db'[j] = p)
         /\ \A q : Written(q) => \E j \in 1 .. Len(db') : db'[j] = q
<1>1. /\ db' \in Seq(PutSet) /\ Len(db) \in Nat /\ Len(db') = Len(db) + 1 /\ db'[Len(db) + 1] = p
      /\ \A j \in 1 .. Len(db) : db'[j] = db[j]
  BY AppendProperties
<1>2. 1 .. Len(db) \subseteq 1 .. Len(db') /\ Len(db) + 1 \in 1 .. Len(db')
  BY <1>1
<1> QED
  BY <1>1, <1>2 DEF Written

(* What a crash leaves of the journal.                                     *)
LEMMA Shrinks ==
  ASSUME db \in Seq(PutSet), NEW n \in 0 .. Len(db), db' = SubSeq(db, 1, n)
  PROVE  /\ db' \in Seq(PutSet) /\ Len(db) \in Nat /\ Len(db') = n /\ n \in Nat
         /\ 1 .. n \subseteq 1 .. Len(db)
         /\ \A j \in 1 .. n : db'[j] = db[j]
<1>1. Len(db) \in Nat /\ n \in Nat /\ 1 .. n \subseteq 1 .. Len(db)
  OBVIOUS
<1> QED
  BY <1>1, SubSeqProperties

-----------------------------------------------------------------------------
(* The steps.                                                              *)

(* A busy worker writes the substate of some key.                          *)
LEMMA BusyJob ==
  ASSUME JobInv, NEW w \in Worker, job[w] # Idle
  PROVE  \E k \in Key, r \in Groups :
            /\ job[w] = JobOf(k, r) /\ job[w].key = k /\ job[w].sub = Decoded(k) /\ job[w].rest = r
            /\ DOMAIN r = 1 .. 3
            /\ \A c \in NonEmpty(k) : Written(CodePut(c)) \/ \E i \in 1 .. 3 : c \in r[i]
<1>1. PICK k \in Key, r \in Groups : job[w] = JobOf(k, r)
  BY DEF JobInv
<1> QED
  BY <1>1 DEF JobInv, JobOf, Groups

(* A job is not Idle: it has three groups of codes.                        *)
LEMMA JobIsBusy ==
  ASSUME NEW k, NEW r \in Groups
  PROVE  JobOf(k, r) # Idle /\ JobOf(k, r).key = k
<1>1. Idle.rest = <<>> /\ JobOf(k, r).rest = r /\ JobOf(k, r).key = k
  BY DEF Idle, JobOf
<1>2. DOMAIN r = 1 .. 3 /\ 1 \in DOMAIN r /\ DOMAIN (<<>>) = {}
  BY DEF Groups
<1> QED
  BY <1>1, <1>2

(* PutSubstate starts with all codes of the substate still to put.         *)
LEMMA CodesToPutAll ==
  ASSUME src \in Sources, NEW k \in Key
  PROVE  /\ CodesToPut(Decoded(k)) \in Groups
         /\ \A c \in NonEmpty(k) : \E i \in 1 .. 3 : c \in CodesToPut(Decoded(k))[i]
<1> DEFINE s == Decoded(k)
           A == Range(s.input) \ {Empty}
           B == Range(s.output) \ {Empty}
           C == IF s.msg.to = Nil THEN {s.msg.data} \ {Empty} ELSE {}
<1>1. A \cup B \cup C = NonEmpty(k)
  BY DEF NonEmpty, Codes
<1>2. NonEmpty(k) \subseteq Code
  BY DecodedIsAsRead DEF NonEmpty, MaybeCode
<1>3. CodesToPut(s) = <<A, B, C>>
  BY DEF CodesToPut
<1> HIDE DEF A, B, C
<1>4. A \subseteq Code /\ B \subseteq Code /\ C \subseteq Code
  BY <1>1, <1>2
<1>5. <<A, B, C>> \in [1 .. 3 -> SUBSET Code]
  BY <1>4
<1>6. <<A, B, C>>[1] = A /\ <<A, B, C>>[2] = B /\ <<A, B, C>>[3] = C
  OBVIOUS
<1>7. \A c \in NonEmpty(k) : \E i \in 1 .. 3 : c \in <<A, B, C>>[i]
  BY <1>1, <1>6
<1> QED
  BY <1>3, <1>5, <1>7 DEF Groups

(* A worker takes a key.                                                   *)
LEMMA TakeKeeps ==
  ASSUME DBInv, NEW w \in Worker, NEW k \in Key, Take(w, k)
  PROVE  DBInv'
<1> DEFINE r == CodesToPut(Decoded(k))
<1>1. /\ UNCHANGED <<src, db, done>> /\ todo' = todo \ {k} /\ job' = [job EXCEPT ![w] = JobOf(k, r)]
      /\ job[w] = Idle
  BY DEF Take, JobOf
<1>2. r \in Groups /\ \A c \in NonEmpty(k) : \E i \in 1 .. 3 : c \in r[i]
  BY CodesToPutAll DEF DBInv
<1> HIDE DEF r
<1>3. \A q : Written(q)' <=> Written(q)
  BY <1>1 DEF Written
<1>4. JournalInv'
  BY <1>1, SameSource DEF DBInv, JournalInv
<1>5. JobInv'
  <2>1. job' \in [Worker -> {Idle} \cup {JobOf(l, q) : l \in Key, q \in Groups}]
    BY <1>1, <1>2 DEF DBInv, JobInv
  <2>2. ASSUME NEW v \in Worker, NEW l \in Key, NEW q \in Groups, job'[v] = JobOf(l, q), NEW c \in NonEmpty(l)
        PROVE  Written(CodePut(c)) \/ \E i \in 1 .. 3 : c \in q[i]
    <3>1. CASE v = w
      <4>1. JobOf(k, r) = JobOf(l, q)
        BY <1>1, <2>2, <3>1 DEF DBInv, JobInv
      <4>2. k = l /\ r = q
        BY <4>1 DEF JobOf
      <4> QED
        BY <1>2, <2>2, <4>2
    <3>2. CASE v # w
      BY <1>1, <2>2, <3>2 DEF DBInv, JobInv
    <3> QED
      BY <3>1, <3>2
  <2> QED
    BY <1>1, <1>3, <2>1, <2>2, SameSource DEF JobInv, Groups
<1>6. TodoInv'
  <2>1. ASSUME NEW l \in Key
        PROVE  l \in todo' \/ Written(SubPut(l)) \/ \E v \in Worker : job'[v] # Idle /\ job'[v].key = l
    <3>1. CASE l = k
      BY <1>1, <1>2, <3>1, JobIsBusy DEF DBInv, JobInv
    <3>2. CASE l # k
      BY <1>1, <3>2 DEF DBInv, TodoInv, JobInv
    <3> QED
      BY <3>1, <3>2
  <2> QED
    BY <1>1, <1>3, <2>1, SameSource DEF DBInv, TodoInv, Idle
<1> QED
  BY <1>1, <1>4, <1>5, <1>6 DEF DBInv

(* A worker puts a code; codes never follow the substates that need them.  *)
LEMMA PutCodeKeeps ==
  ASSUME DBInv, NEW w \in Worker, NEW c \in Code, PutCode(w, c)
  PROVE  DBInv'
<1>1. PICK k \in Key, r \in Groups :
         /\ job[w] = JobOf(k, r) /\ job[w].rest = r /\ DOMAIN r = 1 .. 3
         /\ \A d \in NonEmpty(k) : Written(CodePut(d)) \/ \E i \in 1 .. 3 : d \in r[i]
  BY BusyJob DEF PutCode, DBInv
<1>2. PICK i \in 1 .. 3 : job' = [job EXCEPT ![w].rest[i] = @ \ {c}]
  BY <1>1 DEF PutCode
<1> DEFINE q == [r EXCEPT ![i] = @ \ {c}]
<1>3. q \in Groups /\ \A j \in 1 .. 3 : q[j] = IF j = i THEN r[j] \ {c} ELSE r[j]
  BY <1>1 DEF Groups
<1>4. job' = [job EXCEPT ![w] = JobOf(k, q)]
  <2>1. job' = [job EXCEPT ![w] = [job[w] EXCEPT !.rest = q]]
    BY <1>1, <1>2
  <2>2. [JobOf(k, r) EXCEPT !.rest = q] = JobOf(k, q)
    BY DEF JobOf
  <2> QED
    BY <1>1, <2>1, <2>2
<1> HIDE DEF q
<1>5. UNCHANGED <<src, todo, done>> /\ db' = Append(db, CodePut(c)) /\ CodePut(c) \in PutSet
  BY DEF PutCode, CodePut, PutSet
<1>6. db \in Seq(PutSet)
  BY DEF DBInv, JournalInv
<1>7. /\ db' \in Seq(PutSet) /\ Len(db) \in Nat /\ Len(db') = Len(db) + 1 /\ db'[Len(db) + 1] = CodePut(c)
      /\ \A j \in 1 .. Len(db) : db'[j] = db[j]
      /\ Written(CodePut(c))' /\ \A p : Written(p) => Written(p)'
  BY <1>5, <1>6, Grows, SameSource DEF Written
<1>8. JournalInv'
  <2>1. ASSUME NEW j \in 1 .. Len(db'), NEW l \in Key, db'[j] = SubPut(l), NEW d \in NonEmpty(l)
        PROVE  \E n \in 1 .. j - 1 : db'[n] = CodePut(d)
    <3>1. j \in 1 .. Len(db)
      BY <1>7, <2>1, PutKinds
    <3>2. PICK n \in 1 .. j - 1 : db[n] = CodePut(d)
      BY <1>7, <2>1, <3>1 DEF DBInv, JournalInv
    <3> QED
      BY <1>7, <3>1, <3>2
  <2> QED
    BY <1>5, <1>7, <2>1, SameSource DEF JournalInv
<1>9. JobInv'
  <2>1. job' \in [Worker -> {Idle} \cup {JobOf(l, x) : l \in Key, x \in Groups}]
    BY <1>3, <1>4 DEF DBInv, JobInv
  <2>2. ASSUME NEW v \in Worker, NEW l \in Key, NEW x \in Groups, job'[v] = JobOf(l, x), NEW d \in NonEmpty(l)
        PROVE  Written(CodePut(d))' \/ \E j \in 1 .. 3 : d \in x[j]
    <3>1. CASE v = w
      <4>1. JobOf(k, q) = JobOf(l, x)
        BY <1>4, <2>2, <3>1 DEF DBInv, JobInv
      <4>2. k = l /\ q = x
        BY <4>1 DEF JobOf
      <4> QED
        BY <1>1, <1>3, <1>7, <2>2, <4>2
    <3>2. CASE v # w
      <4>1. job[v] = JobOf(l, x)
        BY <1>4, <2>2, <3>2 DEF DBInv, JobInv
      <4>2. Written(CodePut(d)) \/ \E j \in 1 .. 3 : d \in x[j]
        BY <2>2, <4>1 DEF DBInv, JobInv
      <4> QED
        BY <1>7, <4>2
    <3> QED
      BY <3>1, <3>2
  <2> QED
    BY <1>5, <2>1, <2>2, SameSource DEF JobInv, Groups, Written
<1>10. TodoInv'
  <2>1. \A v \in Worker : (job'[v] # Idle <=> job[v] # Idle) /\ job'[v].key = job[v].key
    BY <1>1, <1>3, <1>4, JobIsBusy DEF DBInv, JobInv
  <2>2. \A p : Written(p) => Written(p)'
    BY <1>7
  <2> QED
    BY <1>5, <2>1, <2>2, SameSource DEF DBInv, TodoInv, Idle, Written
<1> QED
  BY <1>5, <1>8, <1>9, <1>10 DEF DBInv

(* A worker puts its substate, when all its codes are in the journal.      *)
LEMMA PutSubstateKeeps ==
  ASSUME DBInv, NEW w \in Worker, PutSubstate(w)
  PROVE  DBInv' /\ \E k \in Key : db' = Append(db, SubPut(k))
<1>1. PICK k \in Key, r \in Groups :
         /\ job[w] = JobOf(k, r) /\ job[w].key = k /\ job[w].sub = Decoded(k) /\ job[w].rest = r
         /\ DOMAIN r = 1 .. 3
         /\ \A d \in NonEmpty(k) : Written(CodePut(d)) \/ \E i \in 1 .. 3 : d \in r[i]
  BY BusyJob DEF PutSubstate, DBInv
<1>2. \A d \in NonEmpty(k) : Written(CodePut(d))
  BY <1>1 DEF PutSubstate, AllPut
<1>3. UNCHANGED <<src, todo, done>> /\ db' = Append(db, SubPut(k)) /\ SubPut(k) \in PutSet
  BY <1>1 DEF PutSubstate, SubPut, PutSet
<1>4. job' = [job EXCEPT ![w] = Idle]
  BY DEF PutSubstate
<1>5. db \in Seq(PutSet)
  BY DEF DBInv, JournalInv
<1>6. /\ db' \in Seq(PutSet) /\ Len(db) \in Nat /\ Len(db') = Len(db) + 1 /\ db'[Len(db) + 1] = SubPut(k)
      /\ \A j \in 1 .. Len(db) : db'[j] = db[j]
      /\ (\E j \in 1 .. Len(db') : db'[j] = SubPut(k)) /\ \A p : Written(p) => Written(p)'
  BY <1>3, <1>5, Grows DEF Written
<1>7. JournalInv'
  <2>1. ASSUME NEW j \in 1 .. Len(db'), NEW l \in Key, db'[j] = SubPut(l), NEW d \in NonEmpty(l)
        PROVE  \E n \in 1 .. j - 1 : db'[n] = CodePut(d)
    <3>1. CASE j \in 1 .. Len(db)
      <4>1. PICK n \in 1 .. j - 1 : db[n] = CodePut(d)
        BY <1>6, <2>1, <3>1 DEF DBInv, JournalInv
      <4> QED
        BY <1>6, <3>1, <4>1
    <3>2. CASE j = Len(db) + 1
      <4>1. SubPut(k) = SubPut(l)
        BY <1>6, <2>1, <3>2
      <4>2. k = l
        BY <4>1, PutKinds DEF SubPut
      <4>3. PICK n \in 1 .. Len(db) : db[n] = CodePut(d)
        BY <1>2, <2>1, <4>2 DEF Written
      <4> QED
        BY <1>6, <3>2, <4>3
    <3> QED
      BY <1>6, <3>1, <3>2
  <2> QED
    BY <1>3, <1>6, <2>1, SameSource DEF JournalInv
<1>8. JobInv'
  <2>1. job' \in [Worker -> {Idle} \cup {JobOf(l, x) : l \in Key, x \in Groups}]
    BY <1>4 DEF DBInv, JobInv
  <2>2. ASSUME NEW v \in Worker, NEW l \in Key, NEW x \in Groups, job'[v] = JobOf(l, x), NEW d \in NonEmpty(l)
        PROVE  Written(CodePut(d))' \/ \E j \in 1 .. 3 : d \in x[j]
    <3>1. job[v] = JobOf(l, x)
      BY <1>4, <2>2, JobIsBusy DEF DBInv, JobInv
    <3>2. Written(CodePut(d)) \/ \E j \in 1 .. 3 : d \in x[j]
      BY <2>2, <3>1 DEF DBInv, JobInv
    <3> QED
      BY <1>6, <3>2
  <2> QED
    BY <1>3, <2>1, <2>2, SameSource DEF JobInv, Groups, Written
<1>9. TodoInv'
  <2>1. ASSUME NEW l \in Key
        PROVE  l \in todo \/ (\E j \in 1 .. Len(db') : db'[j] = SubPut(l)) \/ \E v \in Worker : job'[v] # Idle /\ job'[v].key = l
    <3>1. CASE l = k
      BY <1>6, <3>1
    <3>2. CASE l # k
      <4>1. l \in todo \/ Written(SubPut(l)) \/ \E v \in Worker : job[v] # Idle /\ job[v].key = l
        BY DEF DBInv, TodoInv
      <4>2. CASE Written(SubPut(l))
        BY <1>3, <1>5, <4>2, Grows
      <4>3. ASSUME NEW v \in Worker, job[v] # Idle, job[v].key = l
            PROVE  job'[v] # Idle /\ job'[v].key = l
        BY <1>1, <1>4, <3>2, <4>3 DEF DBInv, JobInv
      <4> QED
        BY <4>1, <4>2, <4>3
    <3> QED
      BY <3>1, <3>2
  <2>2. ~done
    BY DEF PutSubstate
  <2> QED
    BY <1>3, <2>1, <2>2, SameSource DEF DBInv, TodoInv, Idle, Written
<1> QED
  BY <1>3, <1>7, <1>8, <1>9 DEF DBInv

(* The machine crashes: a prefix of the journal is left.                   *)
LEMMA CrashKeeps ==
  ASSUME DBInv, Crash
  PROVE  DBInv' /\ \A p : Written(p)' => Written(p)
<1>1. PICK n \in 0 .. Len(db) : db' = SubSeq(db, 1, n)
  BY DEF Crash
<1>2. /\ db' \in Seq(PutSet) /\ Len(db) \in Nat /\ Len(db') = n /\ n \in Nat
      /\ 1 .. n \subseteq 1 .. Len(db) /\ \A j \in 1 .. n : db'[j] = db[j]
  BY <1>1, Shrinks DEF DBInv, JournalInv
<1>3. src' = src /\ done' = done /\ ~done /\ todo' = Key /\ job' = [w \in Worker |-> Idle]
  BY DEF Crash
<1>4. JournalInv'
  <2>1. ASSUME NEW j \in 1 .. Len(db'), NEW l \in Key, db'[j] = SubPut(l), NEW d \in NonEmpty(l)
        PROVE  \E m \in 1 .. j - 1 : db'[m] = CodePut(d)
    <3>1. j \in 1 .. Len(db) /\ db[j] = SubPut(l)
      BY <1>2, <2>1
    <3>2. PICK m \in 1 .. j - 1 : db[m] = CodePut(d)
      BY <2>1, <3>1 DEF DBInv, JournalInv
    <3> QED
      BY <1>2, <2>1, <3>2
  <2> QED
    BY <1>2, <1>3, <2>1, SameSource DEF JournalInv
<1>5. JobInv'
  BY <1>3, SameSource, JobIsBusy DEF JobInv, Idle, Groups
<1>6. TodoInv'
  BY <1>3 DEF DBInv, TodoInv
<1>7. \A p : Written(p)' => Written(p)
  BY <1>2 DEF Written
<1> QED
  BY <1>3, <1>4, <1>5, <1>6, <1>7 DEF DBInv

(* The command returns.                                                    *)
LEMMA ReturnKeeps ==
  ASSUME DBInv, Return
  PROVE  DBInv' /\ \A k \in Key : Written(SubPut(k))
<1>1. UNCHANGED <<src, db, todo, job>> /\ todo = {} /\ \A w \in Worker : job[w] = Idle
  BY DEF Return
<1>2. \A k \in Key : Written(SubPut(k))
  BY <1>1 DEF DBInv, TodoInv
<1>3. \A p : Written(p)' <=> Written(p)
  BY <1>1 DEF Written
<1>4. JournalInv'
  BY <1>1, SameSource DEF DBInv, JournalInv
<1>5. JobInv'
  BY <1>1, <1>3, SameSource DEF DBInv, JobInv, Idle, Groups
<1>6. TodoInv'
  BY <1>1, <1>2, <1>3, SameSource DEF DBInv, TodoInv, Return, Idle
<1> QED
  BY <1>1, <1>2, <1>4, <1>5, <1>6 DEF DBInv

(* The invariant holds of an empty DB and of every step of every worker,   *)
(* of a crash and of the return.                                           *)
LEMMA DBInvInit == Init => DBInv
<1> SUFFICES ASSUME Init PROVE DBInv
  OBVIOUS
<1>1. Len(db) = 0 /\ db \in Seq(PutSet)
  BY EmptySeq DEF Init
<1>2. JournalInv
  BY <1>1 DEF JournalInv
<1>3. JobInv
  <2>1. job = [w \in Worker |-> Idle] /\ \A w \in Worker : job[w] = Idle
    BY DEF Init
  <2>2. \A k \in Key, r \in Groups : JobOf(k, r) # Idle
    BY JobIsBusy
  <2> QED
    BY <2>1, <2>2 DEF JobInv
<1> QED
  BY <1>2, <1>3 DEF Init, DBInv, TodoInv

(* ... and is kept by Next.                                                *)
LEMMA DBInvStep == DBInv /\ [Next]_vars => DBInv'
<1> SUFFICES ASSUME DBInv, [Next]_vars PROVE DBInv'
  OBVIOUS
<1>1. ASSUME NEW w \in Worker, NEW k \in Key, Take(w, k) PROVE DBInv'
  BY <1>1, TakeKeeps
<1>2. ASSUME NEW w \in Worker, NEW c \in Code, PutCode(w, c) PROVE DBInv'
  BY <1>2, PutCodeKeeps
<1>3. ASSUME NEW w \in Worker, PutSubstate(w) PROVE DBInv'
  BY <1>3, PutSubstateKeeps
<1>4. CASE Return
  BY <1>4, ReturnKeeps
<1>5. CASE Crash
  BY <1>5, CrashKeeps
<1>6. CASE UNCHANGED vars
  <2>1. UNCHANGED <<src, db, todo, job, done>>
    BY <1>6 DEF vars
  <2>2. JournalInv'
    BY <2>1, SameSource DEF DBInv, JournalInv
  <2>3. \A p : Written(p)' <=> Written(p)
    BY <2>1 DEF Written
  <2>4. JobInv'
    BY <2>1, <2>3, SameSource DEF DBInv, JobInv, Idle, Groups
  <2>5. TodoInv'
    BY <2>1, <2>3, SameSource DEF DBInv, TodoInv, Idle
  <2> QED
    BY <2>1, <2>2, <2>4, <2>5 DEF DBInv
<1> QED
  BY <1>1, <1>2, <1>3, <1>4, <1>5, <1>6 DEF Next, Step

(* Hence it always holds.                                                  *)
LEMMA DBInvariant == Spec => []DBInv
BY DBInvInit, DBInvStep, PTL DEF Spec

-----------------------------------------------------------------------------
(* What the readers of the DB find.                                        *)

(* A get returns what was put under its key: all puts of a key are equal.  *)
LEMMA GetsFromInv ==
  ASSUME DBInv
  PROVE  /\ \A k \in Key : Has(db, SubstateKey(k)) <=> Written(SubPut(k))
         /\ \A k \in Key : Written(SubPut(k)) => Value(db, SubstateKey(k)) = NewSubstateRLP(Decoded(k))
         /\ \A c \in Code : Has(db, CodeKey(CodeHash(c))) <=> Written(CodePut(c))
         /\ \A c \in Code : Written(CodePut(c)) => Value(db, CodeKey(CodeHash(c))) = c
<1>1. DOMAIN db = 1 .. Len(db) /\ Len(db) \in Nat /\ \A i \in 1 .. Len(db) : db[i] \in PutSet
  BY ElementOfSeq DEF DBInv, JournalInv
<1>2. ASSUME NEW key, Has(db, key)
      PROVE  \E i \in 1 .. Len(db) : db[i].key = key /\ Value(db, key) = db[i].value
  <2>1. Puts(db, key) \in SUBSET (1 .. Len(db)) /\ Puts(db, key) # {}
    BY <1>1, <1>2 DEF Puts, Has
  <2>2. Last(Puts(db, key)) \in Puts(db, key)
    BY <1>1, <2>1, LastIsThere
  <2> QED
    BY <2>1, <2>2 DEF Puts, Value
<1>3. ASSUME NEW p, Written(p) PROVE Has(db, p.key)
  BY <1>1, <1>3 DEF Written, Has, Puts
<1>4. ASSUME NEW k \in Key, Has(db, SubstateKey(k))
      PROVE  Written(SubPut(k)) /\ Value(db, SubstateKey(k)) = NewSubstateRLP(Decoded(k))
  <2>1. PICK i \in 1 .. Len(db) : db[i].key = SubstateKey(k) /\ Value(db, SubstateKey(k)) = db[i].value
    BY <1>2, <1>4
  <2>2. db[i] = SubPut(k)
    BY <1>1, <2>1, PutKinds DEF PutSet
  <2> QED
    BY <2>1, <2>2 DEF Written, SubPut
<1>5. ASSUME NEW c \in Code, Has(db, CodeKey(CodeHash(c)))
      PROVE  Written(CodePut(c)) /\ Value(db, CodeKey(CodeHash(c))) = c
  <2>1. PICK i \in 1 .. Len(db) : db[i].key = CodeKey(CodeHash(c)) /\ Value(db, CodeKey(CodeHash(c))) = db[i].value
    BY <1>2, <1>5
  <2>2. db[i] = CodePut(c)
    BY <1>1, <2>1, PutKinds DEF PutSet, MaybeCode
  <2> QED
    BY <2>1, <2>2 DEF Written, CodePut
<1>6. \A k \in Key : SubPut(k).key = SubstateKey(k)
  BY DEF SubPut
<1>7. \A c \in Code : CodePut(c).key = CodeKey(CodeHash(c))
  BY DEF CodePut
<1> QED
  BY <1>3, <1>4, <1>5, <1>6, <1>7

(* The codes of a substate in the DB are in the DB.                        *)
LEMMA CodesOfStored ==
  ASSUME DBInv, NEW k \in Key, Written(SubPut(k)), NEW c \in NonEmpty(k)
  PROVE  c \in Code /\ Written(CodePut(c))
<1>1. c \in Code
  BY DecodedIsAsRead DEF DBInv, NonEmpty, MaybeCode
<1>2. PICK i \in 1 .. Len(db) : db[i] = SubPut(k)
  BY DEF Written
<1>3. PICK j \in 1 .. i - 1 : db[j] = CodePut(c)
  BY <1>2 DEF DBInv, JournalInv
<1>4. Len(db) \in Nat
  BY LenProperties DEF DBInv, JournalInv
<1> QED
  BY <1>1, <1>2, <1>3, <1>4 DEF Written

(* Hence a substate of the DB refers to nothing that is missing.           *)
LEMMA DanglingFromInv == DBInv => NoDanglingCode
<1> SUFFICES ASSUME DBInv, NEW k \in Key, Has(db, SubstateKey(k)),
                    NEW h \in CodeHashes(Value(db, SubstateKey(k))), h # CodeHash(Empty)
             PROVE  Has(db, CodeKey(h))
  BY DEF NoDanglingCode
<1>1. Written(SubPut(k)) /\ Value(db, SubstateKey(k)) = NewSubstateRLP(Decoded(k))
  BY GetsFromInv
<1>2. Decoded(k) \in Substate
  BY DecodedIsAsRead DEF DBInv
<1>3. PICK c \in Codes(Decoded(k)) : h = CodeHash(c)
  BY <1>1, <1>2, HashesOfCodes
<1>4. c \in NonEmpty(k)
  BY <1>3 DEF NonEmpty
<1> QED
  BY <1>1, <1>3, <1>4, CodesOfStored, GetsFromInv

(* GetSubstate of a key that HasSubstate finds gives the substate of the   *)
(* source, and does not panic.                                             *)
LEMMA ReadsFromInv ==
  ASSUME DBInv, NEW k \in Key, Written(SubPut(k))
  PROVE  GetSubstate(db, k) = Decoded(k)
<1> DEFINE s == Decoded(k)
           v == NewSubstateRLP(s)
           code == [h \in CodeHashes(v) |-> Get(db, h)]
<1>1. s \in Substate /\ Codes(s) \subseteq MaybeCode
  BY DecodedIsAsRead DEF DBInv
<1>2. Has(db, SubstateKey(k)) /\ Value(db, SubstateKey(k)) = v
  BY GetsFromInv
<1>3. Fits(v, "latest")
  BY DEF NewSubstateRLP, Encode, EnvRLP, MessageRLP, Fits
<1>4. Decodable(v) /\ DecodeRLP(v) = v
  BY <1>3 DEF Decodable, DecodeRLP, Generation
<1>5. \A c \in Codes(s) : Get(db, CodeHash(c)) = c
  <2> SUFFICES ASSUME NEW c \in Codes(s) PROVE Get(db, CodeHash(c)) = c
    OBVIOUS
  <2>1. CASE c = Empty
    BY <2>1 DEF Get
  <2>2. CASE c # Empty
    <3>1. c \in NonEmpty(k)
      BY <2>2 DEF NonEmpty
    <3>2. c \in Code /\ Written(CodePut(c))
      BY <3>1, CodesOfStored
    <3>3. CodeHash(c) # CodeHash(Empty)
      BY <2>2, <3>2, RLPAssumption DEF MaybeCode
    <3>4. Has(db, CodeKey(CodeHash(c))) /\ Value(db, CodeKey(CodeHash(c))) = c
      BY <3>2, GetsFromInv
    <3> QED
      BY <3>3, <3>4 DEF Get
  <2> QED
    BY <2>1, <2>2
<1> HIDE DEF s, v
<1>6. GetSubstate(db, k) = SetRLP(v, code)
  BY <1>2, <1>4 DEF GetSubstate
<1>7. CodeHashes(v) = {CodeHash(c) : c \in Codes(s)}
  BY <1>1, HashesOfCodes DEF v
<1>8. DOMAIN code = CodeHashes(v) /\ \A c \in Codes(s) : code[CodeHash(c)] = c
  BY <1>5, <1>7
<1> HIDE DEF code
<1>9. SetRLP(v, code) = s
  BY <1>1, <1>8, SetNew DEF v
<1> QED
  BY <1>6, <1>9 DEF s

(* At any moment, also after a crash, a substate of the DB has its codes.  *)
THEOREM CodesPrecedeSubstates == Spec => []NoDanglingCode
BY DanglingFromInv, DBInvariant, PTL

(* A clone reads as what was once recorded, whatever generation recorded   *)
(* it, but for the access list that setBerlinRLP drops.                    *)
THEOREM CopiesAreFaithful == Spec => []CopyReadsAsSource
<1>1. DBInv => CopyReadsAsSource
  <2> SUFFICES ASSUME DBInv, NEW k \in Key, Has(db, SubstateKey(k))
               PROVE  GetSubstate(db, k) = AsRead(src[k].gen, src[k].sub)
    BY DEF CopyReadsAsSource
  <2>1. GetSubstate(db, k) = Decoded(k)
    BY ReadsFromInv, GetsFromInv
  <2>2. Decoded(k) = AsRead(src[k].gen, src[k].sub)
    BY DecodedIsAsRead DEF DBInv
  <2> QED
    BY <2>1, <2>2
<1> QED
  BY <1>1, DBInvariant, PTL

(* The command returns with every substate in the DB.                      *)
THEOREM CompleteOnReturn == Spec => []CompleteWhenDone
<1>1. DBInv => CompleteWhenDone
  BY GetsFromInv DEF DBInv, TodoInv, CompleteWhenDone
<1> QED
  BY <1>1, DBInvariant, PTL

-----------------------------------------------------------------------------
(* The DB as a map of whole substates.                                     *)

Present == {k \in Key : Written(SubPut(k))}

(* Under the invariant the abstract store is the source on the keys that   *)
(* are present.                                                            *)
LEMMA StoreFromInv == DBInv => Store = [k \in Present |-> Decoded(k)]
<1> SUFFICES ASSUME DBInv PROVE Store = [k \in Present |-> Decoded(k)]
  OBVIOUS
<1>1. {x \in Key : Has(db, SubstateKey(x))} = Present
  BY GetsFromInv DEF Present
<1>2. \A k \in Present : GetSubstate(db, k) = Decoded(k)
  BY ReadsFromInv DEF Present
<1> QED
  BY <1>1, <1>2 DEF Store

(* A put of a code or the taking of a key does not change the map, a put   *)
(* of a substate is a Put, a crash a Lose and the return a Return.         *)
LEMMA MapStep == DBInv /\ DBInv' /\ [Next]_vars => [Map!Next]_(Map!mapVars)
<1> SUFFICES ASSUME DBInv, DBInv', [Next]_vars PROVE [Map!Next]_(Map!mapVars)
  OBVIOUS
<1> DEFINE goal == [k \in Key |-> Decoded(k)]
<1>1. Store = [k \in Present |-> Decoded(k)] /\ Store' = [k \in Present |-> Decoded(k)]'
  <2>1. Store = [k \in Present |-> Decoded(k)]
    BY StoreFromInv
  <2>2. (Store = [k \in Present |-> Decoded(k)])'
    BY StoreFromInv, PTL
  <2> QED
    BY <2>1, <2>2
<1>2. src' = src
  BY DEF Next, Step, Take, PutCode, PutSubstate, Return, Crash, vars
<1>3. \A k : Decoded(k)' = Decoded(k)
  BY <1>2, SameSource
<1>4. goal' = goal
  BY <1>3
<1>5. Store' = [k \in Present' |-> Decoded(k)] /\ Present \subseteq Key /\ Present' \subseteq Key
  BY <1>1, <1>3 DEF Present
<1>6. ASSUME UNCHANGED done, Present' = Present PROVE UNCHANGED Map!mapVars
  BY <1>1, <1>4, <1>5, <1>6 DEF Map!mapVars
<1>7. ASSUME NEW w \in Worker, NEW k \in Key, Take(w, k) PROVE UNCHANGED Map!mapVars
  BY <1>2, <1>6, <1>7, SameSource DEF Take, Present, Written
<1>8. ASSUME NEW w \in Worker, NEW c \in Code, PutCode(w, c) PROVE UNCHANGED Map!mapVars
  <2>1. db' = Append(db, CodePut(c)) /\ CodePut(c) \in PutSet /\ db \in Seq(PutSet) /\ done' = done
    BY <1>8 DEF PutCode, CodePut, PutSet, DBInv, JournalInv
  <2>2. /\ Len(db) \in Nat /\ Len(db') = Len(db) + 1 /\ db'[Len(db) + 1] = CodePut(c)
        /\ \A j \in 1 .. Len(db) : db'[j] = db[j]
    BY <2>1, Grows
  <2>3. ASSUME NEW k \in Key PROVE (\E j \in 1 .. Len(db') : db'[j] = SubPut(k)) <=> Written(SubPut(k))
    <3>1. CodePut(c) # SubPut(k)
      BY PutKinds
    <3> QED
      BY <2>2, <3>1 DEF Written
  <2>4. Present' = Present
    BY <1>2, <2>3, SameSource DEF Present, Written
  <2> QED
    BY <1>6, <2>1, <2>4
<1>9. ASSUME NEW w \in Worker, PutSubstate(w) PROVE \E k \in Key : Map!Put(k)
  <2>1. PICK k \in Key : db' = Append(db, SubPut(k))
    BY <1>9, PutSubstateKeeps
  <2>2. SubPut(k) \in PutSet /\ db \in Seq(PutSet) /\ done' = done /\ ~done
    BY <1>9 DEF PutSubstate, PutSet, DBInv, JournalInv
  <2>3. /\ Len(db) \in Nat /\ Len(db') = Len(db) + 1 /\ db'[Len(db) + 1] = SubPut(k)
        /\ \A j \in 1 .. Len(db) : db'[j] = db[j]
    BY <2>1, <2>2, Grows
  <2>4. ASSUME NEW l \in Key PROVE (\E j \in 1 .. Len(db') : db'[j] = SubPut(l)) <=> Written(SubPut(l)) \/ l = k
    <3>1. SubPut(k) = SubPut(l) <=> k = l
      BY PutKinds DEF SubPut
    <3> QED
      BY <2>3, <3>1 DEF Written
  <2>5. Present' = Present \cup {k}
    BY <1>2, <2>4, SameSource DEF Present, Written
  <2>6. DOMAIN Store = Present
    BY <1>1
  <2>7. Store' = [x \in DOMAIN Store \cup {k} |-> goal[x]]
    BY <1>5, <2>5, <2>6
  <2> QED
    BY <1>4, <2>2, <2>7 DEF Map!Put
<1>10. CASE Crash
  <2>1. ~done /\ done' = done
    BY <1>10 DEF Crash
  <2>2. Present' \subseteq Present
    BY <1>2, <1>10, CrashKeeps, SameSource DEF Present, Written
  <2>3. DOMAIN Store = Present /\ DOMAIN Store' = Present'
    BY <1>1, <1>5
  <2>4. Store' = [k \in DOMAIN Store' |-> Store[k]]
    BY <1>1, <1>5, <2>2, <2>3
  <2> QED
    BY <1>4, <2>1, <2>2, <2>3, <2>4 DEF Map!Lose, Map!Next
<1>11. CASE Return
  <2>1. ~done /\ done' = TRUE /\ db' = db
    BY <1>11 DEF Return
  <2>2. Present = Key
    BY <1>11, ReturnKeeps DEF Present
  <2>3. Present' = Present
    BY <1>2, <2>1, SameSource DEF Present, Written
  <2>4. Store' = Store /\ DOMAIN Store = Key
    BY <1>1, <1>5, <2>2, <2>3
  <2> QED
    BY <1>4, <2>1, <2>4 DEF Map!Return, Map!Next
<1>12. CASE UNCHANGED vars
  BY <1>2, <1>6, <1>12, SameSource DEF vars, Present, Written
<1> QED
  BY <1>7, <1>8, <1>9, <1>10, <1>11, <1>12 DEF Next, Step, Map!Next

(* The writers of a substate DB implement a map of whole substates.        *)
THEOREM RefinesMap == Spec => ImplementsMap
<1>1. Init => Map!Init
  <2> SUFFICES ASSUME Init PROVE Map!Init
    OBVIOUS
  <2>1. DBInv
    BY DBInvInit
  <2>2. Len(db) = 0
    BY EmptySeq DEF Init
  <2>3. Present = {}
    BY <2>2 DEF Present, Written
  <2>4. Store = [k \in {} |-> Decoded(k)]
    BY <2>1, <2>3, StoreFromInv
  <2> QED
    BY <2>4 DEF Init, Map!Init
<1> QED
  BY <1>1, MapStep, DBInvariant, PTL DEF Spec, ImplementsMap, Map!Spec
=============================================================================
