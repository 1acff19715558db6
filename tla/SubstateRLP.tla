---------------------------- MODULE SubstateRLP ----------------------------
(***************************************************************************)
(* The stored form of a substate (research/substate_rlp.go) and the keys   *)
(* of the substate DB (research/substate_db.go).  A stored substate refers *)
(* to its codes by hash.  The RLP of its environment and of its message is *)
(* a list whose length differs between three generations of the recorder,  *)
(* and a struct decodes from a list of exactly its number of fields.  Of   *)
(* the fields the model keeps those that some generation lacks or that are *)
(* converted; the others are copied.                                       *)
(***************************************************************************)
EXTENDS Integers, Sequences, FiniteSets, Functions

CONSTANTS
    Addr, Code,        \* addresses, and codes that are not empty
    CodeHash(_),       \* Keccak256
    Amount, List       \* amounts of wei, and access lists

CONSTANTS Nil, Empty, Panic   \* a nil pointer, the code of no bytes, a panic

MaybeCode == Code \cup {Empty}

ASSUME RLPAssumption ==
    /\ Empty \notin Code /\ Panic \notin MaybeCode
    /\ Nil \notin Amount \cup List /\ \A c \in MaybeCode : CodeHash(c) # Nil
    /\ \A c, d \in MaybeCode : CodeHash(c) = CodeHash(d) => c = d

Alloc == UNION {[S -> MaybeCode] : S \in SUBSET Addr}

(* A substate in memory: the code of each account, the message and the     *)
(* base fee.  to = Nil means contract creation, data is then the init code.*)
Message == [to : Addr \cup {Nil}, data : MaybeCode, price : Amount,
            list : List \cup {Nil}, feeCap : Amount, tipCap : Amount]
Substate == [input : Alloc, output : Alloc, baseFee : Amount \cup {Nil}, msg : Message]

Generation == {"legacy", "berlin", "latest"}

(* A substate that a recorder of generation g can have seen: no access     *)
(* list before Berlin, no fee market before London.                        *)
Recordable(g, s) ==
    /\ g # "latest" => s.baseFee = Nil /\ s.msg.feeCap = s.msg.price /\ s.msg.tipCap = s.msg.price
    /\ g = "legacy" => s.msg.list = Nil

-----------------------------------------------------------------------------
AllocRLP(alloc) == [a \in DOMAIN alloc |-> CodeHash(alloc[a])]

(* For a creation the data is left out and InitCodeHash stands for it.     *)
Data(m) == IF m.to = Nil THEN Empty ELSE m.data
InitCodeHash(m) == IF m.to = Nil THEN CodeHash(m.data) ELSE Nil

(* legacySubstateMessageRLP, berlinSubstateMessageRLP, SubstateMessageRLP. *)
MessageRLP(g, m) ==
    CASE g = "legacy" -> <<m.price, m.to, Data(m), InitCodeHash(m)>>
      [] g = "berlin" -> <<m.price, m.to, Data(m), InitCodeHash(m), m.list>>
      [] g = "latest" -> <<m.price, m.to, Data(m), InitCodeHash(m), m.list, m.feeCap, m.tipCap>>

(* The base fee is the last field of the environment; "env" stands for the *)
(* fields that all generations have.                                       *)
EnvRLP(g, s) == IF g = "latest" THEN <<"env", s.baseFee>> ELSE <<"env">>

Encode(g, s) ==
    [input |-> AllocRLP(s.input), output |-> AllocRLP(s.output),
     env |-> EnvRLP(g, s), msg |-> MessageRLP(g, s.msg)]

(* NewSubstateRLP: what this release writes.                               *)
NewSubstateRLP(s) == Encode("latest", s)

-----------------------------------------------------------------------------
Fits(v, g) ==
    CASE g = "latest" -> Len(v.env) = 2 /\ Len(v.msg) = 7
      [] g = "berlin" -> Len(v.env) = 1 /\ Len(v.msg) = 5
      [] g = "legacy" -> Len(v.env) = 1 /\ Len(v.msg) = 4

(* setBerlinRLP and setLegacyRLP of the message: no access list, and the   *)
(* gas price for both caps; of the environment: no base fee.               *)
setOldRLP(v) ==
    [v EXCEPT !.env = <<v.env[1], Nil>>,
              !.msg = <<v.msg[1], v.msg[2], v.msg[3], v.msg[4], Nil, v.msg[1], v.msg[1]>>]

(* The fallbacks of GetSubstate and GetBlockSubstates, which panic when    *)
(* none of the three structs fits.                                         *)
Decodable(v) == \E g \in Generation : Fits(v, g)
DecodeRLP(v) == IF Fits(v, "latest") THEN v ELSE setOldRLP(v)

(* The codes a stored substate refers to.                                  *)
CodeHashes(v) == Range(v.input) \cup Range(v.output) \cup ({v.msg[4]} \ {Nil})

(* Substate.SetRLP; code is what GetCode gives for the hashes of v.        *)
SetRLP(v, code) ==
    IF Panic \in Range(code) THEN Panic
    ELSE [input   |-> [a \in DOMAIN v.input |-> code[v.input[a]]],
          output  |-> [a \in DOMAIN v.output |-> code[v.output[a]]],
          baseFee |-> v.env[2],
          msg     |-> [to |-> v.msg[2], price |-> v.msg[1],
                       data |-> IF v.msg[2] = Nil THEN code[v.msg[4]] ELSE v.msg[3],
                       list |-> v.msg[5], feeCap |-> v.msg[6], tipCap |-> v.msg[7]]]

-----------------------------------------------------------------------------
SubstateKey(k) == <<"1s", k>>
CodeKey(h) == <<"1c", h>>

(* LevelDB: the puts in the order they were made; a get finds the last put *)
(* of its key.                                                             *)
Puts(db, key) == {i \in DOMAIN db : db[i].key = key}
Has(db, key) == Puts(db, key) # {}
Last(S) == CHOOSE i \in S : \A j \in S : j <= i
Value(db, key) == db[Last(Puts(db, key))].value

Get(db, h) ==
    IF h = CodeHash(Empty) THEN Empty
    ELSE IF Has(db, CodeKey(h)) THEN Value(db, CodeKey(h)) ELSE Panic

GetSubstate(db, k) ==
    IF ~Has(db, SubstateKey(k)) \/ ~Decodable(Value(db, SubstateKey(k))) THEN Panic
    ELSE LET v == DecodeRLP(Value(db, SubstateKey(k)))
         IN  SetRLP(v, [h \in CodeHashes(v) |-> Get(db, h)])
=============================================================================
