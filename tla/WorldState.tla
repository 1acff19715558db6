----------------------------- MODULE WorldState -----------------------------
(***************************************************************************)
(* What core/state promises to the virtual machine: accounts that change   *)
(* in a transaction, snapshots that can be taken back, and the clearing of *)
(* destructed and of touched empty accounts when the transaction ends.     *)
(* A snapshot is a copy of everything.  Between blocks nothing changes.    *)
(***************************************************************************)
EXTENDS Integers, Sequences, FiniteSets

CONSTANTS
    Addr, Key, Val,  \* Val: storage values, with 0
    None,
    Initial          \* worlds to start from

VARIABLES
    world,           \* accounts: None, or balance, nonce, code, suicided and storage
    origin,          \* the storage at the start of the transaction
    touched,
    refund, logs,
    warm,            \* the access list: addresses, and pairs of address and slot
    saved            \* snapshots

tx == <<world, origin, touched, refund, logs, warm>>
wvars == <<world, origin, touched, refund, logs, warm, saved>>

Fresh == [k \in Key |-> 0]
NewAccount == [bal |-> 0, nonce |-> 0, code |-> 0, suicided |-> FALSE, storage |-> Fresh]
Exists(a) == world[a] # None
IsEmpty(x) == x.bal = 0 /\ x.nonce = 0 /\ x.code = 0
OrNew(w, a) == IF w[a] = None THEN NewAccount ELSE w[a]

WInit ==
    /\ world \in Initial /\ origin = [a \in Addr |-> OrNew(world, a).storage]
    /\ touched = {} /\ refund = 0 /\ logs = 0 /\ warm = {} /\ saved = <<>>

Keep == UNCHANGED <<origin, refund, logs, warm, saved>>

(* A call with value n: the accounts change, and are touched.              *)
Pay(a, b, n) ==
    /\ a # b /\ Exists(a) /\ world[a].bal >= n /\ (n > 0 \/ Exists(b))
    /\ world' = [world EXCEPT ![a].bal = @ - n, ![b] = [OrNew(world, b) EXCEPT !.bal = @ + n]]
    /\ touched' = touched \cup (IF n > 0 THEN {a, b} ELSE {x \in {b} : IsEmpty(world[x])})
    /\ Keep

NewContract(a) ==
    /\ (Exists(a) => world[a].nonce = 0 /\ world[a].code = 0)
    /\ world' = [world EXCEPT ![a] = [NewAccount EXCEPT !.bal = OrNew(world, a).bal, !.nonce = 1]]
    /\ origin' = [origin EXCEPT ![a] = Fresh]
    /\ touched' = touched \cup {a} /\ UNCHANGED <<refund, logs, warm, saved>>

PutCode(a) ==
    /\ Exists(a) /\ world[a].nonce > 0 /\ world[a].code = 0
    /\ world' = [world EXCEPT ![a].code = 1] /\ touched' = touched \cup {a} /\ Keep

Write(a, k, v) ==
    /\ Exists(a) /\ world[a].nonce > 0 /\ world[a].storage[k] # v
    /\ world' = [world EXCEPT ![a].storage[k] = v] /\ touched' = touched \cup {a} /\ Keep

(* The beneficiary may be the contract itself: its balance is burned.      *)
Destruct(a, b) ==
    LET paid == [world EXCEPT ![b] = [OrNew(world, b) EXCEPT !.bal = @ + world[a].bal]] IN
    /\ Exists(a) /\ world[a].nonce > 0
    /\ world' = [paid EXCEPT ![a].bal = 0, ![a].suicided = TRUE]
    /\ touched' = touched \cup {a}
                  \cup (IF world[a].bal > 0 \/ ~Exists(b) \/ IsEmpty(world[b]) THEN {b} ELSE {})
    /\ Keep

Refund(n) == refund' = n /\ UNCHANGED <<world, origin, touched, logs, warm, saved>>
Log == logs' = logs + 1 /\ UNCHANGED <<world, origin, touched, refund, warm, saved>>
Warm(s) == warm' = warm \cup s /\ UNCHANGED <<world, origin, touched, refund, logs, saved>>

Save == saved' = Append(saved, tx) /\ UNCHANGED tx

Restore(i) ==
    /\ i \in DOMAIN saved /\ tx' = saved[i] /\ saved' = SubSeq(saved, 1, i - 1)

End ==
    /\ world' = [a \in Addr |-> IF a \in touched /\ (world[a].suicided \/ IsEmpty(world[a])) THEN None ELSE world[a]]
    /\ origin' = [a \in Addr |-> OrNew(world', a).storage]
    /\ touched' = {} /\ refund' = 0 /\ warm' = {} /\ saved' = <<>> /\ UNCHANGED logs

WNext ==
    \/ \E a, b \in Addr, n \in 0 .. 1 : Pay(a, b, n)
    \/ \E a \in Addr : NewContract(a) \/ PutCode(a)
    \/ \E a \in Addr, k \in Key, v \in Val : Write(a, k, v)
    \/ \E a, b \in Addr : Destruct(a, b)
    \/ (\E n \in 0 .. refund + 1 : Refund(n)) \/ Log \/ (\E a \in Addr, k \in Key : Warm({<<a>>}) \/ Warm({<<a>>, <<a, k>>}))
    \/ Save \/ (\E i \in DOMAIN saved : Restore(i)) \/ End

WSpec == WInit /\ [][WNext]_wvars
=============================================================================
