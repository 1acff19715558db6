--------------------------- MODULE MCStateJournal ---------------------------
(* An account with funds, and one that is absent, funded or a contract.    *)
EXTENDS StateJournal

A(bal, nonce, code, v) ==
    [bal |-> bal, nonce |-> nonce, code |-> code, suicided |-> FALSE, storage |-> [k \in Key |-> v]]
Funded == [a \in Addr |-> IF a = "e" THEN A(1, 0, 0, 0) ELSE None]
Prefunded == [a \in Addr |-> IF a = "e" THEN None ELSE A(1, 0, 0, 0)]
Contract == [a \in Addr |-> IF a = "e" THEN A(1, 0, 0, 0) ELSE A(0, 1, 1, 1)]

(* Accounts read through a snapshot or through the tries, and what is kept *)
(* beside them.                                                            *)
Accounts(snap, ws, n) ==
    [snap |-> snap, ops |-> {"state"}, keys |-> {"k"}, worlds |-> ws,
     entries |-> 4, steps |-> n, revisions |-> 1, txs |-> 2, blocks |-> 1]
Side == [snap |-> TRUE, ops |-> {"side"}, keys |-> {}, worlds |-> {Funded},
         entries |-> 5, steps |-> 5, revisions |-> 2, txs |-> 1, blocks |-> 0]
MCSettings ==
    {Accounts(TRUE, {Funded, Contract}, 5), Accounts(TRUE, {Prefunded}, 4),
     Accounts(FALSE, {Funded, Contract}, 4), Side}
=============================================================================
