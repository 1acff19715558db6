---------------------------- MODULE MCSubstateDB ----------------------------
(***************************************************************************)
(* Two keys and two workers.  The substates share a code, create a         *)
(* contract with and without init code, and come from every generation.    *)
(***************************************************************************)
EXTENDS SubstateDB, TLC

CONSTANTS a, b, c1, c2, al

MCCodeHash(c) == <<"keccak", c>>

Msg(to, data, list, cap) ==
    [to |-> to, data |-> data, price |-> 1, list |-> list, feeCap |-> cap, tipCap |-> 1]

Transfer == [input |-> (a :> Empty) @@ (b :> c1), output |-> (a :> Empty), baseFee |-> Nil,
             msg |-> Msg(b, Empty, Nil, 1)]
Listed   == [Transfer EXCEPT !.msg.list = al]
Create   == [input |-> (a :> Empty), output |-> (a :> Empty) @@ (b :> c1), baseFee |-> Nil,
             msg |-> Msg(Nil, c2, Nil, 1)]
EmptyInit == [Create EXCEPT !.msg.data = Empty, !.output = a :> Empty]
London   == [Create EXCEPT !.baseFee = 1, !.msg.feeCap = 2, !.msg.list = al]

By(gen, sub) == [gen |-> gen, sub |-> sub]

MCSources ==
    {<<By("legacy", Create), By("latest", London)>>, <<By("berlin", Listed), By("latest", Create)>>,
     <<By("latest", Listed), By("latest", EmptyInit)>>, <<By("legacy", Transfer), By("berlin", Create)>>,
     <<By("latest", London), By("latest", London)>>}
=============================================================================
