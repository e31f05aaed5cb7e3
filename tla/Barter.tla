------------------------------- MODULE Barter -------------------------------
(* What a trade between two players promises, whatever packets carry it:  *)
(* goods change hands only when both sides stand by what they have laid   *)
(* out, they change hands together, and exactly what was laid out moves.  *)
EXTENDS Naturals

CONSTANTS Players, Ids, NoOne,
          Cap      \* [Ids -> Nat]: how much of an id one player can hold in one place

VARIABLES hold,    \* hold[p][i]: how many of i player p owns
          offer,   \* offer[p][i]: how many of i player p has laid out
          firm     \* the player to whom p stands by the offer, or NoOne

vars == <<hold, offer, firm>>

Nothing == [i \in Ids |-> 0]

Init == /\ hold \in [Players -> [Ids -> Nat]]
        /\ offer = [p \in Players |-> Nothing]
        /\ firm = [p \in Players |-> NoOne]

\* Goods come from outside the trade; nothing laid out changes.
Acquire == /\ UNCHANGED <<firm, offer>>
           /\ \A p \in Players, i \in Ids : hold'[p][i] >= hold[p][i]

\* A side that has not committed itself lays out something else.
LayOut == /\ UNCHANGED <<firm, hold>>
          /\ \A p \in Players : firm[p] # NoOne => offer'[p] = offer[p]

Commit(p, q) == /\ firm[p] = NoOne
                /\ firm' = [firm EXCEPT ![p] = q]
                /\ UNCHANGED <<offer, hold>>

\* The trade is over without an exchange, for some of the players.
Withdraw == /\ \A p \in Players : /\ firm'[p] \in {firm[p], NoOne}
                                  /\ offer'[p] \in {offer[p], Nothing}
            /\ UNCHANGED hold

\* What p gives is gone and what q gives has come.  Only where p's goods and
\* q's together are more than p can hold, some of them may be lost.
Settled(p, q) == \A i \in Ids :
    LET fair == hold[p][i] - offer[p][i] + offer[q][i]
    IN  IF hold[p][i] + offer[q][i] <= Cap[i] THEN hold'[p][i] = fair
        ELSE hold'[p][i] \in 0..fair

\* The second side commits itself, and both offers change hands at once.
Deal(p, q) == /\ p # q /\ firm[q] = p /\ firm[p] = NoOne
              /\ Settled(p, q) /\ Settled(q, p)
              /\ \A r \in Players \ {p, q} : hold'[r] = hold[r]
              /\ offer' = [offer EXCEPT ![p] = Nothing, ![q] = Nothing]
              /\ firm' = [firm EXCEPT ![q] = NoOne]

Next == Acquire \/ LayOut \/ Withdraw
        \/ \E p, q \in Players : Commit(p, q) \/ Deal(p, q)

Spec == Init /\ [][Next]_vars
=============================================================================
