------------------------------ MODULE Delivery ------------------------------
(***************************************************************************)
(* The delivery box: the handler of packet 0x04D, charutils::OpenSendBox   *)
(* and RecoverFailedSendBox, and the table delivery_box.  A mail is a row  *)
(* of box 1 (what has come for a character); the row of box 2 is what the  *)
(* sender sees.  The table is MyISAM: the handlers' transactions roll      *)
(* nothing back, and every statement stands as soon as it is executed.     *)
(*                                                                         *)
(* A client shows one window at a time and waits for the answers of the    *)
(* server; what a request does not use (the slot of 0x07) is 0xFF.         *)
(***************************************************************************)
EXTENDS Integers, FiniteSets, SequencesExt, Lists

CONSTANTS Players,
          Goods,     \* item ids, one piece each, of stack size 1
          Rare,      \* ids of which a character may own one
          Size,      \* free slots of an inventory without goods
          Cells,     \* slots a window shows (8); new mails have higher numbers
          MaxMails   \* bound: mails sent or returned, and arrivals that recover nothing

ASSUME DeliveryConstants ==
    /\ IsFiniteSet(Players) /\ IsFiniteSet(Goods) /\ Rare \subseteq Goods
    /\ Size \in Nat /\ Cells \in Nat \ {0} /\ MaxMails \in Nat

Shown == 0 .. (Cells - 1)              \* cells of a window
New   == Cells .. (2 * Cells - 1)      \* UContainer's slots for new mails
Numbers == 0 .. (Cells + MaxMails)     \* the column slot

VARIABLES bag,     \* bag[p][i]: pieces of i in p's inventory
          rows,    \* the table delivery_box
          box,     \* CCharEntity::UContainer and the window the client has open
          mails,   \* what MaxMails bounds, so far
          gone,    \* history: goods dropped, or refused by a full inventory
          forgotten, \* history: goods that RecoverFailedSendBox deleted unread
          copied,  \* history: goods given back to a sender whose mail had gone
          mixed    \* history: goods of a mail that was taken for another

vars == <<bag, rows, box, mails, gone, forgotten, copied, mixed>>

Vacant == [item |-> "none"]
Row   == [to : Players, box : {1, 2}, slot : Numbers, item : Goods, from : Players,
          received : BOOLEAN, sent : BOOLEAN]
Entry == [item : Goods, at : Numbers, with : Players, sent : BOOLEAN, seen : BOOLEAN]
Closed == [window |-> "closed", cell |-> [c \in Shown \cup New |-> Vacant]]

\* With the primary key of the table: charid, box, slot.
TypeOK ==
    /\ bag \in [Players -> [Goods -> Nat]]
    /\ rows \subseteq Row
    /\ \A r, t \in rows : <<r.to, r.box, r.slot>> = <<t.to, t.box, t.slot>> => r = t
    /\ box \in [Players -> [window : {"closed", "in", "out"},
                            cell : [Shown \cup New -> Entry \cup {Vacant}]]]
    /\ mails \in 0 .. MaxMails
    /\ gone \cup forgotten \cup copied \cup mixed \subseteq Goods

Init == /\ \E owner \in [Goods -> Players] :
               bag = [p \in Players |-> [i \in Goods |-> IF owner[i] = p THEN 1 ELSE 0]]
        /\ rows = {} /\ box = [p \in Players |-> Closed]
        /\ mails = 0 /\ gone = {} /\ forgotten = {} /\ copied = {} /\ mixed = {}

-----------------------------------------------------------------------------
(* Queries.                                                                *)

Mails(R, p) == {r \in R : r.box = 1 /\ r.to = p}
Sendings(R, p) == {r \in R : r.box = 2 /\ r.from = p}
Unsent(R, p) == {r \in Sendings(R, p) : ~r.sent}
Changed(R, r, new) == (R \ {r}) \cup {new}

\* Numbers from the least, and rows (one of each number) in the order of theirs.
Ascending(N) == Restricted([k \in 1 .. Cells + MaxMails + 1 |-> k - 1], {n + 1 : n \in N})
InOrder(S) ==
    LET slots == Ascending({r.slot : r \in S})
    IN  [k \in DOMAIN slots |-> CHOOSE r \in S : r.slot = slots[k]]

\* Mutant: the new mail takes the number of the last one.
LastNumber(R, p) == Max({Cells} \cup {r.slot : r \in Mails(R, p)})

\* The trigger delivery_box_insert: a new mail's number.
NextNumber(R, p) == Max({Cells} \cup {r.slot + 1 : r \in Mails(R, p)})

Mail(R, from, to, item) ==
    [to |-> to, box |-> 1, slot |-> NextNumber(R, to), item |-> item, from |-> from,
     received |-> FALSE, sent |-> FALSE]

\* UPDATE ... SET received = 1 ... LIMIT 1: the first by the primary key.
Noted(R, S) == IF S = {} THEN R
               ELSE LET r == CHOOSE x \in S : \A y \in S : x.slot <= y.slot
                    IN  Changed(R, r, [r EXCEPT !.received = TRUE])

\* charutils::AddItem of each item in turn; what it refuses is lost.
Fits(b, i) == SumFunction(b) < Size /\ ~(i \in Rare /\ b[i] > 0)
AddItem(w, i) == IF Fits(w.bag, i) THEN [w EXCEPT !.bag[i] = @ + 1]
                 ELSE [w EXCEPT !.lost = @ \cup {i}]
Given(b, items) == InTurn(AddItem, [bag |-> b, lost |-> {}], items)
Give(p, items) == /\ bag' = [bag EXCEPT ![p] = Given(@, items).bag]
                  /\ gone' = gone \cup Given(bag[p], items).lost

Opened(window, S) ==
    [window |-> window,
     cell |-> [c \in Shown \cup New |->
         IF \E r \in S : r.slot = c
         THEN LET r == CHOOSE x \in S : x.slot = c
              IN  [item |-> r.item, at |-> r.slot, with |-> IF window = "in" THEN r.from ELSE r.to,
                   sent |-> window = "out", seen |-> window = "out"]
         ELSE Vacant]]

Has(p, window, c) == box[p].window = window /\ box[p].cell[c] # Vacant
Put(p, c, e) == box' = [box EXCEPT ![p].cell[c] = e]

-----------------------------------------------------------------------------
(* The sender's window.                                                    *)

\* RecoverFailedSendBox: what is in the send box and not sent should go back,
\* and is deleted.  But the query of the first AddItem that succeeds frees the
\* result that the loop is reading: the rows after that one are never read.
Recover(p) ==
    LET fitting == {r \in Unsent(rows, p) : Fits(bag[p], r.item)}
        read == {r \in Unsent(rows, p) : \A f \in fitting : r.slot <= f.slot}
    IN  /\ Give(p, LET back == InOrder(read) IN [n \in DOMAIN back |-> back[n].item])
        /\ forgotten' = forgotten \cup {r.item : r \in Unsent(rows, p) \ read}

\* openSendBox: what failed is recovered, what was sent is shown.
OpenSendBox(p) ==
    /\ box[p].window = "closed"
    /\ Recover(p)
    /\ rows' = rows \ Unsent(rows, p)
    /\ box' = [box EXCEPT ![p] = Opened("out", Sendings(rows', p))]
    /\ UNCHANGED <<mails, copied, mixed>>

\* 0x02: an item goes into the send box; the INSERT fails if another sender
\* has the same slot for the same receiver.
PutIn(p, q, i, c) ==
    /\ box[p].window = "out" /\ box[p].cell[c] = Vacant /\ bag[p][i] > 0
    /\ ~\E r \in rows : r.box = 2 /\ r.to = q /\ r.slot = c
    /\ rows' = rows \cup {[to |-> q, box |-> 2, slot |-> c, item |-> i, from |-> p,
                           received |-> FALSE, sent |-> FALSE]}
    /\ Put(p, c, [item |-> i, at |-> 0, with |-> q, sent |-> FALSE, seen |-> FALSE])
    /\ bag' = [bag EXCEPT ![p][i] = @ - 1]
    /\ UNCHANGED <<mails, gone, copied, mixed, forgotten>>

\* 0x03: the mail is sent; the item in the container is not marked.
Send(p, c) ==
    /\ Has(p, "out", c) /\ ~box[p].cell[c].sent /\ mails < MaxMails
    /\ \E r \in Unsent(rows, p) :
        /\ r.slot = c /\ r.to = box[p].cell[c].with
        /\ rows' = Changed(rows, r, [r EXCEPT !.sent = TRUE])
                       \cup {Mail(rows, p, r.to, box[p].cell[c].item)}
    /\ Put(p, c, [box[p].cell[c] EXCEPT !.seen = TRUE])
    /\ mails' = mails + 1
    /\ UNCHANGED <<bag, gone, copied, mixed, forgotten>>

\* Mutant: the mail is taken back and the row still says it was sent.
CancelHalf(p, c) ==
    LET e == box[p].cell[c] IN
    /\ Has(p, "out", c) /\ e.seen
    /\ \E m \in {m \in Mails(rows, e.with) : m.from = p /\ m.item = e.item} :
           rows' = rows \ {m} /\ Put(p, c, [e EXCEPT !.sent = FALSE, !.seen = FALSE])
    /\ UNCHANGED <<bag, mails, gone, copied, mixed, forgotten>>

\* 0x04: first the row is marked as not sent, then the mail is looked for; if
\* the receiver has it already, the mark stays and there are two of the item.
Cancel(p, c) ==
    LET e == box[p].cell[c]
        mail == {m \in Mails(rows, e.with) : m.from = p /\ m.item = e.item}
    IN  /\ Has(p, "out", c) /\ e.seen          \* the client shows it as sent
        /\ \E r \in Sendings(rows, p) :
            /\ r.slot = c /\ r.sent
            /\ LET back == Changed(rows, r, [r EXCEPT !.sent = FALSE])
               IN  IF mail = {}
                   THEN rows' = back /\ copied' = copied \cup {e.item} /\ UNCHANGED box
                   ELSE /\ \E m \in mail : rows' = back \ {m}
                        /\ Put(p, c, [e EXCEPT !.sent = FALSE, !.seen = FALSE])
                        /\ UNCHANGED copied
        /\ UNCHANGED <<bag, mails, gone, mixed, forgotten>>

\* 0x07: the first item marked as sent leaves the send box.
Clear(p) ==
    LET marked == {c \in Shown : Has(p, "out", c) /\ box[p].cell[c].sent}
    IN  /\ marked # {}
        /\ \E r \in Sendings(rows, p) :
               r.slot = Min(marked) /\ rows' = rows \ {r}
        /\ Put(p, Min(marked), Vacant)
        /\ UNCHANGED <<bag, mails, gone, copied, mixed, forgotten>>

\* 0x0A, box 2: an item that was not sent is taken back.
TakeBack(p, c) ==
    /\ Has(p, "out", c) /\ ~box[p].cell[c].seen     \* the client shows it as not sent
    /\ \/ \E r \in Unsent(rows, p) :
            r.slot = c /\ rows' = rows \ {r} /\ Give(p, <<box[p].cell[c].item>>)
       \/ /\ \A r \in Unsent(rows, p) : r.slot # c
          /\ UNCHANGED <<rows, bag, gone>>
    /\ Put(p, c, Vacant)
    /\ UNCHANGED <<mails, copied, mixed, forgotten>>

\* 0x0F, box 2: what is not marked as sent goes back to the sender; the
\* container's mark decides, and 0x03 has not set it.
CloseSendBox(p) ==
    LET cells == {c \in Shown : box[p].cell[c] # Vacant /\ ~box[p].cell[c].sent}
        back == Ascending(cells)
    IN  /\ box[p].window = "out"
        /\ Give(p, [n \in DOMAIN back |-> box[p].cell[back[n]].item])
        /\ rows' = rows \ Unsent(rows, p)
        /\ box' = [box EXCEPT ![p] = Closed]
        /\ copied' = copied \cup {box[p].cell[c].item :
                         c \in {c \in cells : ~\E r \in Unsent(rows, p) : r.slot = c}}
        /\ UNCHANGED <<mails, mixed, forgotten>>

-----------------------------------------------------------------------------
(* The receiver's window.                                                  *)

\* 0x0E: the window opens with the mails the player has seen before.
OpenInbox(p) ==
    /\ box[p].window = "closed"
    /\ box' = [box EXCEPT ![p] = Opened("in", {r \in Mails(rows, p) : r.slot \in Shown})]
    /\ UNCHANGED <<bag, rows, mails, gone, copied, mixed, forgotten>>

\* 0x01: of the first mails (LIMIT 8), the new ones come after the cells.
ShowMails(p) ==
    LET all == InOrder(Mails(rows, p))
        first == SubSeq(all, 1, Min({Len(all), Cells}))
        new == Restricted(first, {n \in DOMAIN first : first[n].slot \notin Shown})
        entry(r) == [item |-> r.item, at |-> r.slot, with |-> r.from, sent |-> FALSE, seen |-> FALSE]
        cell == [c \in Shown \cup New |->
            IF c \in New THEN IF c - Cells < Len(new) THEN entry(new[c - Cells + 1]) ELSE box[p].cell[c]
            ELSE IF \E r \in ToSet(first) : r.slot = c
                 THEN entry(CHOOSE r \in ToSet(first) : r.slot = c) ELSE box[p].cell[c]]
    IN  /\ box[p].window = "in"
        /\ box' = [box EXCEPT ![p].cell = cell]
        /\ UNCHANGED <<bag, rows, mails, gone, copied, mixed, forgotten>>

\* One new mail moves to the first vacant cell, if its number is still there:
\* the number of a mail that was cancelled may have gone to the next one.
Placed(w, k) ==
    LET p == w.who
        e == w.cell[k]
        vacant == {c \in Shown : w.cell[c] = Vacant}
        mail == {r \in Mails(w.rows, p) : r.slot = e.at}
    IN  IF w.over \/ e = Vacant THEN [w EXCEPT !.over = TRUE]
        ELSE IF vacant = {} \/ mail = {} \/ (\E r \in Mails(w.rows, p) : r.slot = Min(vacant)) THEN w
        ELSE LET r == CHOOSE r \in mail : TRUE
                 moved == Changed(w.rows, r, [r EXCEPT !.slot = Min(vacant)])
             IN  [w EXCEPT
                     !.mixed = IF r.item = e.item THEN @ ELSE @ \cup {r.item, e.item},
                     !.rows = Noted(moved, {s \in Sendings(moved, e.with) : s.to = p /\ ~s.received}),
                     !.cell = [@ EXCEPT ![Min(vacant)] = [e EXCEPT !.at = Min(vacant)],
                                        ![k] = Vacant]]

\* 0x05, box 1: the new mails move to the cells.
ReceiveMails(p) ==
    LET start == [who |-> p, rows |-> rows, cell |-> box[p].cell, mixed |-> mixed, over |-> FALSE]
        w == InTurn(Placed, start, [n \in 1 .. Cells |-> Cells + n - 1])
    IN  /\ box[p].window = "in"
        /\ rows' = w.rows
        /\ box' = [box EXCEPT ![p].cell = w.cell]
        /\ mixed' = w.mixed
        /\ UNCHANGED <<bag, mails, gone, copied, forgotten>>

At(p, c) == {r \in Mails(rows, p) : r.slot = c}

\* Mutant: the item is given whether or not its mail was still there.
TakeAnyway(p, c) ==
    /\ Has(p, "in", c) /\ SumFunction(bag[p]) < Size
    /\ rows' = rows \ At(p, c)
    /\ Give(p, <<box[p].cell[c].item>>)
    /\ Put(p, c, Vacant)
    /\ UNCHANGED <<mails, copied, mixed, forgotten>>

\* 0x0A, box 1: the item goes to the inventory if its mail is still there.
Take(p, c) ==
    /\ Has(p, "in", c) /\ SumFunction(bag[p]) < Size
    /\ rows' = rows \ At(p, c)
    /\ IF At(p, c) # {} THEN Give(p, <<box[p].cell[c].item>>) ELSE UNCHANGED <<bag, gone>>
    /\ Put(p, c, Vacant)
    /\ UNCHANGED <<mails, copied, mixed, forgotten>>

\* 0x09: the mail goes to its sender as a new one.  Only if the sender's row
\* could be noted as received does the cell become vacant.
Return(p, c) ==
    /\ Has(p, "in", c) /\ mails < MaxMails
    /\ \E r \in At(p, c) :
        LET sending == {s \in Sendings(rows, r.from) : s.to = p}
            after == (rows \ {r}) \cup {Mail(rows, p, r.from, box[p].cell[c].item)}
        IN  /\ rows' = Noted(after, sending)
            /\ IF rows' # after THEN Put(p, c, Vacant) ELSE UNCHANGED box
    /\ mails' = mails + 1
    /\ UNCHANGED <<bag, gone, copied, mixed, forgotten>>

\* 0x0B: the item is thrown away.
Drop(p, c) ==
    /\ Has(p, "in", c) /\ At(p, c) # {}
    /\ rows' = rows \ At(p, c)
    /\ Put(p, c, Vacant)
    /\ gone' = gone \cup {box[p].cell[c].item}
    /\ UNCHANGED <<bag, mails, copied, mixed, forgotten>>

\* 0x0F, box 1.
CloseInbox(p) ==
    /\ box[p].window = "in"
    /\ box' = [box EXCEPT ![p] = Closed]
    /\ UNCHANGED <<bag, rows, mails, gone, copied, mixed, forgotten>>

\* A player leaves with a window open, or the connection breaks; 0x00A recovers
\* what was not sent, but for a first login of kind 3 or a player who is not
\* zoning.  The container is cleaned before it is used again.
ZoneIn(p) ==
    /\ \/ Recover(p) /\ rows' = rows \ Unsent(rows, p) /\ UNCHANGED mails
       \/ /\ mails < MaxMails /\ Unsent(rows, p) # {}
          /\ mails' = mails + 1
          /\ UNCHANGED <<bag, rows, gone, forgotten>>
    /\ box' = [box EXCEPT ![p] = Closed]
    /\ UNCHANGED <<copied, mixed>>

Next ==
    \E p \in Players :
        \/ OpenSendBox(p) \/ CloseSendBox(p) \/ Clear(p) \/ ZoneIn(p)
        \/ OpenInbox(p) \/ ShowMails(p) \/ ReceiveMails(p) \/ CloseInbox(p)
        \/ \E c \in Shown :
            \/ \E q \in Players, i \in Goods : PutIn(p, q, i, c)
            \/ Send(p, c) \/ Cancel(p, c) \/ TakeBack(p, c)
            \/ Take(p, c) \/ Return(p, c) \/ Drop(p, c)

Spec == Init /\ [][Next]_vars

-----------------------------------------------------------------------------
(* Properties.                                                             *)

\* Where an item can still be had: in an inventory, in a mail, or in the send
\* box of a sender who has not sent it.
InBags(i) == UNION {{p} \X (1 .. bag[p][i]) : p \in Players}
InRows(R, i) == {r \in R : r.item = i /\ (r.box = 1 \/ ~r.sent)}
Pieces(i) == Cardinality(InBags(i)) + Cardinality(InRows(rows, i))

\* An item vanishes in four ways only, although no handler's statements are
\* rolled back: it is dropped, an inventory refuses it, 0x05 takes its mail for
\* a cancelled one, or RecoverFailedSendBox deletes its row unread.  Sending,
\* cancelling, taking, returning, a lost connection and the closing of windows
\* in any order leave it somewhere.
OnlyKnownLosses == \A i \in Goods : Pieces(i) = 0 => i \in gone \cup mixed \cup forgotten

\* An item is copied in three ways only: a send box is closed after it was
\* sent, a sending is cancelled after the receiver had taken the mail, or a
\* mail whose sending was cancelled is taken under a later mail's number.
OnlyKnownCopies == \A i \in Goods : Pieces(i) > 1 => i \in copied \cup mixed
=============================================================================
