# The DarkStar map server in TLA+

This directory models the parts of the DarkStar server (`src/src`, C++) whose
state many players share, checks them with TLC on small instances, and proves
some of their invariants with TLAPS for every size.

## The system

Four programs share one MySQL database. The *login server* checks accounts and
hands a character over to a map server; the *map server* runs the world; the
*search server* answers queries from the database; a launcher and Lua scripts
stand around them. Nearly all logic is in the map server, so that is what is
modelled.

The map server is one thread (`common/kernel.cpp`, `map/map.cpp`): run every
timer that is due (`CTaskMgr::DoTimer`), then wait for one datagram
(`do_sockets`), decode it, run the handler of every small packet in it, and
answer with one datagram. There are no data races; what is hard are the orders in
which handlers of different players and timers of different zones come, the
unreliable network under them, objects that refer to each other by raw pointers
across zone changes and logging out, and rows of the database that have to follow.

| component | state | operations | talks to | hard because | what makes it correct |
|---|---|---|---|---|---|
| treasure pool (`treasure_pool.cpp`) | ten slots with item, tick and lots; members; `m_count`, `m_Tick`; type | add/delete member, add item, lot, pass, check | zone timer, inventories, parties | lots, leaving and timer rounds interleave; slot reuse; two clocks; full inventories | no item is lost, doubled or overwritten; highest lot wins; nobody's time is cut short; every item is settled |
| parties and alliances (`party.cpp`, `alliance.cpp`, packets 0x06E-0x077) | member lists, leader, alliance list and main party, `PParty`, `PTreasurePool`, `InvitePending`, `accounts_sessions.partyid` | invite, answer, leave, disband, kick, promote, zone change, log out | treasure pools, zones, database | invitations answered late, members between zones, pointers both ways | lists and pointers agree; database agrees; one pool per party and zone |
| link (`map.cpp`, `charentity.cpp`) | `PacketList`, `server_packet_id`, `server_packet_data` | push, parse, send | every handler | loss, repetition, reordering, wrapping ids | every packet arrives once and in order |
| sessions (`map.cpp`) | session list, key, `shuttingDown`, rows in three tables | create, close, clean up | login server, parties | restart of either side, queued closing, repeated logins | one live session per character; account freed in the end |
| zones (`zone.cpp`) | character lists, timer, zone pool | enter, leave, timer round | everything | round cut short, timer removed | everyone in the zone is served |
| player trade (packets 0x032-0x034) | `TradePending`, two containers with locks | request, accept, fill, confirm, cancel | inventories | two sides, third parties, changes after confirming | items change hands together or not at all; nobody is left in a trade alone |
| delivery box, auction house (0x04D, 0x04E) | rows in `delivery_box`, `auction_house`, a container | add, send, cancel, take, bid | database, inventories | several SQL statements per step and no rollback; containers that go stale; numbers used again | no item is doubled or lost |
| status effects (`status_effect_container.cpp`) | list of effects, icons, modifiers of the owner, rows of `char_effects` | add, overwrite, sing, expire, erase, dispel, save, load | timers, Lua, database | callbacks while iterating; rules that stop at the first match | effects that exclude each other never meet; modifiers and icons equal the effects present |
| enmity, recast, latent effects, battlefields, transport, conquest, linkshells, crafting, shops | small tables each | | combat, timers | caps, time limits | see `PROJECT.json` |
| combat, AI, pathfinding, Lua content, packets, ciphers | | | | formulas, geometry, data | not modelled |

`PROJECT.json` lists every component with its status and the hazards at their lines.

## Modules

| module | what it is |
|---|---|
| `TreasurePool` | one `CTreasurePool`, its members' inventories reduced to free slots, and the clock |
| `TreasurePoolProofs` | theorems about `TreasurePool`: types and books |
| `TreasurePoolVerdicts` | theorems about `TreasurePool`: lots, verdicts and the time a lotter has |
| `Parties` | parties, alliances, membership of treasure pools, invitations, zone changes |
| `PartiesProofs` | theorems about `Parties` |
| `MapLink` | the server's half of the UDP link to one client, the client and the network as its environment |
| `FifoLink` | what the link promises; `MapLink` is shown to implement it |
| `MapLinkProofs` | theorems about `MapLink` |
| `Trade` | the trade between players: packets 0x032-0x034, containers, inventories |
| `Barter` | what a trade promises; `Trade` is shown to implement it |
| `TradeProofs` | theorems about `Trade` |
| `StatusEffects` | the status effects of one character or monster |
| `StatusEffectsProofs` | theorems about `StatusEffects` |
| `Delivery` | the delivery box: packet 0x04D, containers, the table `delivery_box` |
| `DeliveryProofs` | theorems about `Delivery` |
| `Lists` | loops over lists of which entries are erased, shared by the modules above |
| `IterationLemmas` | what such loops do, for the provers |
| `MC...` | instances of these for TLC |

A handler runs to its end before anything else happens, so each action is a
whole handler, with every call it makes that changes state.

### TreasurePool

Variables carry the names of the members of the class. `members` is the set of
the vector's elements: its order decides nothing but which of several equally
entitled members a random number picks, and that choice is nondeterministic.
`Lotters` stays a sequence, because two pieces of code depend on its order: the
strict comparison that makes the first of equal lots win, and the loop in
`DelMember` that skips the entry after one it erases (`Erased`).
`CheckTreasureItem` is `Outcomes` (what may become of a slot, including the
refusal of `charutils::AddItem` and a random winner) followed by `Settle`.
`CheckItems` looks at the slots in order; `Room` lets a slot that was won before
take a member's last inventory slot. `AddItem` stands for `AddItem` and
`AddItemFromChest`, which differ in the packet they send. `NewPool` is the
constructor with the `AddMember` that always follows it.

Time: `now` is `gettick()`. Timers are given their own due time, which may lag
behind `gettick()` (`CTaskMgr::DoTimer`): `ZoneTimer` picks a lag up to `MaxLag`.
`MaxLag = Lead` in the runs: in ticks of 2500 ms the code allows for exactly
such a lag by setting `TimeStamp` back. `BootTick` stands for the 27 hours that
`gettick` adds; `TickAssumption` says that the server is restarted before its
32-bit tick wraps (49 days). All subtractions are made modulo `TickWidth` as in
the code.

`found`, `settled`, `hist` and `verdicts` are history: nothing reads them but
the properties. `Lot` is what a client does (one lot per item, a pass perhaps
after it); `StaleLot` is the same packet delivered twice or after its item has
gone, which `LotItem` does not refuse; it is enabled by the constant `StaleLots`.

### Parties

The objects live in one record `heap` under small numbers; each C++ method is an
operator from heap to heap, so that nested calls read as in the source, and a loop over
the members or the parties of an alliance is `InTurn`, the method applied to one after the other.
`heap.broken` is set where the code would use freed memory, run off a list or
break an assertion; after that nothing is claimed. `partyid` is the column of
`accounts_sessions`. A character is `arrived` while `loc.zone` is not NULL;
between `ZoneOut` and `ZoneIn` it is on its way (or logged out: `Logout` is the
clean-up in `map.cpp`, after which the character may come back).

0x00A has two ways in. Into an ordinary zone it calls `IncreaseZoneCounter`, which
sees to the treasure pool. Into a mog house (`Houses`; residential area 0 and zone 214,
`packet_system.cpp:359`) it only sets `loc.zone` (line 473): the character
is in the world, can be invited and promoted there, and has no pool (the comment at
line 824 knows it), unless its party or its alliance changes meanwhile, when it is given one
like everybody else. So `PoolsAgree`, `PartySharesPool` and `ArrivesWithoutPool`
except the houses, and nothing else does. On its very first login a character enters its home city
the same way; that arrival is not modelled.

All zones are in one region, the reach of an invitation. Left out: level sync,
quartermaster, death and prison checks, packets, monster and pet parties.

Two peculiarities of the code are kept as they are: entering a treasure zone
makes a new zone pool every time (`LoadPlayerZoneSettings`), and
`removeParty` hands its leader a pool without leaving a zone's pool.

### MapLink

A datagram is its id and its packets; the cipher and the compression are gone
but for one effect, the size check of `send_parse` (`Bulky`). Datagrams stay in
the network, and may arrive again, until they are lost; `MaxAge` bounds how many
newer datagrams a delayed one can survive, and `WidthAssumption` puts it below
`IdWidth`: with 2^16 ids, datagrams that old have long expired.
The client is not in this repository: it is modelled from what `parse` expects,
namely the id of the last datagram it could read. Logging in again, which resets
the ids, belongs to the planned module of sessions.

The client sends no datagram that unpacks to more than 1800 bytes. The server would not serve it:
`parse` and `send_parse` return early (`map.cpp:550-554`, `641-646`), and `do_sockets` sends the client its
own bytes back and keeps them as `server_packet_data`, in place of the open datagram. That path is not modelled,
and the properties of the link are not claimed for it.

### Trade

An inventory is a function from slots to items, and a container maps places of
the trade window to slots of its owner's inventory, as the code's pointers do.
`UpdateItem`, `AddItem` (of an item) and `AddNew` (`AddItem` by id) are operators
from inventory to inventory with every refusal of the code. `DoTrade` applies
`MoveSlot` to the places of the window in their order (a recursive function): it looks neither
at whether the target could take an item nor at what the lock protected, and it is the guard
`CanTrade` that has to make this safe. `StockAssumption` says what players start with:
slots within their stacks, no reserves, and nobody a rare item twice. A third player, items that arrive from elsewhere
(`Arrive`), and zone changes (`Leave`, which is 0x00D) disturb the two sides at any moment.

The client is modelled where the server relies on it: it does not ask while in a
trade, does not accept twice, confirms and lays out only with its window open,
changes nothing after it has confirmed, and puts an item into one place of the
window only. Every datagram is handled once. Without that assumption the server
does not keep the promise: a 0x034 that arrives again after the confirmation
changes the reserve of an item in a locked container (see the hazards).

`Barter` knows only what each player owns, has laid out and whom he stands by.
A `Deal` needs both sides to be firm and moves exactly both offers at once. The
mapping reads the holdings off the inventories, the offers off the reserves of
what the window points at, and `firm` off the lock of a container in a live trade.
`Barter` lets goods be lost in one case, which the code has: where both sides'
goods together exceed what one can hold (gil past its stack).

### StatusEffects

The container's methods are operators on a record of the list, the icons and the
owner's modifiers. `Sweep` is the loop shared by all the deleting methods, `Round` one turn of it; `doomed`
is the set of effects that meet the method's condition, and `back`
says whether the loop steps back after a removal (`RemoveStatusEffect(i--)`)
or goes on and skips the neighbour, as `EraseAll`, `DispelAll` and `KillAll` do.
`Hook` is the effect that a script's `onEffectLose` deletes (healing deletes
leavegame in `scripts/globals/effects/healing.lua`), while the loop above it goes on.
`Row` is a row of the table `status_effects`: `CanGain`, `Overwrite` and
`DelByType` follow its columns in the code's order.

An entity is a character or a monster, in the world, leaving, or offline, and
alive, dead, or down after `ActionDeath`. A respawning monster gets its first
modifiers back (`restoreModifiers`) after a `KillAll` that may have skipped
effects: `unsynced` remembers it. `Saved` divides the unsigned remainder into whole
seconds, so that less than a second becomes 0, a permanent effect, and an overdue
one wraps. `LoadStatusEffects` adds the rows in any order, for its query names none.
`ZoneIn` is the arrival in an ordinary zone; into a mog house, which is entered without `IncreaseZoneCounter`, nothing is swept, and
that arrival is not modelled here.
`taken` counts songs that took the place of another bard's, which `ApplyBardEffect`
adds without counting (the `return` before the count).

### Delivery

`rows` is the table `delivery_box` with its primary key and the trigger that
numbers new mails (`NextNumber`; its first number is 10 in the code, the first past
the cells here). Box 1 holds mails, box 2 what a sender sees of them. The table is
MyISAM: rollbacks do nothing, so every statement of a handler stands, and a handler
that stops half way is modelled with what it has done (`Cancel`, `Return`).
`box` is `UContainer`: its first places are the cells of a window, the second
half new mails. `sent` is the mark in the container, `seen` what the client shows.

A client shows one window at a time, waits for the answers and sends 0xFF where
a request has no slot: action 0x07 falls through to 0x09 and 0x04 to 0x05 (the
`break` is missing), which does nothing then. A window may be lost at any moment
(`ZoneIn`, a broken connection). Of the arrivals of 0x00A, two call `RecoverFailedSendBox` (lines 613 and 789);
a character with `login_status` 3 (line 618), or one that was not changing zones (line 521), returns before
it, and keeps its unsent rows until it opens its send box or arrives otherwise. Items are single pieces of stack size 1.

`gone`, `forgotten`, `copied` and `mixed` name the ways in which items do vanish or double:
thrown away or refused by a full inventory; deleted unread by `RecoverFailedSendBox`; a send box closed after 0x03, or
0x04 after the receiver has taken the mail; and a mail taken by 0x05 under the
number of a cancelled one. `OnlyKnownLosses` and `OnlyKnownCopies` say that there are no others.

`RecoverFailedSendBox` does not do what its comment says ("Recovers items that were inserted into send box but were
not successfully delivered", `charutils.cpp:4225`). Its loop reads the rows from `SqlHandle`, and the
first `AddItem` that finds room makes a query on the same handle, which frees the result (`sql.cpp:292`); the next
`Sql_NextRow` fails and the loop ends. The `DELETE` after it removes all unsent rows nevertheless. With two
unsent items one comes back and the other is lost, with room for both and without any crash. `Recover` gives
back the rows up to the first that fits and puts the rest into `forgotten`. An item that `AddItem`
refuses makes no query: the loop goes on, and the item is lost as `gone`.

## Runs

| run | instance | shows |
|---|---|---|
| `pool_party` | 2 members, 2 slots, 3 drops, lots 0-2, life 2 ticks, a pool that starts solo | types, books, lots, fairness, no early verdict |
| `pool_alliance` | 3 members, 1 slot, 2 drops, party or zone pool | lots and fairness with ties, departures in the middle, alliance size |
| `pool_late` | 2 members, 1 slot, 2 drops, repeated and late lots | books, and every drop is settled |
| `pool_leaver` (violation) | zone pool | an item can go to a character that has left |
| `link` | 4 packets, batches of 2, ids modulo 4 | in order, once, all arrive; implements `FifoLink` |
| `link_bulky` (violation) | one packet too large | the link stalls for ever |
| `parties` | 3 characters, 3 zones (a field, a treasure zone, a mog house), 5 invitations, full party 2; from nothing, from 3 parties and from a full alliance of 3 | lists, database column, pools, also when alliances shrink or dissolve |
| `parties_arrival` (violation) | as `parties` | arriving with a pool |
| `parties_alliances` (violation) | as `parties` | a party in two alliances |
| `trade` | 3 players, 2 slots, 2 places, gil, a rare item, a stack of 2, 3 events | implements `Barter`; nobody is stranded; rare items and offers |
| `effects` | 10 effects, one for each rule of the table, 3 gains, 2 ticks, a character and a monster | exclusion, modifiers, icons, songs, loops, saving and loading |
| `delivery` | 2 players, 2 items (one rare), 2 cells, 2 mails, inventories of 2 | nothing is lost or doubled but in the named ways |

Why the bounds are enough. *Pools*: the third drop into two slots forces an
eviction; a life of 2 ticks with a lag of 1 and a lead of 1 has every relation
of the two clocks; one spare inventory slot per member (refilled by `Inventory`)
makes full inventories, and two slots settled in one check, happen; three
members are the fewest for a departure that leaves two others undecided.
*Link*: 4 packets in batches of at most 2 with ids modulo 4 let ids wrap. *Parties*: with full parties of 2 the race for the last place needs three
characters; four invitations from nothing reach crossed invitations between leaders and parties
founded, joined into an alliance and dissolved. Three parties need more characters
than TLC can manage from nothing, so `parties` also starts from three parties that have two invitations
left, with which they make two alliances, and from a full alliance of them, in states
that the game reaches with the help of others who have left. The mog house doubles as the second zone into
which parties scatter. Two larger instances take too long for every day and were checked as well: five invitations from
nothing (1.1 million states), and two ordinary zones besides the house and the treasure zone (3.4 million). *Trade*: a third
player is the fewest that can interfere; two places make partial exchanges
and gil with an item happen; three events let a request cross a departure and an
arrival of the rare item. *Effects*: three gains and two ticks put a blocking, a blocked and an
expiring effect together; for three songs of one bard, which would take four gains, the run
also starts after two. Two icons overflow with three effects. *Delivery*: two mails make a number be
used again after a cancellation and a return cross a sending; inventories of two
fill up. `MaxMails` also counts the arrivals that recover nothing and leave rows behind: one of them with one
mail, or two, leave two unsent rows for a later recovery, next to those that the windows leave. Without a bound on such arrivals the
run has 2.5 million states, and no error. One cell with three mails was checked as well. Symmetry is used
only where no liveness property is checked. Deadlock is not checked in
the party, trade and effects runs: their bounds are used up. It is checked in `delivery`.

The violation runs each check a sentence of the repository:
`DSP_DEBUG_BREAK_IF` assertions (compiled only into debug builds,
`common/cbasetypes.h`), a log message and a comment. `PROJECT.json` quotes them under
"findings".

`PartySharesPool` is stated for as long as alliances list only parties that know
of it. Without that condition it fails as a consequence of `parties_alliances`: in
a party that two alliances list, a new member takes its pool from the wrong one.

### Fairness

`pool_late` assumes weak fairness of the clock and the zone timer: the
kernel loop runs timers for ever and time passes. Members need not lot and
inventories need not change. `EveryDropSettles` promises nothing once nobody is
in the pool: its timer round goes through its members. The clock is bounded, but `LastDrop`
leaves every drop the ticks it needs. `link` assumes weak fairness of the client's polling, and strong
fairness of serving a current poll and of accepting some datagram: what is sent again and
again arrives in the end.

## Proofs

The theorems hold for every value of the constants that satisfies the named assumptions of the modules.

`IterationLemmas` is what they share. A first-order prover cannot take an induction
principle as a parameter, so its lemmas speak of sets and functions: what holds before the
first round of a loop and is kept by every round holds after each (`KeptByRounds`), a loop
whose rounds stay in a set has a run (`RunExists`), the least number of a set exists and `Min` finds it,
and `Restricted` is a list of exactly the kept entries in their order. Each argues by the least round that goes wrong.

**Treasure pools: books** (`TreasurePoolProofs`). `TypeCorrect`, `CountCorrect` and `DropsCorrect` prove
`TypeOK`, `CountIsOccupied` and `DropsConserved` of every pool.
All three follow from `BooksInvariant`. `CountIsOccupied` alone is not
inductive: a new pool starts with `m_count = 0`, which is right only if the slots were empty
(`AbsentPoolIsEmpty`), and slots must be typed for their number to be
finite. So the invariant is `Books`: types, count, conservation, and emptiness of a
pool that does not exist. The step that needs thought is `AddItem`: a full pool
must settle the item in the chosen slot, that is, `Due(Overdue(item), now, room)` must hold;
it does because `now` exceeds `LiveTime` after boot (`TickAssumption`). The
rest is counting: removing the settled slots from the occupied ones. Repeated and
late lots are in these theorems (`StaleLots` is any boolean).

**Treasure pools: verdicts** (`TreasurePoolVerdicts`). `LottersCorrect`, `VerdictsCorrect`, `NotTooEarly` and
`PartyWinnersAreMembers` prove `LottersAreDecisions`, `VerdictsAreFair`, and, of pools that are not a zone's, `NoEarlyVerdict` and
`WinnersAreMembers` (of a zone's pool the latter is false: run `pool_leaver`). The invariant `Ledger` ties what the pool holds to what was done: the entries of a slot
are the members who spoke about the item in it, each once and with its last word; an empty slot has none (`AddItem`
relies on it, it does not reset them); and the slot bears the tick of its drop. All four assume `~StaleLots`: a
repeated lot makes a second entry, and then the first is false. `NotTooEarly`
also assumes `MaxLag <= Lead`, that timers lag no more than `TimeStamp` was set back: a
longer lag wraps the difference and settles an item that has just dropped. The hard part is departures: the loop of `DelMember`
erases the entry of one who leaves and skips the next, and since nobody has two entries, what it
skips is never another of his (`Skipping`, `RestrictedElements`).

**Link** (`MapLinkProofs`), for every width of the id, every lifetime of a datagram below that width, every size of a datagram
and every number of packets (`WidthAssumption`): `LinkTypeCorrect`, `OneOpenCorrect`,
`NothingLostCorrect`, and `LinkImplementsFifo`, the refinement of `FifoLink`.
They follow from `LinkInvariant`. The invariant `LinkInv` adds to the checked ones what makes them inductive: the id
(or acknowledgement) of any datagram in the network plus its age is the server's id, or exceeds it by `IdWidth`
(`NetworkAges`); a client datagram is at least as old as the client is behind; and of the server's datagrams only the
last one built is of age 0. Then a datagram that acknowledges the server's id is of age 0, so the client has
everything (`AcknowledgedMeansRead`), and one with the id the client waits for can only be the last one built
(`AcceptsTheOpenOne`), as an older one would have to be `IdWidth - 1` old, which no datagram becomes.
The rest is associativity of concatenation. For the refinement, what the client has read is a prefix of
the numbered packets before and after each step, so an `Accept` is a `Deliver`, or a stutter if the datagram was empty.

**Trades** (`TradeProofs`), for any number of players, items and slots (`TradeConstants`, `StockAssumption`):

- `NobodyStranded` (`OnlyLeaversStrand`). The invariant `DealInv` adds only the types of the pending partners and of the
  containers. In it, whoever is in a trade and was not torn from it has a partner that points back and is in it too, so
  a third player can be neither side: `Ask` is refused by the target's container and by the asker's own trade,
  `Accept` needs two empty containers, and `Cancel` and the exchange empty either both containers of a
  trade or one that had no partner (`CleanedStep`). Changing locks and slots does not touch it (`SameTypes`).
- `TradeTypeCorrect` (`TypeOK`): in particular no slot ever exceeds its stack or falls below nothing, whatever `DoTrade`
  moves, since `UpdateItem` refuses what is not there and caps what is too much.
- `RareItemsOnce` (`RareOnce`): nobody holds a rare item twice. `DoTrade` hands items over without asking, and it is the
  refusal in `AddItem` that saves it in each of its rounds, also when an item arrives between laying out and confirming.
- `OffersStayOwned` (`OffersAreOwned`): what a window shows is in its owner's inventory, each slot in one place and with no more
  reserved than there is. An arrival uses a free slot, or adds to gil; and the exchange that takes from the slots empties the windows.

These three are one induction over `TradeInv`; the rounds of `DoTrade` keep `GoodBags` by `KeptByRounds`.

- `TradeImplementsBarter` (`TradesAreBarter`): every packet is a step of `Barter`, or none. The invariant is `BarterInv`, which adds to
  `TradeInv` that a container out of a trade is clean, and that of two who trade one at most has confirmed (`Lasting`): without it an accepted
  trade could start confirmed, or a late confirmation exchange twice. What a player holds and offers are sums over slots,
  recursive functions; the lemmas from `TotalSums` to `TotalNat` say how a sum answers to a change of one slot. `DoTrade` keeps `Moved`:
  after `k` places the giver has lost and the taker has got what these places offer, and for the rest there is still room and no rare
  item twice. That each place takes at most one free slot, and that a rare item is offered in one place only (`Once`), is what makes `CanTrade`,
  asked once before the loop, enough for every round. The second half starts from changed inventories, and `StillFits`
  shows that what the first did cannot make it fail: free slots only come, and what is laid out stays, but for gil that grows.

**Parties** (`PartiesProofs`): `PartiesTypeCorrect`, `PartiesStayAgreed`, `SessionsStayAgreed` and
`PoolsStayAgreed` prove `TypeOK`, `PartiesAgree`, `SessionsAgree` and `PoolsAgree`, for any number of
characters, zones and objects. None of these is inductive alone. `PartiesInvariant` proves their conjunction with what
the methods rely on:

- `Ready`: pools and characters agree, and one more pool can be made. A new pool finds a free number because every pool
  that is not a zone's has a member of its own, and those of zones are no more than the visits (`PoolsSuffice`, a counting argument);
- `Listed`: a character is in the list of its own party, once, and in no other;
- `LivesLed`: a party that exists has its leader among its members, and no more members than it may;
- `Sessions`: the column `partyid` names the leader of the party a character is in;
- `MainListed`: an alliance's lead party is in its list, so that a list that is dissolved is not empty;
- nobody is invited by himself, and who has arrived anywhere but in a mog house has a pool (`Pooled`), unless `broken` is set.

The methods call each other with half-changed heaps, so every method has lemmas of its own that say which parts it keeps
and what it may break for whom, and the handlers follow from these; `Housed` says that a method leaves nobody without
a pool that had one. Loops (`InTurn` over the parties of an alliance that dissolves) are `KeptByRounds`.

`PartiesSharePools` is `PartySharesPool`, for alliances of up to three parties (`AllianceSize <= 3`): the code refuses a fourth (`packet_system.cpp:3612`)
and `DissolveAlliance` knows how to take apart no more (`alliance.cpp:64`). It rests on `PartiesInvariant` and on `SharingInv`, which TLC
confirmed on the run's instance before it was proved: as long as no freed memory has been used,

- `Registered`: a party is in the list of the alliance it points at, the lead party is the first of its list, no list is overfull;
- `Zoned`: only who is in a treasure zone is in the pool of one;
- `Gathered`: members of a party in no alliance share their pools zone by zone (`Solo`), and so do the members of the parties of one alliance (`Groups`).

The last cannot be had for every alliance. `DisbandParty` and a second alliance leave *strays*, parties in the list of an
alliance that does not know of them any more, and `ReloadTreasurePool` looks for company in the order of the list: it may follow a stray into a pool of strangers.
So `Groups` speaks of the parties before the first stray only. Even that fails once an alliance has two of them (`Hopeless`),
but then it never loses one: who tries to take it apart is reloaded from a freed party or meets a failing
assertion. So `Gathered` may give up there: the property asks for lists without strays, and a hopeless heap does not get such
lists back. `DisbandShares`, `RemovePartyShares`, `DissolveShares` and `AddPartyShares` say what each method does to this: a member that has shared
no pool since its party went behind a stray makes the second stray when that party goes (`OwnTogether`, `TwoStrays`). `AllReloaded` follows `AddParty` through
its loop: whoever finds a pool of the alliance in its zone joins it, and its own party's members after it do the same.

**Status effects** (`StatusEffectsProofs`): `EffectsTypeCorrect`, `ModsStayInSync`, `IconsStayCurrent` and
`SongsStayBounded` prove `TypeOK`, `ModsInSync`, `IconsCurrent` and `SongsBounded` for every table of effects, every set of
casts, any number of songs and icons (`EffectsAssumption`). All follow from `EffectsInvariant`.

- Every method relates the container before to the one after by `Kept`: types, modifiers and icons are right
  if they were, and the list has only effects it had (`Fewer`: it maps one to one into the old list, with
  id, power and bard the same, and all of them unchanged). `RoundKeeps` and `SweepKeeps` carry it through the loops, whatever is doomed, whether
  they step back or not, and whatever a script deletes meanwhile; `DeletionsKeep` through deletions in turn.
- The sum of the powers of an id is a recursive function. The lemmas from `PowerOfSums` to `PowerOfRemoved` say what
  appending, removing and ageing do to it.
- Icons: an entry's place among those with an icon is its rank; removing an entry without an icon
  moves no rank (`RankMoved`, `IconsMoved`), which is why the code may leave out the update then.
- `SongsBounded` is not inductive. A bard that has `MaxSongs` songs loses the one that ends first (`EndsFirst`), but
  `DelStatusEffectWithPower` looks for it by id and power, and could find another bard's. That no two entries
  are the same song (`NoTwins`) makes it the right one. The
  saved rows carry both facts too, for they come back in any order; `LoadStatusEffectsKeeps` adds them one by one.

Three more results rest on what the data promise, stated as hypotheses that the theorems carry and that
`MCStatusEffects` has TLC confirm for the run's table (`TableAssumption`):

- `TwoSided`: of two ids that exclude each other, each, when gained, leaves none of the other. The code does not ask it, the table
  `sql/status_effects.sql` does it for all of its exclusive pairs but two: mute (29) removes silence (6) and
  bane (30) removes curse (9), which remove nothing in turn; so the theorems speak of a game without these two, and of them only `RivalsNeverMeet` does.
- `TameHooks`: an effect whose script deletes another is never temporary, and if it ends with death so does the other.
  The only such script, `scripts/globals/effects/healing.lua`, deletes leavegame; healing is applied with duration 0, and both rows have the flag.

`RivalsNeverMeet` needs neither: with `Ousts(a, b)` for "gaining a leaves no b", two effects of which each ousts the other are never together
(`NoRivals`). It is kept because `NoRivals` itself makes one deletion of each id enough (`DeletedOnce`, `SweptOnly`), and what is
refused by a block is seen by its icon, which an effect never loses (`FromCasts`). Under `TwoSided` it is `Exclusive` (`EffectsExclude`).
`SweepsAreThorough` is `SweepsMissNothing`: a sweep that steps back has only spared effects behind it, and each round passes one or
shortens the list (`SweptThoroughly`); a script can only break that by deleting an effect the loop has passed, which moves
the next below the place it goes on from, and with tame hooks that effect would have been doomed itself.
`EffectsComeBack` is `ComesBack`: rows are temporary and without rivals (`EffectsInv` carries it through `Logout`), so that each row
loaded meets only strangers (`GainedAmongStrangers`): no rule speaks of them, and it is appended. Rows are read in an order that is
one to one, hence onto (`LoadedWhole`, `SparedRows`), and the sweep of zoning takes exactly its own (`SweepCounts`).

**Delivery box** (`DeliveryProofs`): `DeliveryTypeCorrect`, `LossesAreKnown` and `CopiesAreKnown` prove `TypeOK`,
`OnlyKnownLosses` and `OnlyKnownCopies` for any finite number of players and items, and any number of cells and mails
(`DeliveryConstants`). They follow from `DeliveryInvariant`, whose invariant `DeliveryInv` adds:

- `GoodRows`: the rows are finitely many, a sender has one row for each cell, and no mail's number reaches `Cells` plus the mails sent
  so far, so that the trigger's next number fits the column and is nobody else's;
- `OutAgrees` and `InAgrees`: an open send box has an item in exactly the cells of its rows, and the same item; what an inbox shows is the item of the
  mail of that number, if there is one, or both items are `mixed`. The containers are never compared with
  the table by the code, so this is what its handlers rely on when they give what the container says;
- for every item that is not noted, `OnePlace` (one piece: in one inventory or in one row) and `Somewhere`.

`Somewhere` has to leave out one kind of row, a `Ghost`: 0x04 marks a sending as not sent though the receiver has the mail, and
the container keeps its mark. Action 0x07 deletes such a row and gives nothing back; it may, for the row is the copy. That
is why a row whose mark in the container differs counts as a place against doubling and not against vanishing.
A recovery (`RecoverKeeps`) gives each item it takes from a row to the inventory or notes it, in `gone` if it was refused and
in `forgotten` if its row was not read.
`Assemble` and `RowsRemoved` say once what a handler has to show, and each handler has a lemma. The loop
of 0x05 keeps `Round(p)`: the rows are those of before but for their marks and the numbers of mails
(`Follows`), and no one else's mails are touched.

**What is only model-checked**, and why:

- liveness (`EveryDropSettles`, the arrival of every packet): out of the prover's reach. No other property of a passing run is without a theorem;
- the properties of the violation runs: TLC shows that the code does not have them.

## Not modelled

- *Repeated datagrams in handlers*: `MapLink` shows that a request whose answer was lost
  is executed again. Only lots (`StaleLot`) are modelled with it; trades and the
  delivery box are not.
- *Sessions*: creating, closing and cleaning them up, logging in again, a restart of the map server.
  Their code queues closing and frees memory from several places; next in the plan.
- *Auction house, shops, bazaar, crafting*: requests of one packet over the same inventories.
- *Delivery*: quantities, the auction house's mails, numbers past 255 of the column `slot`.
- *Effects*: corsair rolls, pets, shadows, the effects of monsters' own scripts.
- *Combat, AI, pathfinding, content*: formulas, geometry and data, whose control depends on all of it.

## Plan

1. `Session`: login hand-over, repeated logins, clean-up, restart; with `MapLink` for ids.
2. `Trade` over a link that repeats requests.
3. The auction house on top of `Delivery`; `Enmity` as operators.
4. Theorems about what 1 to 3 add.
