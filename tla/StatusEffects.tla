---------------------------- MODULE StatusEffects ----------------------------
(***************************************************************************)
(* The status effects of one battle entity: CStatusEffectContainer         *)
(* (src/src/map/status_effect_container.cpp) and what the server does to   *)
(* it: spells, songs, erasing and dispelling, expiry, death, changing      *)
(* zones, and saving and loading when a character logs out and in.         *)
(*                                                                         *)
(* The container's methods are operators on a record s of the list, the    *)
(* icons and the owner's modifiers, and return it changed.  Ticks count a  *)
(* fraction of a second; `left` is Duration + StartTime - gettick().       *)
(***************************************************************************)
EXTENDS Integers, FiniteSets, SequencesExt, Lists

CONSTANTS
    Ids,        \* effect ids
    None,       \* no id (EFFECT_NONE in the table's columns)
    Row,        \* [Ids -> a row of the table status_effects]
    Hook,       \* [Ids -> the id its script's onEffectLose deletes, or None]
    Songs,      \* EFFECT_REQUIEM .. EFFECT_NOCTURNE
    Sleep, Lullaby, Haste, Slow, Poison, Healing,
    Immune,     \* ids a monster is immune to
    Casts,      \* the effects that may be applied
    MaxSongs,   \* songs of one bard on one target
    MaxIcons,   \* icons a client shows (32)
    Second,     \* ticks of a second
    TickWidth,  \* 2^32
    MaxEvents,  \* bound: effects applied
    MaxClock    \* bound: ticks that pass

Overwrites == {"equal or higher", "higher", "never", "always", "ignore"}
Flags == {"DISPELABLE", "ERASABLE", "DAMAGE", "DEATH", "ON_ZONE"}
Rows == [flags : SUBSET Flags, type : Nat, overwrite : Overwrites,
         negative : Ids \cup {None}, block : Ids \cup {None}, remove : Ids \cup {None}]

Bards == {e.sub : e \in {c \in Casts : c.id \in Songs}}
Effect == [id : Ids, icon : Ids \cup {None}, power : Nat, sub : {c.sub : c \in Casts},
           subPower : {0, 1}, wears : BOOLEAN, dur : Nat, left : Int]

ASSUME EffectsAssumption ==
    /\ None \notin Ids /\ Row \in [Ids -> Rows] /\ Hook \in [Ids -> Ids \cup {None}]
    /\ \A i \in Ids : Hook[i] # None => Hook[Hook[i]] = None
    /\ Songs \subseteq Ids
    /\ {Sleep, Lullaby, Haste, Slow, Poison, Healing} \subseteq Ids
    /\ Immune \subseteq Ids /\ Casts \subseteq Effect
    /\ MaxSongs \in Nat \ {0} /\ MaxIcons \in Nat /\ Second \in Nat \ {0}
    /\ TickWidth \in Nat \ {0} /\ MaxEvents \in Nat /\ MaxClock \in Nat

VARIABLES
    kind,       \* "pc" or "mob"
    box,        \* the container: list, icons, mods
    place,      \* "world", "leaving" (out of every zone) or "offline"
    life,       \* "alive", "dead", or "down" once ActionDeath has run
    rows,       \* the owner's rows of char_effects
    applied,    \* effects applied so far
    clock,      \* ticks passed so far
    taken,      \* history: songs a bard put in the place of another's
    unsynced    \* history: a respawn has reset the modifiers of effects that stayed

vars == <<kind, box, place, life, rows, applied, clock, taken, unsynced>>

TypeOK ==
    /\ kind \in {"pc", "mob"} /\ life \in {"alive", "dead", "down"}
    /\ place \in {"world", "leaving", "offline"}
    /\ box \in [list : Seq(Effect), icons : Seq(Ids), mods : [Ids -> Int]]
    /\ rows \in Seq(Effect)
    /\ applied \in 0 .. MaxEvents /\ clock \in 0 .. MaxClock /\ unsynced \in BOOLEAN
    /\ taken \in [Bards -> Nat]

Nothing == [list |-> <<>>, icons |-> <<>>, mods |-> [i \in Ids |-> 0]]

Init ==
    /\ kind \in {"pc", "mob"} /\ place = "world" /\ life = "alive"
    /\ box = Nothing /\ rows = <<>>
    /\ applied = 0 /\ clock = 0
    /\ taken = [b \in Bards |-> 0] /\ unsynced = FALSE

-----------------------------------------------------------------------------
(* Looking at the list, taking an effect out of it.                        *)

Has(s, id) == \E n \in DOMAIN s.list : s.list[n].id = id
First(s, id) == Min({n \in DOMAIN s.list : s.list[n].id = id})

\* HasStatusEffect: an effect without an icon does not count.
HasStatusEffect(s, id) == \E n \in DOMAIN s.list : s.list[n].id = id /\ s.list[n].icon # None

\* Mutant: effects without an icon take a place too.
IconsWithBlanks(s) ==
    LET n == Min({Len(s.list), MaxIcons})
    IN  IF kind = "pc" THEN [s EXCEPT !.icons = [k \in 1 .. n |-> s.list[k].icon]] ELSE s

\* The icons of the first effects that have one.
Icons(list) ==
    LET seen == Restricted(list, {n \in DOMAIN list : list[n].icon # None})
    IN  [k \in 1 .. Min({Len(seen), MaxIcons}) |-> seen[k].icon]

\* UpdateStatusIcons: only a character has a client that shows them.
UpdateStatusIcons(s) == IF kind = "pc" THEN [s EXCEPT !.icons = Icons(s.list)] ELSE s

\* An effect's script and modList change the owner's modifiers by its power.
AddMods(s, id, by) == [s EXCEPT !.mods[id] = @ + by]

Erased(s, n) == [s EXCEPT !.list = RemoveAt(@, n)]

\* Mutant: the icons are updated before the effect is out of the list.
RemoveLate(s, n) ==
    LET e == s.list[n] IN Erased(AddMods(UpdateStatusIcons(s), e.id, -e.power), n)

\* RemoveStatusEffect without what the script deletes.
RemoveQuietly(s, n) ==
    LET e == s.list[n]
        t == AddMods(Erased(s, n), e.id, -e.power)
    IN  IF e.icon # None THEN UpdateStatusIcons(t) ELSE t

\* Mutant: what the script deletes leaves its modifiers behind.
RemoveLeavingMods(s, n) ==
    LET other == Hook[s.list[n].id]
        t == RemoveQuietly(s, n)
    IN  IF Has(t, other) THEN Erased(t, First(t, other)) ELSE t

\* RemoveStatusEffect: the script runs when the effect is out of the list.
RemoveStatusEffect(s, n) ==
    LET other == Hook[s.list[n].id]
        t == RemoveQuietly(s, n)
    IN  IF Has(t, other) THEN RemoveQuietly(t, First(t, other)) ELSE t

\* DelStatusEffect and DelStatusEffectSilent: the first with that id.
DelStatusEffect(s, id) == IF Has(s, id) THEN RemoveStatusEffect(s, First(s, id)) ELSE s

\* Mutant: no loop steps back.
NextForward(at, back) == at + 1

\* After a removal some loops step back (i--), so that the neighbour that moved
\* up is looked at, and others go on.
NextPlace(at, back) == IF back THEN at ELSE at + 1

\* A round of the loop "for (i = 0; i < size; ++i) if (...) Remove(i)" over the
\* list, w.at being i; doomed holds the effects for which the condition is true.
Round(w, doomed, back) ==
    IF w.at > Len(w.s.list) THEN w
    ELSE IF w.s.list[w.at] \in doomed
         THEN [s |-> RemoveStatusEffect(w.s, w.at), at |-> NextPlace(w.at, back)]
         ELSE [s |-> w.s, at |-> w.at + 1]

Sweep(s, doomed, back) ==
    LET after[k \in 0 .. Len(s.list)] ==
            IF k = 0 THEN [s |-> s, at |-> 1] ELSE Round(after[k - 1], doomed, back)
    IN  after[Len(s.list)].s

\* A song that was sung wears off in the next zone; one that was loaded does not.
Flagged(e, flag) == flag \in Row[e.id].flags \/ (flag = "ON_ZONE" /\ e.wears)
DelByType(s, type) ==
    IF type = 0 THEN s ELSE Sweep(s, {e \in ToSet(s.list) : Row[e.id].type = type}, TRUE)
DelByFlag(s, flag) == Sweep(s, {e \in ToSet(s.list) : Flagged(e, flag)}, TRUE)
DelByIcon(s, icon) == Sweep(s, {e \in ToSet(s.list) : e.icon = icon}, TRUE)

\* KillAllStatusEffect; no temporary effect's script deletes another.
KillAll(s) == Sweep(s, {e \in ToSet(s.list) : e.dur # 0}, FALSE)

-----------------------------------------------------------------------------
(* Applying an effect.                                                     *)

\* CanGainStatusEffect: immunity, an effect that blocks this one, then either
\* the negative one or an earlier one of the same id decides.
CanGain(s, e) ==
    LET row == Row[e.id]
        old(id) == s.list[First(s, id)]
    IN  /\ ~(kind = "mob" /\ e.id \in Immune)
        /\ ~HasStatusEffect(s, row.block)
        /\ IF Has(s, row.negative)
           THEN \/ e.power >= old(row.negative).power
                \/ e.id = Haste /\ row.negative = Slow /\ old(Slow).subPower = 1
           ELSE Has(s, e.id) =>
                \/ row.overwrite \in {"always", "ignore"}
                \/ row.overwrite = "equal or higher" /\ e.power >= old(e.id).power
                \/ row.overwrite = "higher" /\ e.power > old(e.id).power

\* Mutant: the negative effect stays.
OverwriteSame(s, e) ==
    LET same == IF Row[e.id].overwrite = "ignore" THEN <<>> ELSE <<e.id>>
    IN  InTurn(DelStatusEffect, s, same \o <<Row[e.id].remove>>)

\* OverwriteStatusEffect: of each, only the first is deleted.
Overwrite(s, e) ==
    LET same == IF Row[e.id].overwrite = "ignore" THEN <<>> ELSE <<e.id>>
    IN  InTurn(DelStatusEffect, s, same \o <<Row[e.id].remove, Row[e.id].negative>>)

\* AddStatusEffect, with what SetEffectParams does to the icon.  An end past
\* the largest tick wraps to one that has passed already.
AddStatusEffect(s, e) ==
    LET cleared == DelByType(Overwrite(s, e), Row[e.id].type)
        new == [e EXCEPT !.left = IF 2 * e.dur > TickWidth THEN e.dur - TickWidth ELSE e.dur,
                         !.icon = IF e.id = Lullaby /\ life = "alive" THEN Sleep ELSE @]
        t == AddMods([cleared EXCEPT !.list = Append(@, new)], e.id, e.power)
    IN  IF ~CanGain(s, e) THEN s ELSE IF new.icon # None THEN UpdateStatusIcons(t) ELSE t

Own(s, bard) == {n \in DOMAIN s.list : s.list[n].id \in Songs /\ s.list[n].sub = bard}
Same(s, e) == {n \in DOMAIN s.list : s.list[n].id = e.id /\ s.list[n].power = e.power}

\* DelStatusEffectWithPower
DelSame(s, e) == IF Same(s, e) = {} THEN s ELSE RemoveStatusEffect(s, Min(Same(s, e)))

\* Mutant: one song more.
ApplyBardLoose(s, e, max) ==
    LET own == Own(s, e.sub)
        oldest == Min({n \in own : \A m \in own : s.list[n].left <= s.list[m].left})
    IN  IF Same(s, e) = {} /\ Cardinality(own) > max
        THEN AddStatusEffect(DelSame(s, s.list[oldest]), e)
        ELSE AddStatusEffect(DelSame(s, e), e)

\* ApplyBardEffect: the same song of the same tier, whoever sang it, gives way;
\* with max songs of this bard the one that would end first does.
ApplyBardEffect(s, e, max) ==
    LET own == Own(s, e.sub)
        oldest == Min({n \in own : \A m \in own : s.list[n].left <= s.list[m].left})
    IN  IF Same(s, e) = {} /\ Cardinality(own) >= max
        THEN AddStatusEffect(DelSame(s, s.list[oldest]), e)
        ELSE AddStatusEffect(DelSame(s, e), e)

-----------------------------------------------------------------------------
(* What the server does to an entity in a zone.                            *)

InZone == place = "world" /\ life = "alive"
Change(s) == box' = s /\ UNCHANGED <<kind, place, life, rows, applied, clock, taken, unsynced>>

\* AddStatusEffect from a spell, an ability, an item or a script.
Gain(e) ==
    /\ InZone /\ e.id \notin Songs /\ applied < MaxEvents
    /\ box' = AddStatusEffect(box, e) /\ applied' = applied + 1
    /\ UNCHANGED <<kind, place, life, rows, clock, taken, unsynced>>

\* ApplyBardEffect; max is 2 with an instrument, 1 without.
Sing(e, max) ==
    /\ InZone /\ e.id \in Songs /\ applied < MaxEvents
    /\ box' = ApplyBardEffect(box, e, max) /\ applied' = applied + 1
    /\ taken' = IF \E n \in Same(box, e) : box.list[n].sub # e.sub
                THEN [taken EXCEPT ![e.sub] = @ + 1] ELSE taken
    /\ UNCHANGED <<kind, place, life, rows, clock, unsynced>>

\* A script, a spell or a click on an icon (packet 0x0F1) ends effects.
Cure(id) == InZone /\ Has(box, id) /\ Change(DelStatusEffect(box, id))
Cancel(icon) == InZone /\ kind = "pc" /\ icon \in ToSet(box.icons) /\ Change(DelByIcon(box, icon))

\* EraseStatusEffect, DispelStatusEffect and StealStatusEffect: any one.
EraseOne(flag) ==
    InZone /\ \E n \in DOMAIN box.list :
        /\ Flagged(box.list[n], flag) /\ box.list[n].dur > 0
        /\ Change(RemoveStatusEffect(box, n))

\* EraseAllStatusEffect and DispelAllStatusEffect: no step back.
EraseAll(flag) ==
    InZone /\ Change(Sweep(box, {e \in ToSet(box.list) : Flagged(e, flag) /\ e.dur > 0}, FALSE))

\* Physical damage; and CheckRegen of an entity that is poisoned.
Hurt == InZone /\ Change(DelByFlag(box, "DAMAGE"))
CheckRegen ==
    /\ InZone /\ box.mods[Poison] > 0
    /\ Change(InTurn(DelStatusEffect, box, <<Healing, Sleep, Lullaby>>))

\* CheckEffects, from the zone's timer.
Overdue(e) == e.dur # 0 /\ e.left <= 0
CheckEffects == InZone /\ Change(Sweep(box, {e \in ToSet(box.list) : Overdue(e)}, TRUE))

Aged(e) == [e EXCEPT !.left = @ - 1]
Tick ==
    /\ place # "offline" /\ clock < MaxClock
    /\ clock' = clock + 1
    /\ box' = [box EXCEPT !.list = [n \in DOMAIN box.list |-> Aged(box.list[n])]]
    /\ UNCHANGED <<kind, place, life, rows, applied, taken, unsynced>>

-----------------------------------------------------------------------------
(* Death, changing zones, logging out and in.                              *)

Die == InZone /\ life' = "dead"
       /\ UNCHANGED <<kind, box, place, rows, applied, clock, taken, unsynced>>

\* ActionDeath: a moment later for a character, 12 s later for a monster.
ActionDeath ==
    /\ life = "dead" /\ place = "world"
    /\ life' = "down"
    /\ box' = IF kind = "pc" THEN DelByFlag(box, "DEATH") ELSE KillAll(box)
    /\ UNCHANGED <<kind, place, rows, applied, clock, taken, unsynced>>

\* A character is raised; a monster spawns again, and CalculateStats restores
\* the modifiers it was made with.
Rise ==
    LET left == KillAll(box)
    IN  /\ life = "down" /\ place = "world"
        /\ life' = "alive"
        /\ box' = IF kind = "pc" THEN box ELSE [left EXCEPT !.mods = Nothing.mods]
        /\ unsynced' = (unsynced \/ (kind = "mob" /\ left.list # <<>>))
        /\ UNCHANGED <<kind, place, rows, applied, clock, taken>>

ZoneOut == kind = "pc" /\ place = "world" /\ place' = "leaving"
           /\ UNCHANGED <<kind, box, life, rows, applied, clock, taken, unsynced>>

\* IncreaseZoneCounter
ZoneIn ==
    /\ place = "leaving" /\ place' = "world"
    /\ box' = DelByFlag(box, "ON_ZONE")
    /\ UNCHANGED <<kind, life, rows, applied, clock, taken, unsynced>>

\* SaveStatusEffects: whole seconds, in uint32 arithmetic, of what is temporary.
Saved(e) == [e EXCEPT !.dur = (e.left % TickWidth) \div Second, !.left = 0, !.wears = FALSE]
Logout ==
    LET temporary == Restricted(box.list, {n \in DOMAIN box.list : box.list[n].dur # 0})
    IN  /\ place = "leaving" /\ place' = "offline"
        /\ rows' = [n \in DOMAIN temporary |-> Saved(temporary[n])]
        /\ box' = Nothing
        /\ UNCHANGED <<kind, life, applied, clock, taken, unsynced>>

\* Mutant: whatever the ticks, the character gets its effects from the start.
LoadedLonger(r) == [r EXCEPT !.dur = (@ + 1) * Second]

\* LoadStatusEffects: the query names no order; each row is applied anew.  The
\* rows stay until the next save deletes them unread: here they go at once.
Loaded(r) == [r EXCEPT !.dur = (@ * Second) % TickWidth]
LoadRow(s, n) == AddStatusEffect(s, Loaded(rows[n]))
LoadStatusEffects(order) == InTurn(LoadRow, Nothing, order)
Login ==
    /\ place = "offline" /\ place' = "world"
    /\ \E order \in SetToSeqs(DOMAIN rows) : box' = DelByFlag(LoadStatusEffects(order), "ON_ZONE")
    /\ rows' = <<>>
    /\ UNCHANGED <<kind, life, applied, clock, taken, unsynced>>

Next ==
    \/ \E e \in Casts : Gain(e) \/ \E max \in 1 .. MaxSongs : Sing(e, max)
    \/ \E id \in Ids : Cure(id) \/ Cancel(id)
    \/ \E flag \in {"ERASABLE", "DISPELABLE"} : EraseOne(flag) \/ EraseAll(flag)
    \/ Hurt \/ CheckRegen \/ CheckEffects \/ Tick
    \/ Die \/ ActionDeath \/ Rise
    \/ ZoneOut \/ ZoneIn \/ Logout \/ Login

Spec == Init /\ [][Next]_vars

-----------------------------------------------------------------------------
(* Properties.                                                             *)

\* Two ids exclude each other if they are one or of one type, or if one is the
\* negative of the other, blocks it or removes it.
Excludes(a, b) ==
    \/ a = b /\ Row[a].overwrite # "ignore"
    \/ a # b /\ Row[a].type = Row[b].type /\ Row[a].type # 0
    \/ b \in {Row[a].negative, Row[a].block, Row[a].remove}

\* No two effects that exclude each other are ever on an entity, however they
\* got there: spells, songs, or rows loaded in any order.  CanGainStatusEffect
\* stops at the first rule that applies, Overwrite deletes one effect of each
\* id, and only together do they keep this.
Exclusive == \A m, n \in DOMAIN box.list : m # n => ~Excludes(box.list[m].id, box.list[n].id)

\* Whether an effect of id a that is gained leaves none of id b: Overwrite and
\* DelByType delete it, or CanGain refuses a, which sees b by its icon.
Ousts(a, b) ==
    \/ b \in {a, Row[a].negative, Row[a].remove} /\ Row[b].overwrite # "ignore"
    \/ Row[a].type = Row[b].type /\ Row[a].type # 0
    \/ b = Row[a].block /\ \A c \in Casts : c.id = b => c.icon # None

\* What a table owes: of two ids that exclude each other, each ousts the other.
TwoSided == \A a, b \in Ids : Excludes(a, b) => Ousts(a, b) /\ Ousts(b, a)

\* What the scripts owe whose onEffectLose deletes a second effect: that one
\* ends with death if the first does, and the first is never temporary.
TameHooks == \A i \in Ids : Hook[i] # None =>
    /\ "DEATH" \in Row[i].flags => "DEATH" \in Row[Hook[i]].flags
    /\ \A c \in Casts : c.id = i => c.dur = 0

\* The power of all effects of an id.
PowerOf(list, id) ==
    LET sum[k \in 0 .. Len(list)] ==
            IF k = 0 THEN 0
            ELSE sum[k - 1] + (IF list[k].id = id THEN list[k].power ELSE 0)
    IN  sum[Len(list)]

\* The owner's modifiers are those of its effects and no others, after any
\* series of gains and losses, except ("remove all to keep mods in sync",
\* mobutils.cpp) when a monster spawned with effects that KillAll skipped.
ModsInSync == unsynced \/ \A id \in Ids : box.mods[id] = PowerOf(box.list, id)

\* The client's icons are those of the effects there are, in their order,
\* also when a script deletes a second effect while one is removed.
IconsCurrent == box.icons = UpdateStatusIcons(box).icons

\* A bard has at most MaxSongs songs on one target, plus those that took the
\* place of another bard's same song, which ApplyBardEffect does not count.
SongsBounded == \A b \in Bards : Cardinality(Own(box, b)) <= MaxSongs + taken[b]

\* Sweeps that step back miss nothing: no overdue effect outlives a round of
\* CheckEffects and none that ends with death its owner's ActionDeath, although
\* scripts shorten the list under the loop.
SweepsMissNothing ==
    [][/\ (\E n \in DOMAIN box'.list : Overdue(box'.list[n])) => ~CheckEffects
       /\ (\E n \in DOMAIN box'.list : Flagged(box'.list[n], "DEATH")) =>
              ~(ActionDeath /\ kind = "pc")]_vars

\* A character comes back with the effects it left with: none is refused or
\* overwritten by another, whatever the order of the rows, and those that had
\* a second or more left end no later than they would have.
ComesBack ==
    [][place = "offline" /\ place' = "world" =>
                /\ Len(box'.list) = Cardinality({n \in DOMAIN rows : "ON_ZONE" \notin Row[rows[n].id].flags})
                /\ \A n \in DOMAIN box'.list : \E r \in ToSet(rows) :
                      /\ r.id = box'.list[n].id /\ r.power = box'.list[n].power
                      /\ box'.list[n].left <= r.dur * Second]_vars
=============================================================================
