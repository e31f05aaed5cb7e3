--------------------------- MODULE MCStatusEffects ---------------------------
(* Rows of the table status_effects for each of its rules.                 *)
EXTENDS StatusEffects, TLC

CONSTANTS haste, slow, sleep, lullaby, burn, frost, minuet, poison, healing, leavegame

With(flags, type, overwrite, negative, block, remove) ==
    [flags |-> flags, type |-> type, overwrite |-> overwrite,
     negative |-> negative, block |-> block, remove |-> remove]
OnDeath == {"DEATH"}

MCRow == [i \in Ids |-> CASE
       i = haste     -> With(OnDeath \cup {"DISPELABLE"}, 0, "equal or higher", slow, None, None)
    [] i = slow      -> With(OnDeath \cup {"ERASABLE"}, 0, "higher", haste, None, None)
    [] i = sleep     -> With(OnDeath \cup {"DAMAGE"}, 2, "never", None, lullaby, None)
    [] i = lullaby   -> With(OnDeath \cup {"DAMAGE"}, 2, "never", None, sleep, None)
    [] i = burn      -> With(OnDeath \cup {"ERASABLE"}, 0, "equal or higher", None, None, frost)
    [] i = frost     -> With(OnDeath \cup {"ERASABLE"}, 0, "equal or higher", None, burn, None)
    [] i = minuet    -> With(OnDeath \cup {"DISPELABLE"}, 0, "ignore", None, None, None)
    [] i = poison    -> With(OnDeath, 0, "never", None, None, None)
    [] i = healing   -> With(OnDeath \cup {"DAMAGE"}, 0, "equal or higher", None, None, None)
    [] i = leavegame -> With(OnDeath \cup {"DAMAGE"}, 0, "equal or higher", None, None, None)]

MCHook == [i \in Ids |-> IF i = healing THEN leavegame ELSE None]

Cast(id, power, sub, subPower, dur) ==
    [id |-> id, icon |-> IF dur = 0 THEN None ELSE id, power |-> power, sub |-> sub,
     subPower |-> subPower, wears |-> id \in Songs, dur |-> dur, left |-> 0]

MCCasts ==
    {Cast(haste, 1, 0, 0, 2), Cast(slow, 2, 0, 0, 2), Cast(slow, 2, 0, 1, 2),
     Cast(sleep, 1, 0, 0, 2), Cast(lullaby, 1, 0, 0, 2), Cast(burn, 1, 0, 0, 2),
     Cast(frost, 1, 0, 0, 2), Cast(poison, 1, 0, 0, 3),
     Cast(healing, 0, 0, 0, 0), Cast(leavegame, 1, 0, 0, 0)}
    \cup {Cast(minuet, p, 1, 0, 3) : p \in 1 .. 3} \cup {Cast(minuet, 3, 2, 0, 3)}

\* The hypotheses of EffectsExclude and SweepsAreThorough hold of this table.
ASSUME TableAssumption == TwoSided /\ TameHooks

\* Besides the entity without effects, one that a bard has sung two songs to.
Serenaded ==
    /\ kind = "pc" /\ place = "world" /\ life = "alive" /\ rows = <<>>
    /\ box = InTurn(AddStatusEffect, Nothing, <<Cast(minuet, 1, 1, 0, 3), Cast(minuet, 2, 1, 0, 3)>>)
    /\ applied = MaxEvents - 2 /\ clock = 0
    /\ taken = [b \in Bards |-> 0] /\ unsynced = FALSE

MCSpec == (Init \/ Serenaded) /\ [][Next]_vars
=============================================================================
