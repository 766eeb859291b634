--------------------------- MODULE GatewayProofs ----------------------------
(***************************************************************************)
(* Proofs about the components on the way of a call: the caches of         *)
(* configuration, rate limits, sign-in, the caches of answers and what is  *)
(* said at both doors, for any deployment.                                 *)
(***************************************************************************)
EXTENDS FiniteSetTheorems, SequenceTheorems, WellFoundedInduction, Integers,
        RoutingProofs, ReplicaPoolProofs, MCGateway, TLAPS

-----------------------------------------------------------------------------
(* Caches of configuration. *)

Values == Nat \cup {None}
CacheEntry == [v : Values, left : Nat, wrong : Nat]
Reading == [pc : {"query"}, at : Processes, v : Values, wrong : Nat, left : Nat]

ConfigTypes ==
    /\ subject \in Derived \cup Direct /\ written \in Nat /\ edited \in Nat
    /\ slot \in [Processes -> CacheEntry] /\ settings \in [Processes -> CacheEntry]
    /\ lookup \in [Lookups -> {NoLookup} \cup Reading]
    /\ edit.v \in Values /\ (edit # NoEdit => edit.v \in Nat)
    /\ edit.pc \in {"save", "drop"} => edit # NoEdit

\* How long a value may have been wrong grows only as fast as the time left of whatever
\* holds it shrinks: the query that reads it, then the document, then the cache.
Allowance == QueryTime + LifeOf(subject) + (IF subject \in Derived THEN Lifetime ELSE 0)
WithinTime ==
    /\ \A p \in Processes :
          /\ slot[p].left > 0 => slot[p].wrong + slot[p].left <= Allowance
          /\ settings[p].left > 0 => settings[p].wrong + settings[p].left <= QueryTime + Lifetime
    /\ \A r \in Lookups : lookup[r].pc = "query" => lookup[r].wrong + lookup[r].left <= QueryTime

ConfigInvariant == ConfigTypes /\ WithinTime

LEMMA Lifetimes ==
    ASSUME ConfigTypes
    PROVE  /\ LifeOf(subject) \in Nat /\ Allowance \in Nat
           /\ Lifetime \in Nat /\ AppLifetime \in Nat /\ QueryTime \in Nat /\ NoAnswer \in Nat
           /\ Blank \in CacheEntry
BY ConfigAssumption DEF ConfigAssumption, LifeOf, Allowance, NoAnswer, Blank, CacheEntry, Values

LEMMA ConfigInitial == ConfigInit => ConfigInvariant
<1> SUFFICES ASSUME ConfigInit PROVE ConfigInvariant
    OBVIOUS
<1>1. ConfigTypes
    BY DEF ConfigInit, ConfigTypes, Blank, CacheEntry, Values, NoEdit
<1>2. WithinTime
    BY DEF ConfigInit, WithinTime, Blank, NoLookup
<1>3. QED
    BY <1>1, <1>2 DEF ConfigInvariant

\* A cache of a process may take an entry that is within its time.
LEMMA SlotKeeps ==
    ASSUME ConfigInvariant, NEW p \in Processes, NEW entry \in CacheEntry,
           entry.left > 0 => entry.wrong + entry.left <= Allowance,
           slot' = [slot EXCEPT ![p] = entry], UNCHANGED <<subject, written, settings, edit, edited>>,
           UNCHANGED lookup \/ \E r \in Lookups : lookup' = [lookup EXCEPT ![r] = NoLookup]
    PROVE  ConfigInvariant'
<1>1. ConfigTypes'
    BY DEF ConfigInvariant, ConfigTypes
<1>2. Allowance' = Allowance
    BY DEF Allowance, LifeOf
<1>3. ASSUME NEW q \in Processes, slot'[q].left > 0
      PROVE  slot'[q].wrong + slot'[q].left <= Allowance
    BY <1>3 DEF ConfigInvariant, ConfigTypes, WithinTime
<1>4. ASSUME NEW r \in Lookups, lookup'[r].pc = "query"
      PROVE  lookup'[r] = lookup[r]
    BY <1>4 DEF ConfigInvariant, ConfigTypes, NoLookup
<1>5. QED
    BY <1>1, <1>2, <1>3, <1>4 DEF ConfigInvariant, WithinTime

LEMMA ReadsKeep ==
    ASSUME ConfigInvariant, NEW r \in Lookups, NEW p \in Processes,
           FromCache(r, p) \/ FromDocument(r, p) \/ Query(r, p)
    PROVE  ConfigInvariant'
<1>1. CASE FromCache(r, p)
    BY <1>1 DEF FromCache, ConfigVars, ConfigInvariant, ConfigTypes, WithinTime, Allowance, LifeOf
<1>2. CASE FromDocument(r, p)
    <2> DEFINE entry == CacheSlot(settings[p].v, settings[p].wrong, LifeOf(subject))
    <2>1. settings[p] \in CacheEntry
        BY DEF ConfigInvariant, ConfigTypes
    <2>2. entry \in CacheEntry /\ entry.wrong = settings[p].wrong /\ entry.left = LifeOf(subject)
        BY <2>1, Lifetimes DEF CacheSlot, CacheEntry, ConfigInvariant
    <2>3. subject \in Derived /\ settings[p].wrong + settings[p].left <= QueryTime + Lifetime
        BY <1>2, <2>1 DEF FromDocument, HasDocument, Usable, ConfigInvariant, WithinTime
    <2>4. entry.wrong + entry.left <= Allowance
        BY <2>1, <2>2, <2>3, Lifetimes DEF Allowance, CacheEntry, ConfigInvariant
    <2>5. slot' = [slot EXCEPT ![p] = entry]
        BY <1>2 DEF FromDocument
    <2> HIDE DEF entry
    <2>6. QED
        BY <1>2, <2>2, <2>4, <2>5, SlotKeeps DEF FromDocument
<1>3. CASE Query(r, p)
    <2>1. [pc |-> "query", at |-> p, v |-> written, wrong |-> 0, left |-> QueryTime] \in Reading
        BY Lifetimes DEF Reading, Values, ConfigInvariant, ConfigTypes
    <2>2. ConfigTypes'
        BY <1>3, <2>1 DEF Query, ConfigInvariant, ConfigTypes
    <2>3. ASSUME NEW s \in Lookups, lookup'[s].pc = "query"
          PROVE  lookup'[s].wrong + lookup'[s].left <= QueryTime
        BY <1>3, <2>3, Lifetimes DEF Query, ConfigInvariant, ConfigTypes, WithinTime
    <2>4. QED
        BY <1>3, <2>2, <2>3 DEF Query, ConfigInvariant, WithinTime, Allowance, LifeOf
<1>4. QED
    BY <1>1, <1>2, <1>3

LEMMA FillKeeps ==
    ASSUME ConfigInvariant, NEW r \in Lookups, Fill(r)
    PROVE  ConfigInvariant'
<1> DEFINE p == lookup[r].at
           entry(life) == CacheSlot(lookup[r].v, lookup[r].wrong, life)
<1>1. lookup[r] \in Reading /\ p \in Processes /\ lookup[r].wrong + lookup[r].left <= QueryTime
    BY DEF Fill, ConfigInvariant, ConfigTypes, WithinTime, NoLookup, Reading
<1>2. \A life \in Nat : /\ entry(life) \in CacheEntry
                        /\ entry(life).wrong + entry(life).left <= QueryTime + life
    BY <1>1, Lifetimes DEF CacheSlot, CacheEntry, Reading, ConfigInvariant
<1>3. /\ slot' = [slot EXCEPT ![p] = entry(LifeOf(subject))]
      /\ settings' = IF subject \in Derived THEN [settings EXCEPT ![p] = entry(Lifetime)] ELSE settings
      /\ lookup' = [lookup EXCEPT ![r] = NoLookup]
      /\ UNCHANGED <<subject, written, edit, edited>>
    BY DEF Fill
<1> HIDE DEF p, entry
<1>4. ConfigTypes'
    <2>1. slot' \in [Processes -> CacheEntry] /\ settings' \in [Processes -> CacheEntry]
        BY <1>1, <1>2, <1>3, Lifetimes DEF ConfigInvariant, ConfigTypes
    <2>2. QED
        BY <1>3, <2>1 DEF ConfigInvariant, ConfigTypes
<1>5. Allowance' = Allowance /\ QueryTime + LifeOf(subject) <= Allowance
    BY <1>3, Lifetimes DEF Allowance, LifeOf, ConfigInvariant
<1>6. ASSUME NEW q \in Processes, slot'[q].left > 0
      PROVE  slot'[q].wrong + slot'[q].left <= Allowance
    <2>1. CASE q = p
        <3>1. slot'[q] = entry(LifeOf(subject)) /\ entry(LifeOf(subject)) \in CacheEntry
            BY <1>2, <1>3, <2>1, Lifetimes DEF ConfigInvariant, ConfigTypes
        <3>2. QED
            BY <1>2, <1>5, <3>1, Lifetimes DEF CacheEntry, ConfigInvariant
    <2>2. CASE q # p
        BY <1>3, <1>6, <2>2 DEF ConfigInvariant, ConfigTypes, WithinTime
    <2>3. QED
        BY <2>1, <2>2
<1>7. ASSUME NEW q \in Processes, settings'[q].left > 0
      PROVE  settings'[q].wrong + settings'[q].left <= QueryTime + Lifetime
    <2>1. CASE q = p /\ subject \in Derived
        BY <1>2, <1>3, <2>1, Lifetimes DEF ConfigInvariant, ConfigTypes
    <2>2. CASE q # p \/ subject \notin Derived
        BY <1>3, <1>7, <2>2 DEF ConfigInvariant, ConfigTypes, WithinTime
    <2>3. QED
        BY <2>1, <2>2
<1>8. ASSUME NEW s \in Lookups, lookup'[s].pc = "query"
      PROVE  lookup'[s].wrong + lookup'[s].left <= QueryTime
    BY <1>3, <1>8 DEF ConfigInvariant, ConfigTypes, WithinTime, NoLookup
<1>9. QED
    BY <1>4, <1>5, <1>6, <1>7, <1>8 DEF ConfigInvariant, WithinTime

LEMMA FillFailsKeeps ==
    ASSUME ConfigInvariant, NEW r \in Lookups, FillFails(r)
    PROVE  ConfigInvariant'
<1>1. lookup' = [lookup EXCEPT ![r] = NoLookup] /\ UNCHANGED <<subject, written, settings, edit, edited>>
    BY DEF FillFails
<1>2. CASE subject = "app"
    <2> DEFINE entry == CacheSlot(NoAnswer, 0, AppLifetime)
    <2>1. entry \in CacheEntry /\ entry.wrong + entry.left <= Allowance
        BY <1>2, Lifetimes DEF CacheSlot, CacheEntry, Values, Allowance, LifeOf, Derived, ConfigInvariant
    <2>2. slot' = [slot EXCEPT ![lookup[r].at] = entry] /\ lookup[r].at \in Processes
        BY <1>2 DEF FillFails, ConfigInvariant, ConfigTypes, NoLookup, Reading
    <2> HIDE DEF entry
    <2>3. QED
        BY <1>1, <2>1, <2>2, SlotKeeps
<1>3. CASE subject # "app"
    <2>1. slot' = slot
        BY <1>3 DEF FillFails
    <2>2. \A s \in Lookups : lookup'[s].pc = "query" => lookup'[s] = lookup[s]
        BY <1>1 DEF ConfigInvariant, ConfigTypes, NoLookup
    <2>3. ConfigTypes'
        BY <1>1, <2>1 DEF ConfigInvariant, ConfigTypes
    <2>4. QED
        BY <1>1, <2>1, <2>2, <2>3 DEF ConfigInvariant, WithinTime, Allowance, LifeOf
<1>4. QED
    BY <1>2, <1>3

LEMMA EditsKeep ==
    ASSUME ConfigInvariant,
           (\E p \in Processes : Mutate(p) \/ Write(p)) \/ SaveSettings \/ SaveFails \/ Drop
    PROVE  ConfigInvariant'
<1>1. ASSUME NEW p \in Processes, Mutate(p) PROVE ConfigInvariant'
    <2> DEFINE entry == IF Usable(settings[p]) THEN [settings[p] EXCEPT !.v = Coming, !.wrong = 0]
                        ELSE CacheSlot(Coming, 0, Lifetime)
    <2>1. /\ settings' = [settings EXCEPT ![p] = entry]
          /\ edit' = [pc |-> "save", at |-> p, v |-> Coming] /\ edited' = edited + 1
          /\ UNCHANGED <<subject, written, slot, lookup>>
        BY <1>1 DEF Mutate
    <2>2. Coming \in Nat /\ settings[p] \in CacheEntry
        BY DEF Coming, ConfigInvariant, ConfigTypes
    <2>3. entry \in CacheEntry /\ (entry.left > 0 => entry.wrong + entry.left <= QueryTime + Lifetime)
        <3>1. CASE Usable(settings[p])
            <4>1. settings[p].left \in Nat /\ settings[p].wrong \in Nat
                BY <2>2 DEF CacheEntry
            <4>2. settings[p].left <= QueryTime + Lifetime
                BY <3>1, <4>1, Lifetimes DEF Usable, ConfigInvariant, WithinTime
            <4>3. entry = [settings[p] EXCEPT !.v = Coming, !.wrong = 0]
                BY <3>1
            <4> HIDE DEF entry
            <4>4. entry \in CacheEntry /\ entry.wrong = 0 /\ entry.left = settings[p].left
                BY <2>2, <4>3 DEF CacheEntry, Values
            <4>5. QED
                BY <4>1, <4>2, <4>4
        <3>2. CASE ~Usable(settings[p])
            <4>1. entry = CacheSlot(Coming, 0, Lifetime)
                BY <3>2
            <4> HIDE DEF entry
            <4>2. QED
                BY <2>2, <4>1, Lifetimes DEF CacheSlot, CacheEntry, Values, ConfigInvariant
        <3>3. QED
            BY <3>1, <3>2
    <2> HIDE DEF entry
    <2>4. ConfigTypes'
        <3>1. settings' \in [Processes -> CacheEntry]
            BY <2>1, <2>3 DEF ConfigInvariant, ConfigTypes
        <3>2. edit'.v \in Values /\ (edit' # NoEdit => edit'.v \in Nat) /\ edit' # NoEdit
            BY <2>1, <2>2 DEF Values, NoEdit
        <3>3. QED
            BY <2>1, <3>1, <3>2 DEF ConfigInvariant, ConfigTypes
    <2>5. ASSUME NEW q \in Processes, settings'[q].left > 0
          PROVE  settings'[q].wrong + settings'[q].left <= QueryTime + Lifetime
        BY <2>1, <2>3, <2>5 DEF ConfigInvariant, ConfigTypes, WithinTime
    <2>6. QED
        BY <2>1, <2>4, <2>5 DEF ConfigInvariant, WithinTime, Allowance, LifeOf
<1>2. ASSUME NEW p \in Processes, Write(p) PROVE ConfigInvariant'
    <2>1. Coming \in Nat
        BY DEF Coming, ConfigInvariant, ConfigTypes
    <2>2. ConfigTypes'
        BY <1>2, <2>1 DEF Write, ConfigInvariant, ConfigTypes, Values, NoEdit
    <2>3. QED
        BY <1>2, <2>2 DEF Write, ConfigInvariant, WithinTime, Allowance, LifeOf
<1>3. CASE SaveSettings
    <2>1. edit # NoEdit /\ edit.v \in Nat
        BY <1>3 DEF SaveSettings, ConfigInvariant, ConfigTypes
    <2>2. edit'.v = edit.v /\ edit'.pc = "drop"
        BY <1>3 DEF SaveSettings, NoEdit
    <2>3. ConfigTypes'
        BY <1>3, <2>1, <2>2 DEF SaveSettings, ConfigInvariant, ConfigTypes, NoEdit
    <2>4. QED
        BY <1>3, <2>3 DEF SaveSettings, ConfigInvariant, WithinTime, Allowance, LifeOf
<1>4. CASE SaveFails
    <2>1. ConfigTypes'
        BY <1>4 DEF SaveFails, ConfigInvariant, ConfigTypes, NoEdit, Values
    <2>2. QED
        BY <1>4, <2>1 DEF SaveFails, ConfigInvariant, WithinTime, Allowance, LifeOf
<1>5. CASE Drop
    <2>1. edit' = NoEdit /\ UNCHANGED <<subject, written, lookup, edited>>
        BY <1>5 DEF Drop
    <2>2. /\ slot' = slot \/ slot' = [slot EXCEPT ![edit.at] = Blank]
          /\ settings' = settings \/ settings' = [settings EXCEPT ![edit.at] = Blank]
        BY <1>5 DEF Drop
    <2>3. ConfigTypes'
        <3>1. slot' \in [Processes -> CacheEntry] /\ settings' \in [Processes -> CacheEntry]
            BY <2>2, Lifetimes DEF ConfigInvariant, ConfigTypes
        <3>2. QED
            BY <2>1, <3>1 DEF ConfigInvariant, ConfigTypes, NoEdit, Values
    <2>4. \A q \in Processes : /\ slot'[q].left > 0 => slot'[q] = slot[q]
                               /\ settings'[q].left > 0 => settings'[q] = settings[q]
        BY <2>2 DEF ConfigInvariant, ConfigTypes, Blank
    <2>5. QED
        BY <2>1, <2>3, <2>4 DEF ConfigInvariant, WithinTime, Allowance, LifeOf
<1>6. QED
    BY <1>1, <1>2, <1>3, <1>4, <1>5

\* One unit of time costs every entry at most what it has left.
LEMMA LongerByOne ==
    ASSUME NEW STATE e, e.wrong \in Nat
    PROVE  Longer(e) \in Nat /\ Longer(e) <= e.wrong + 1
BY ConfigAssumption DEF Longer, LongWrong, ConfigAssumption

LEMMA AgedKeeps ==
    ASSUME NEW STATE e, e \in CacheEntry, NEW STATE bound, bound \in Nat, e.left > 0 => e.wrong + e.left <= bound
    PROVE  Aged(e) \in CacheEntry /\ (Aged(e).left > 0 => Aged(e).wrong + Aged(e).left <= bound)
<1>1. CASE e.left <= 1
    BY <1>1 DEF Aged, Blank, CacheEntry, Values
<1>2. CASE ~(e.left <= 1)
    <2>1. Aged(e) = [e EXCEPT !.left = e.left - 1, !.wrong = Longer(e)]
        BY <1>2 DEF Aged
    <2>2. e.wrong \in Nat /\ e.left \in Nat
        BY DEF CacheEntry
    <2>3. Longer(e) \in Nat /\ Longer(e) <= e.wrong + 1
        BY <2>2, LongerByOne
    <2>4. e.left - 1 \in Nat
        BY <1>2, <2>2
    <2> DEFINE aged == [e EXCEPT !.left = e.left - 1, !.wrong = Longer(e)]
    <2>5. aged \in CacheEntry /\ aged.left = e.left - 1 /\ aged.wrong = Longer(e)
        BY <2>3, <2>4 DEF CacheEntry
    <2> HIDE DEF aged
    <2>6. Aged(e) = aged
        BY <2>1 DEF aged
    <2>7. QED
        BY <1>2, <2>2, <2>3, <2>5, <2>6
<1>3. QED
    BY <1>1, <1>2

LEMMA ElapseKeeps ==
    ASSUME ConfigInvariant, Elapse
    PROVE  ConfigInvariant'
<1>1. UNCHANGED <<subject, written, edit, edited>> /\ Allowance' = Allowance /\ Allowance \in Nat
    BY Lifetimes DEF Elapse, Allowance, LifeOf, ConfigInvariant
<1>2. ASSUME NEW p \in Processes
      PROVE  /\ slot'[p] \in CacheEntry
             /\ slot'[p].left > 0 => slot'[p].wrong + slot'[p].left <= Allowance
    <2>1. slot'[p] = Aged(slot[p]) /\ slot[p] \in CacheEntry
        BY DEF Elapse, ConfigInvariant, ConfigTypes
    <2>2. slot[p].left > 0 => slot[p].wrong + slot[p].left <= Allowance
        BY DEF ConfigInvariant, WithinTime
    <2>3. QED
        BY <1>1, <2>1, <2>2, AgedKeeps
<1>3. ASSUME NEW p \in Processes
      PROVE  /\ settings'[p] \in CacheEntry
             /\ settings'[p].left > 0 => settings'[p].wrong + settings'[p].left <= QueryTime + Lifetime
    <2>1. settings'[p] = Aged(settings[p]) /\ settings[p] \in CacheEntry
        BY DEF Elapse, ConfigInvariant, ConfigTypes
    <2>2. settings[p].left > 0 => settings[p].wrong + settings[p].left <= QueryTime + Lifetime
        BY DEF ConfigInvariant, WithinTime
    <2>3. QueryTime + Lifetime \in Nat
        BY Lifetimes DEF ConfigInvariant
    <2>4. QED
        BY <2>1, <2>2, <2>3, AgedKeeps
<1>4. ASSUME NEW r \in Lookups
      PROVE  /\ lookup'[r] \in {NoLookup} \cup Reading
             /\ lookup'[r].pc = "query" => lookup'[r].wrong + lookup'[r].left <= QueryTime
    <2>1. CASE lookup[r].pc # "query"
        BY <2>1 DEF Elapse, ConfigInvariant, ConfigTypes
    <2>2. CASE lookup[r].pc = "query"
        <3>1. /\ lookup[r] \in Reading /\ lookup[r].left > 0
              /\ lookup[r].wrong + lookup[r].left <= QueryTime
              /\ lookup'[r] = [lookup[r] EXCEPT !.left = lookup[r].left - 1, !.wrong = Longer(lookup[r])]
            <4>1. lookup[r] \in Reading
                BY <2>2 DEF ConfigInvariant, ConfigTypes, NoLookup
            <4>2. lookup[r].left > 0 /\ lookup[r].wrong + lookup[r].left <= QueryTime
                BY <2>2 DEF Elapse, ConfigInvariant, WithinTime
            <4>3. QED
                BY <2>2, <4>1, <4>2 DEF Elapse
        <3>2. lookup[r].wrong \in Nat /\ lookup[r].left \in Nat
            BY <3>1 DEF Reading
        <3>3. Longer(lookup[r]) \in Nat /\ Longer(lookup[r]) <= lookup[r].wrong + 1
            BY <3>2, LongerByOne
        <3>4. lookup[r].left - 1 \in Nat
            BY <3>1, <3>2
        <3> DEFINE older == [lookup[r] EXCEPT !.left = lookup[r].left - 1, !.wrong = Longer(lookup[r])]
        <3>5. older \in Reading /\ older.left = lookup[r].left - 1 /\ older.wrong = Longer(lookup[r])
            BY <3>1, <3>3, <3>4 DEF Reading
        <3> HIDE DEF older
        <3>6. lookup'[r] = older
            BY <3>1 DEF older
        <3>7. QED
            BY <3>1, <3>2, <3>3, <3>5, <3>6, Lifetimes DEF ConfigInvariant
    <2>3. QED
        BY <2>1, <2>2
<1>5. ConfigTypes'
    <2>1. slot' \in [Processes -> CacheEntry] /\ settings' \in [Processes -> CacheEntry]
        BY <1>2, <1>3 DEF Elapse
    <2>2. lookup' \in [Lookups -> {NoLookup} \cup Reading]
        BY <1>4 DEF Elapse
    <2>3. QED
        BY <1>1, <2>1, <2>2 DEF ConfigInvariant, ConfigTypes
<1>6. QED
    BY <1>1, <1>2, <1>3, <1>4, <1>5 DEF ConfigInvariant, WithinTime

LEMMA ConfigStep == ConfigInvariant /\ [ConfigNext]_ConfigVars => ConfigInvariant'
<1> SUFFICES ASSUME ConfigInvariant, [ConfigNext]_ConfigVars PROVE ConfigInvariant'
    OBVIOUS
<1>1. CASE UNCHANGED ConfigVars
    BY <1>1 DEF ConfigVars, ConfigInvariant, ConfigTypes, WithinTime, Allowance, LifeOf
<1>2. QED
    BY <1>1, ReadsKeep, FillKeeps, FillFailsKeeps, EditsKeep, ElapseKeeps DEF ConfigNext

\* However edits overtake queries, are made in other processes or never saved: what a
\* process serves was the stored value not longer ago than a query and the lifetimes of
\* the caches it came through.
THEOREM StalenessAlwaysBounded == ConfigSpec => []StalenessBounded
<1>1. ConfigInvariant => StalenessBounded
    BY Lifetimes DEF ConfigInvariant, ConfigTypes, WithinTime, StalenessBounded, Usable, Allowance, CacheEntry
<1>2. QED
    BY <1>1, ConfigInitial, ConfigStep, PTL DEF ConfigSpec

\* The values that are ever written, or cached as an absence, and the time they have.
Held == 0..NoAnswer \cup {None}
Writable == 0..ConfigEdits
ConfigBounded ==
    /\ written \in Writable /\ edited \in Writable
    /\ edit # NoEdit => edit.v \in Writable
    /\ \A p \in Processes :
          /\ slot[p].v \in Held /\ slot[p].left <= LifeOf(subject)
          /\ settings[p].v \in Held /\ settings[p].left <= Lifetime
    /\ \A r \in Lookups : lookup[r].v \in Held

LEMMA WritableIsHeld ==
    /\ 0 \in Writable /\ None \in Held /\ NoAnswer \in Held
    /\ \A v \in Writable : v \in Held
BY ConfigAssumption DEF ConfigAssumption, Writable, Held, NoAnswer

LEMMA AgedStays ==
    ASSUME NEW STATE e, e \in CacheEntry, e.v \in Held, NEW life \in Nat, e.left <= life
    PROVE  Aged(e).v \in Held /\ Aged(e).left <= life
<1>1. CASE e.left <= 1
    BY <1>1, WritableIsHeld DEF Aged, Blank
<1>2. CASE ~(e.left <= 1)
    <2>1. Aged(e) = [e EXCEPT !.left = e.left - 1, !.wrong = Longer(e)]
        BY <1>2 DEF Aged
    <2>2. Aged(e).v = e.v /\ Aged(e).left = e.left - 1 /\ e.left \in Nat
        BY <2>1 DEF CacheEntry
    <2>3. QED
        BY <2>2
<1>3. QED
    BY <1>1, <1>2

LEMMA ReadsStayBounded ==
    ASSUME ConfigInvariant, ConfigBounded, NEW r \in Lookups,
           Fill(r) \/ FillFails(r) \/ \E p \in Processes : FromCache(r, p) \/ FromDocument(r, p) \/ Query(r, p)
    PROVE  ConfigBounded'
<1> USE Lifetimes, WritableIsHeld
<1>1. ASSUME NEW p \in Processes, FromCache(r, p) PROVE ConfigBounded'
    BY <1>1 DEF FromCache, ConfigVars, ConfigBounded, LifeOf
<1>2. ASSUME NEW p \in Processes, FromDocument(r, p) PROVE ConfigBounded'
    BY <1>2 DEF FromDocument, CacheSlot, ConfigInvariant, ConfigTypes, ConfigBounded, LifeOf
<1>3. ASSUME NEW p \in Processes, Query(r, p) PROVE ConfigBounded'
    BY <1>3 DEF Query, ConfigInvariant, ConfigTypes, ConfigBounded, LifeOf
<1>4. CASE Fill(r)
    <2>1. lookup[r].v \in Held
        BY DEF ConfigBounded
    <2>2. \A p \in Processes : /\ slot'[p].v \in Held /\ slot'[p].left <= LifeOf(subject)
                               /\ settings'[p].v \in Held /\ settings'[p].left <= Lifetime
        BY <1>4, <2>1 DEF Fill, CacheSlot, ConfigInvariant, ConfigTypes, ConfigBounded
    <2>3. \A s \in Lookups : lookup'[s].v \in Held
        BY <1>4 DEF Fill, NoLookup, ConfigInvariant, ConfigTypes, ConfigBounded
    <2>4. QED
        BY <1>4, <2>2, <2>3 DEF Fill, ConfigBounded, LifeOf
<1>5. CASE FillFails(r)
    <2>1. \A p \in Processes : slot'[p].v \in Held /\ slot'[p].left <= LifeOf(subject)
        BY <1>5 DEF FillFails, CacheSlot, ConfigInvariant, ConfigTypes, ConfigBounded, LifeOf
    <2>2. \A s \in Lookups : lookup'[s].v \in Held
        BY <1>5 DEF FillFails, NoLookup, ConfigInvariant, ConfigTypes, ConfigBounded
    <2>3. QED
        BY <1>5, <2>1, <2>2 DEF FillFails, ConfigBounded, LifeOf
<1>6. QED
    BY <1>1, <1>2, <1>3, <1>4, <1>5

LEMMA EditsStayBounded ==
    ASSUME ConfigInvariant, ConfigBounded,
           (\E p \in Processes : Mutate(p) \/ Write(p)) \/ SaveSettings \/ SaveFails \/ Drop
    PROVE  ConfigBounded'
<1> USE Lifetimes, WritableIsHeld
<1>1. edited < ConfigEdits => Coming \in Writable
    BY ConfigAssumption DEF Coming, Writable, ConfigBounded, ConfigAssumption
<1>2. ASSUME NEW p \in Processes, Mutate(p) PROVE ConfigBounded'
    <2>1. Coming \in Held /\ edit' = [pc |-> "save", at |-> p, v |-> Coming] /\ edited' = Coming
        BY <1>1, <1>2 DEF Mutate, Coming
    <2>2. settings'[p].v \in Held /\ settings'[p].left <= Lifetime
        <3>1. settings[p] \in CacheEntry /\ settings[p].left <= Lifetime
            BY DEF ConfigInvariant, ConfigTypes, ConfigBounded
        <3>2. CASE Usable(settings[p])
            <4>1. settings'[p] = [settings[p] EXCEPT !.v = Coming, !.wrong = 0]
                BY <1>2, <3>2 DEF Mutate, ConfigInvariant, ConfigTypes
            <4>2. settings'[p].v = Coming /\ settings'[p].left = settings[p].left
                BY <3>1, <4>1 DEF CacheEntry
            <4>3. QED
                BY <2>1, <3>1, <4>2
        <3>3. CASE ~Usable(settings[p])
            <4>1. settings'[p] = CacheSlot(Coming, 0, Lifetime)
                BY <1>2, <3>3 DEF Mutate, ConfigInvariant, ConfigTypes
            <4>2. settings'[p].v = Coming /\ settings'[p].left = Lifetime
                BY <4>1 DEF CacheSlot
            <4>3. QED
                BY <2>1, <4>2, ConfigAssumption DEF ConfigAssumption
        <3>4. QED
            BY <3>2, <3>3
    <2>3. \A q \in Processes : q # p => settings'[q] = settings[q]
        BY <1>2 DEF Mutate, ConfigInvariant, ConfigTypes
    <2>4. \A q \in Processes : settings'[q].v \in Held /\ settings'[q].left <= Lifetime
        BY <2>2, <2>3 DEF ConfigBounded
    <2>5. Coming \in Writable /\ edit'.v = Coming
        <3>1. edited < ConfigEdits
            BY <1>2 DEF Mutate
        <3>2. edit'.v = Coming
            BY <2>1
        <3>3. QED
            BY <1>1, <3>1, <3>2
    <2>6. UNCHANGED <<subject, written, slot, lookup>>
        BY <1>2 DEF Mutate
    <2>7. QED
        BY <2>1, <2>4, <2>5, <2>6 DEF ConfigBounded, LifeOf
<1>3. ASSUME NEW p \in Processes, Write(p) PROVE ConfigBounded'
    <2>1. Coming \in Writable /\ edited' = Coming
        BY <1>1, <1>3 DEF Write, Coming
    <2>2. QED
        BY <1>3, <2>1 DEF Write, ConfigBounded, LifeOf
<1>4. CASE SaveSettings
    <2>1. edit.v \in Writable
        BY <1>4 DEF SaveSettings, ConfigInvariant, ConfigTypes, ConfigBounded
    <2>2. edit'.v \in Writable
        BY <1>4, <2>1 DEF SaveSettings, NoEdit
    <2>3. QED
        BY <1>4, <2>1, <2>2 DEF SaveSettings, ConfigBounded, LifeOf
<1>5. CASE SaveFails
    BY <1>5 DEF SaveFails, ConfigBounded, LifeOf
<1>6. CASE Drop
    <2>1. /\ slot' = slot \/ slot' = [slot EXCEPT ![edit.at] = Blank]
          /\ settings' = settings \/ settings' = [settings EXCEPT ![edit.at] = Blank]
          /\ edit' = NoEdit /\ UNCHANGED <<subject, written, lookup, edited>>
        BY <1>6 DEF Drop
    <2>2. \A q \in Processes : (slot'[q] = slot[q] \/ slot'[q] = Blank)
                               /\ (settings'[q] = settings[q] \/ settings'[q] = Blank)
        BY <2>1 DEF ConfigInvariant, ConfigTypes
    <2>3. Blank.v \in Held /\ Blank.left <= Lifetime /\ Blank.left <= LifeOf(subject)
        BY DEF Blank, ConfigInvariant
    <2>4. QED
        BY <2>1, <2>2, <2>3 DEF ConfigBounded, LifeOf
<1>7. QED
    BY <1>2, <1>3, <1>4, <1>5, <1>6

LEMMA ElapseStaysBounded ==
    ASSUME ConfigInvariant, ConfigBounded, Elapse
    PROVE  ConfigBounded'
<1>1. LifeOf(subject) \in Nat /\ Lifetime \in Nat
    BY Lifetimes DEF ConfigInvariant
<1>2. PICK life \in Nat : life = LifeOf(subject)
    BY <1>1
<1>3. ASSUME NEW p \in Processes
      PROVE  /\ slot'[p].v \in Held /\ slot'[p].left <= life
             /\ settings'[p].v \in Held /\ settings'[p].left <= Lifetime
    <2>1. slot'[p] = Aged(slot[p]) /\ slot[p] \in CacheEntry /\ slot[p].v \in Held /\ slot[p].left <= life
        BY <1>2 DEF Elapse, ConfigInvariant, ConfigTypes, ConfigBounded
    <2>2. settings'[p] = Aged(settings[p]) /\ settings[p] \in CacheEntry
          /\ settings[p].v \in Held /\ settings[p].left <= Lifetime
        BY DEF Elapse, ConfigInvariant, ConfigTypes, ConfigBounded
    <2>3. Aged(slot[p]).v \in Held /\ Aged(slot[p]).left <= life
        BY <2>1, AgedStays
    <2>4. Aged(settings[p]).v \in Held /\ Aged(settings[p]).left <= Lifetime
        BY <1>1, <2>2, AgedStays
    <2>5. QED
        BY <2>1, <2>2, <2>3, <2>4
<1>4. ASSUME NEW r \in Lookups PROVE lookup'[r].v \in Held
    <2>1. lookup[r].v \in Held /\ lookup[r] \in {NoLookup} \cup Reading
        BY DEF ConfigInvariant, ConfigTypes, ConfigBounded
    <2>2. lookup'[r].v = lookup[r].v
        BY <2>1 DEF Elapse, Reading, NoLookup
    <2>3. QED
        BY <2>1, <2>2
<1>5. UNCHANGED <<subject, written, edit, edited>>
    BY DEF Elapse
<1>6. LifeOf(subject)' = life
    BY <1>2, <1>5 DEF LifeOf
<1>7. QED
    BY <1>3, <1>4, <1>5, <1>6 DEF ConfigBounded

\* Caches hold what was once written, an unsaved value or an absence, for at most the
\* lifetime of their kind, for any deployment and any edits.
THEOREM ConfigTypeCorrect == ConfigSpec => []ConfigTypeOK
<1>1. ConfigInit => ConfigBounded
    <2> SUFFICES ASSUME ConfigInit PROVE ConfigBounded
        OBVIOUS
    <2>1. ConfigInvariant
        BY ConfigInitial
    <2>2. 0 <= LifeOf(subject) /\ 0 <= Lifetime
        BY <2>1, Lifetimes DEF ConfigInvariant
    <2>3. QED
        BY <2>2, WritableIsHeld DEF ConfigInit, ConfigBounded, Blank, NoLookup, NoEdit
<1>2. ConfigInvariant /\ ConfigBounded /\ [ConfigNext]_ConfigVars => ConfigBounded'
    <2> SUFFICES ASSUME ConfigInvariant, ConfigBounded, [ConfigNext]_ConfigVars PROVE ConfigBounded'
        OBVIOUS
    <2>1. CASE UNCHANGED ConfigVars
        BY <2>1 DEF ConfigVars, ConfigBounded, LifeOf
    <2>2. QED
        BY <2>1, ReadsStayBounded, EditsStayBounded, ElapseStaysBounded DEF ConfigNext
<1>3. ConfigInvariant /\ ConfigBounded => ConfigTypeOK
    <2> SUFFICES ASSUME ConfigInvariant, ConfigBounded PROVE ConfigTypeOK
        OBVIOUS
    <2>1. ASSUME NEW p \in Processes
          PROVE  /\ slot[p].v = None \/ slot[p].v \in 0..NoAnswer
                 /\ slot[p].left \in 0..LifeOf(subject) /\ settings[p].left \in 0..Lifetime
        <3>1. slot[p] \in CacheEntry /\ settings[p] \in CacheEntry
            BY DEF ConfigInvariant, ConfigTypes
        <3>2. slot[p].left \in Nat /\ settings[p].left \in Nat
            BY <3>1 DEF CacheEntry
        <3>3. slot[p].v \in Held /\ slot[p].left <= LifeOf(subject) /\ settings[p].left <= Lifetime
            BY DEF ConfigBounded
        <3>4. QED
            BY <3>2, <3>3, Lifetimes DEF Held, ConfigInvariant
    <2>2. QED
        BY <2>1 DEF ConfigBounded, Writable, ConfigTypeOK
<1>4. QED
    BY <1>1, <1>2, <1>3, ConfigInitial, ConfigStep, PTL DEF ConfigSpec

-----------------------------------------------------------------------------
(* Rate limits. *)

Counting == [pc : {"count"}, at : Processes, in : Minutes]

\* What is counted has the types the code gives it, and no window is ahead of the clock.
RateTypes ==
    /\ minute \in Minutes /\ late \in BOOLEAN
    /\ bucket \in [Minutes -> Nat] /\ byStore \in [Minutes -> Nat]
    /\ memory \in [Processes -> [in : Minutes, count : Nat]]
    /\ byMemory \in [Processes -> [Minutes -> Nat]]
    /\ calling \in [Callings -> {Waiting} \cup Counting]
    /\ \A k \in Callings : calling[k].in <= minute
    /\ \A p \in Processes : memory[p].in <= minute

\* The store admits no more than it has counted.
StoreCounted == \A w \in Minutes : byStore[w] <= bucket[w] /\ byStore[w] <= Rpm

\* While no call is late, a process has admitted in its present window no more than it
\* remembers, and nothing in the windows after it.
MemoryCounted ==
    ~late => \A p \in Processes, w \in Minutes :
                /\ byMemory[p][w] <= Rpm
                /\ w = memory[p].in => byMemory[p][w] <= memory[p].count
                /\ w > memory[p].in => byMemory[p][w] = 0

RateInvariant == RateTypes /\ StoreCounted /\ MemoryCounted

LEMMA UppedBounds ==
    ASSUME NEW n \in Nat
    PROVE  Upped(n) \in Nat /\ n <= Upped(n) /\ Upped(n) <= n + 1
BY RateAssumption DEF Upped, RateAssumption

\* As long as the limit is not passed, counting adds exactly one.
LEMMA UppedBelow ==
    ASSUME NEW n \in Nat, ~OverLimit(Upped(n))
    PROVE  Upped(n) = n + 1 /\ Upped(n) <= Rpm
BY RateAssumption DEF Upped, OverLimit, RateAssumption

LEMMA RateInitial == RateInit => RateInvariant
<1> SUFFICES ASSUME RateInit PROVE RateInvariant
    OBVIOUS
<1>1. 0 \in Minutes /\ minute = 0
    BY RateAssumption DEF RateInit, RateAssumption, Minutes
<1>2. RateTypes
    <2>1. calling \in [Callings -> {Waiting} \cup Counting]
        BY DEF RateInit
    <2>2. \A k \in Callings : calling[k].in <= minute
        BY <1>1 DEF RateInit, Waiting
    <2>3. \A p \in Processes : memory[p].in <= minute
        BY <1>1 DEF RateInit
    <2>4. QED
        BY <1>1, <2>1, <2>2, <2>3 DEF RateInit, RateTypes
<1>3. StoreCounted
    BY RateAssumption DEF RateInit, StoreCounted, RateAssumption
<1>4. MemoryCounted
    BY RateAssumption DEF RateInit, MemoryCounted, RateAssumption
<1>5. QED
    BY <1>2, <1>3, <1>4 DEF RateInvariant

LEMMA ComeKeeps ==
    ASSUME RateInvariant, NEW k \in Callings, NEW p \in Processes, Come(k, p)
    PROVE  RateInvariant'
<1>1. calling' = [calling EXCEPT ![k] = [pc |-> "count", at |-> p, in |-> minute]]
    BY DEF Come
<1>2. calling' \in [Callings -> {Waiting} \cup Counting]
    BY <1>1 DEF RateInvariant, RateTypes, Counting
<1>3. \A i \in Callings : calling'[i].in <= minute
    BY <1>1 DEF RateInvariant, RateTypes, Minutes
<1>4. QED
    BY <1>2, <1>3 DEF RateInvariant, RateTypes, StoreCounted, MemoryCounted, Come

LEMMA StoreCounts ==
    ASSUME RateInvariant, NEW k \in Callings, CountInStore(k)
    PROVE  RateInvariant'
<1> DEFINE w == calling[k].in
           count == Upped(bucket[w])
<1>1. calling[k] \in Counting /\ w \in Minutes
    BY DEF CountInStore, RateInvariant, RateTypes, Counting, Waiting
<1>2. count \in Nat /\ bucket[w] <= count
    BY <1>1, UppedBounds DEF RateInvariant, RateTypes
<1>3. /\ bucket' = [bucket EXCEPT ![w] = count]
      /\ byStore' = IF OverLimit(count) THEN byStore
                    ELSE [byStore EXCEPT ![w] = Upped(byStore[w])]
      /\ calling' = [calling EXCEPT ![k] = Waiting]
      /\ late' = (late \/ w # minute)
      /\ UNCHANGED <<minute, memory, byMemory>>
    BY DEF CountInStore, Passed
<1>4. Upped(byStore[w]) \in Nat /\ Upped(byStore[w]) <= byStore[w] + 1
    BY <1>1, UppedBounds DEF RateInvariant, RateTypes
<1>5. ~OverLimit(count) => count = bucket[w] + 1 /\ count <= Rpm
    BY <1>1, UppedBelow DEF RateInvariant, RateTypes
<1> HIDE DEF w, count
<1>6. RateTypes'
    BY <1>1, <1>2, <1>3, <1>4 DEF RateInvariant, RateTypes, Waiting, Minutes
<1>7. StoreCounted'
    <2> SUFFICES ASSUME NEW v \in Minutes PROVE byStore'[v] <= bucket'[v] /\ byStore'[v] <= Rpm
        BY DEF StoreCounted
    <2>1. byStore[v] <= bucket[v] /\ byStore[v] <= Rpm /\ byStore[v] \in Nat /\ bucket[v] \in Nat
        BY DEF RateInvariant, RateTypes, StoreCounted
    <2>2. CASE v # w
        BY <1>1, <1>3, <2>1, <2>2 DEF RateInvariant, RateTypes
    <2>3. CASE v = w /\ OverLimit(count)
        BY <1>2, <1>3, <2>1, <2>3 DEF RateInvariant, RateTypes
    <2>4. CASE v = w /\ ~OverLimit(count)
        <3>1. byStore'[v] = Upped(byStore[w]) /\ bucket'[v] = count
            BY <1>1, <1>3, <2>4 DEF RateInvariant, RateTypes
        <3>2. QED
            BY <1>4, <1>5, <2>1, <2>4, <3>1, RateAssumption DEF RateAssumption
    <2>5. QED
        BY <2>2, <2>3, <2>4
<1>8. MemoryCounted'
    BY <1>3 DEF RateInvariant, MemoryCounted
<1>9. QED
    BY <1>6, <1>7, <1>8 DEF RateInvariant

LEMMA MemoryKeeps ==
    ASSUME RateInvariant, NEW k \in Callings, CountInMemory(k)
    PROVE  RateInvariant'
<1> DEFINE w == calling[k].in
           p == calling[k].at
           count == IF memory[p].in = w THEN Upped(memory[p].count) ELSE 1
<1>1. calling[k] \in Counting /\ w \in Minutes /\ p \in Processes /\ w <= minute
    BY DEF CountInMemory, RateInvariant, RateTypes, Counting, Waiting
<1>2. memory[p].count \in Nat /\ memory[p].in \in Minutes /\ memory[p].in <= minute
    BY <1>1 DEF RateInvariant, RateTypes
<1>3. count \in Nat /\ (memory[p].in = w => memory[p].count <= count)
    BY <1>2, UppedBounds
<1>4. ~OverLimit(count) => /\ count <= Rpm
                           /\ memory[p].in = w => count = memory[p].count + 1
    BY <1>2, UppedBelow, RateAssumption DEF OverLimit, RateAssumption
<1>5. Upped(byMemory[p][w]) \in Nat /\ Upped(byMemory[p][w]) <= byMemory[p][w] + 1
    BY <1>1, UppedBounds DEF RateInvariant, RateTypes
<1>6. Upped(bucket[w]) \in Nat /\ bucket[w] <= Upped(bucket[w])
    BY <1>1, UppedBounds DEF RateInvariant, RateTypes
<1>7. /\ bucket' = bucket \/ bucket' = [bucket EXCEPT ![w] = Upped(bucket[w])]
      /\ memory' = [memory EXCEPT ![p] = [in |-> w, count |-> count]]
      /\ byMemory' = IF OverLimit(count) THEN byMemory
                     ELSE [byMemory EXCEPT ![p][w] = Upped(byMemory[p][w])]
      /\ calling' = [calling EXCEPT ![k] = Waiting]
      /\ late' = (late \/ w # minute)
      /\ UNCHANGED <<minute, byStore>>
    BY DEF CountInMemory, Passed
<1> HIDE DEF w, p, count
<1>8. RateTypes'
    <2>1. bucket' \in [Minutes -> Nat]
        BY <1>1, <1>6, <1>7 DEF RateInvariant, RateTypes
    <2>2. byMemory' \in [Processes -> [Minutes -> Nat]]
        BY <1>1, <1>5, <1>7 DEF RateInvariant, RateTypes
    <2>3. memory' \in [Processes -> [in : Minutes, count : Nat]]
        BY <1>1, <1>3, <1>7 DEF RateInvariant, RateTypes
    <2>4. \A q \in Processes : memory'[q].in <= minute'
        BY <1>1, <1>7 DEF RateInvariant, RateTypes
    <2>5. calling' \in [Callings -> {Waiting} \cup Counting]
        BY <1>7 DEF RateInvariant, RateTypes
    <2>6. \A i \in Callings : calling'[i].in <= minute'
        BY <1>7 DEF RateInvariant, RateTypes, Waiting, Minutes
    <2>7. QED
        BY <1>7, <2>1, <2>2, <2>3, <2>4, <2>5, <2>6 DEF RateInvariant, RateTypes
<1>9. StoreCounted'
    BY <1>1, <1>6, <1>7 DEF RateInvariant, RateTypes, StoreCounted
<1>10. MemoryCounted'
    <2> SUFFICES ASSUME ~late', NEW q \in Processes, NEW v \in Minutes
                 PROVE  /\ byMemory'[q][v] <= Rpm
                        /\ v = memory'[q].in => byMemory'[q][v] <= memory'[q].count
                        /\ v > memory'[q].in => byMemory'[q][v] = 0
        BY DEF MemoryCounted
    <2>1. ~late /\ w = minute
        BY <1>7
    <2>2. /\ byMemory[q][v] <= Rpm /\ byMemory[q][v] \in Nat
          /\ v = memory[q].in => byMemory[q][v] <= memory[q].count
          /\ v > memory[q].in => byMemory[q][v] = 0
        BY <2>1 DEF RateInvariant, RateTypes, MemoryCounted
    <2>3. CASE q # p
        BY <1>1, <1>7, <2>2, <2>3 DEF RateInvariant, RateTypes
    <2>4. CASE q = p /\ v # w
        <3>1. byMemory'[q][v] = byMemory[q][v] /\ memory'[q].in = w
            BY <1>1, <1>7, <2>4 DEF RateInvariant, RateTypes
        <3>2. QED
            BY <1>1, <1>2, <2>1, <2>2, <2>4, <3>1 DEF Minutes
    <2>5. CASE q = p /\ v = w
        <3>1. memory'[q].in = w /\ memory'[q].count = count
            BY <1>1, <1>7, <2>5 DEF RateInvariant, RateTypes
        <3>2. CASE OverLimit(count)
            <4>1. byMemory'[q][v] = byMemory[q][v]
                BY <1>7, <3>2
            <4>2. CASE memory[p].in = w
                BY <1>2, <1>3, <2>2, <2>5, <3>1, <4>1, <4>2 DEF Minutes
            <4>3. CASE memory[p].in # w
                BY <1>1, <1>2, <1>3, <2>1, <2>2, <2>5, <3>1, <4>1, <4>3 DEF Minutes
            <4>4. QED
                BY <4>2, <4>3
        <3>3. CASE ~OverLimit(count)
            <4>1. byMemory'[q][v] = Upped(byMemory[p][w])
                BY <1>1, <1>7, <2>5, <3>3 DEF RateInvariant, RateTypes
            <4>2. byMemory[p][w] + 1 <= count
                <5>1. CASE memory[p].in = w
                    BY <1>2, <1>3, <1>4, <2>2, <2>5, <3>3, <5>1
                <5>2. CASE memory[p].in # w
                    <6>1. w > memory[p].in
                        BY <1>1, <1>2, <2>1, <5>2 DEF Minutes
                    <6>2. count = 1
                        BY <5>2 DEF count
                    <6>3. QED
                        BY <2>2, <2>5, <6>1, <6>2
                <5>3. QED
                    BY <5>1, <5>2
            <4>3. QED
                BY <1>3, <1>4, <1>5, <2>2, <2>5, <3>1, <3>3, <4>1, <4>2, RateAssumption
                DEF RateAssumption, Minutes
        <3>4. QED
            BY <3>2, <3>3
    <2>6. QED
        BY <2>3, <2>4, <2>5
<1>11. QED
    BY <1>8, <1>9, <1>10 DEF RateInvariant

LEMMA NextMinuteKeeps ==
    ASSUME RateInvariant, NextMinute
    PROVE  RateInvariant'
<1>1. CASE /\ minute < LastMinute /\ minute' = minute + 1
           /\ UNCHANGED <<bucket, memory, calling, byStore, byMemory, late>>
    <2>1. minute' \in Minutes /\ minute < minute' /\ minute \in Nat
        BY <1>1, RateAssumption DEF RateInvariant, RateTypes, Minutes, RateAssumption
    <2>2. \A k \in Callings : calling'[k].in <= minute'
        <3> SUFFICES ASSUME NEW k \in Callings PROVE calling[k].in <= minute'
            BY <1>1
        <3>1. calling[k].in <= minute /\ calling[k].in \in Nat
            BY DEF RateInvariant, RateTypes, Counting, Waiting, Minutes
        <3>2. QED
            BY <2>1, <3>1 DEF Minutes
    <2>3. \A p \in Processes : memory'[p].in <= minute'
        BY <1>1, <2>1 DEF RateInvariant, RateTypes, Minutes
    <2>4. QED
        BY <1>1, <2>1, <2>2, <2>3 DEF RateInvariant, RateTypes, StoreCounted, MemoryCounted
<1>2. CASE /\ \A k \in Callings : calling[k] = Waiting
           /\ minute' = 0 /\ late' = FALSE
           /\ bucket' = [w \in Minutes |-> 0] /\ byStore' = [w \in Minutes |-> 0]
           /\ memory' = [p \in Processes |-> [in |-> 0, count |-> 0]]
           /\ byMemory' = [p \in Processes |-> [w \in Minutes |-> 0]]
           /\ UNCHANGED calling
    <2>1. 0 \in Minutes
        BY RateAssumption DEF RateAssumption, Minutes
    <2>2. RateTypes'
        <3>1. \A k \in Callings : calling'[k].in <= minute'
            BY <1>2 DEF Waiting
        <3>2. \A p \in Processes : memory'[p].in <= minute'
            BY <1>2
        <3>3. calling' \in [Callings -> {Waiting} \cup Counting]
            BY <1>2 DEF RateInvariant, RateTypes
        <3>4. QED
            BY <1>2, <2>1, <3>1, <3>2, <3>3 DEF RateTypes
    <2>3. StoreCounted' /\ MemoryCounted'
        BY <1>2, RateAssumption DEF StoreCounted, MemoryCounted, RateAssumption
    <2>4. QED
        BY <2>2, <2>3 DEF RateInvariant
<1>3. QED
    BY <1>1, <1>2 DEF NextMinute

LEMMA RateStep == RateInvariant /\ [RateNext]_RateVars => RateInvariant'
<1> SUFFICES ASSUME RateInvariant, [RateNext]_RateVars PROVE RateInvariant'
    OBVIOUS
<1>1. CASE UNCHANGED RateVars
    BY <1>1 DEF RateVars, RateInvariant, RateTypes, StoreCounted, MemoryCounted
<1>2. QED
    BY <1>1, ComeKeeps, StoreCounts, MemoryKeeps, NextMinuteKeeps DEF RateNext

\* However calls of one minute are spread over processes, and whether the store answers
\* them or not, neither its count nor the memory of a process admits more than the limit,
\* the latter while calls are counted in the minute they arrive in.
THEOREM LimitsAlwaysHold == RateSpec => []LimitsHold
<1>1. RateInvariant => LimitsHold
    BY DEF RateInvariant, StoreCounted, MemoryCounted, LimitsHold, StoreKeepsLimit, MemoryKeepsLimit
<1>2. QED
    BY <1>1, RateInitial, RateStep, PTL DEF RateSpec

\* Counts stop two above the limit, and a minute to come has none.
RateBounded ==
    /\ \A w \in Minutes : bucket[w] <= Rpm + 2 /\ (w > minute => bucket[w] = 0)
    /\ \A p \in Processes : memory[p].count <= Rpm + 2

LEMMA UppedStops ==
    ASSUME NEW n \in Nat, n <= Rpm + 2
    PROVE  Upped(n) <= Rpm + 2
BY RateAssumption DEF Upped, RateAssumption

LEMMA CountsStayBounded ==
    ASSUME RateInvariant, RateBounded, NEW k \in Callings, CountInStore(k) \/ CountInMemory(k)
    PROVE  RateBounded'
<1>1. PICK w \in Minutes : w = calling[k].in /\ w <= minute /\ calling[k].at \in Processes
    BY DEF CountInStore, CountInMemory, RateInvariant, RateTypes, Counting, Waiting
<1>2. bucket' = bucket \/ bucket' = [bucket EXCEPT ![w] = Upped(bucket[w])]
    BY <1>1 DEF CountInStore, CountInMemory
<1>3. bucket[w] \in Nat /\ bucket[w] <= Rpm + 2
    BY DEF RateInvariant, RateTypes, RateBounded
<1>4. Upped(bucket[w]) <= Rpm + 2
    BY <1>3, UppedStops
<1>5. minute' = minute /\ minute \in Nat
    BY DEF CountInStore, CountInMemory, RateInvariant, RateTypes, Minutes
<1>6. ASSUME NEW v \in Minutes
      PROVE  bucket'[v] <= Rpm + 2 /\ (v > minute => bucket'[v] = 0)
    <2>1. bucket[v] <= Rpm + 2 /\ (v > minute => bucket[v] = 0)
        BY DEF RateBounded
    <2>2. CASE v = w
        <3>1. ~(v > minute)
            BY <1>1, <1>5, <2>2 DEF Minutes
        <3>2. bucket'[v] = bucket[v] \/ bucket'[v] = Upped(bucket[w])
            BY <1>2, <2>2 DEF RateInvariant, RateTypes
        <3>3. QED
            BY <1>4, <2>1, <3>1, <3>2
    <2>3. CASE v # w
        BY <1>2, <2>1, <2>3 DEF RateInvariant, RateTypes
    <2>4. QED
        BY <2>2, <2>3
<1>7. ASSUME NEW q \in Processes PROVE memory'[q].count <= Rpm + 2
    <2>1. memory[q].count \in Nat /\ memory[q].count <= Rpm + 2
        BY DEF RateInvariant, RateTypes, RateBounded
    <2>2. Upped(memory[q].count) <= Rpm + 2 /\ 1 <= Rpm + 2
        BY <2>1, UppedStops, RateAssumption DEF RateAssumption
    <2>3. CASE CountInStore(k)
        <3>1. memory' = memory
            BY <2>3 DEF CountInStore
        <3>2. QED
            BY <2>1, <3>1
    <2>4. CASE CountInMemory(k)
        <3> DEFINE p == calling[k].at
                   count == IF memory[p].in = calling[k].in THEN Upped(memory[p].count) ELSE 1
                   new == [in |-> calling[k].in, count |-> count]
        <3>1. memory' = [memory EXCEPT ![p] = new]
            BY <2>4 DEF CountInMemory
        <3>2. DOMAIN memory = Processes /\ new.count = count
            BY DEF RateInvariant, RateTypes
        <3> HIDE DEF new
        <3>3. memory'[q] = memory[q] \/ (q = p /\ memory'[q] = new)
            BY <3>1, <3>2
        <3>4. memory'[q].count = memory[q].count \/ memory'[q].count = Upped(memory[q].count)
              \/ memory'[q].count = 1
            BY <3>2, <3>3
        <3>5. QED
            BY <2>1, <2>2, <3>4
    <2>5. QED
        BY <2>3, <2>4
<1>8. QED
    BY <1>5, <1>6, <1>7 DEF RateBounded

\* Counts only grow with calls, and a process remembers a window that has begun, for any
\* number of processes, calls and minutes and any limit.
THEOREM RateTypeCorrect == RateSpec => []RateTypeOK
<1>1. RateInit => RateBounded
    BY RateAssumption DEF RateInit, RateBounded, RateAssumption
<1>2. RateInvariant /\ RateBounded /\ [RateNext]_RateVars => RateBounded'
    <2> SUFFICES ASSUME RateInvariant, RateBounded, [RateNext]_RateVars PROVE RateBounded'
        OBVIOUS
    <2>1. CASE UNCHANGED RateVars
        BY <2>1 DEF RateVars, RateBounded
    <2>2. ASSUME NEW k \in Callings, NEW p \in Processes, Come(k, p) PROVE RateBounded'
        BY <2>2 DEF Come, RateBounded
    <2>3. ASSUME NextMinute PROVE RateBounded'
        <3>1. CASE minute' = minute + 1 /\ UNCHANGED <<bucket, memory>>
            <4>1. \A w \in Minutes : w > minute' => w > minute
                BY <3>1 DEF RateInvariant, RateTypes, Minutes
            <4>2. QED
                BY <3>1, <4>1 DEF RateBounded
        <3>2. CASE /\ bucket' = [w \in Minutes |-> 0]
                   /\ memory' = [p \in Processes |-> [in |-> 0, count |-> 0]]
            BY <3>2, RateAssumption DEF RateBounded, RateAssumption
        <3>3. QED
            BY <2>3, <3>1, <3>2 DEF NextMinute
    <2>4. QED
        BY <2>1, <2>2, <2>3, CountsStayBounded DEF RateNext
<1>3. RateInvariant /\ RateBounded => RateTypeOK
    BY RateAssumption DEF RateInvariant, RateTypes, RateBounded, RateTypeOK, RateAssumption
<1>4. QED
    BY <1>1, <1>2, <1>3, RateInitial, RateStep, PTL DEF RateSpec

-----------------------------------------------------------------------------
(* Sign-in. *)

Whats == ROLES \cup {"disable", "enable"}
VisitType == [pc : {"none", "find", "create", "act"}, email : Accounts \cup {None},
              barred : BOOLEAN, user : User \cup {None}]
LoginType == [pc : {"none", "save", "session"}, email : Accounts \cup {None}, doc : User \cup {None}]
ChangeType == [pc : {"none", "save", "purge"}, email : Accounts \cup {None}, doc : User \cup {None},
               what : Whats \cup {None}]

SignInTypes ==
    /\ users \in [Accounts -> User \cup {None}] /\ decided \in [Accounts -> User]
    /\ visit \in [Browsers -> VisitType]
    /\ login \in [Browsers -> LoginType]
    /\ change \in [Edits -> ChangeType]

\* An account that exists is as the administrators decided, and one that does not will be
\* a viewer.
Stands(a) == users[a] = decided[a] \/ (users[a] = None /\ decided[a] = NewUser)

\* Who has read an account knows that it exists; a request that came while its account was
\* disabled is under way only as long as it is.
AccountsStand ==
    /\ \A a \in Accounts : Stands(a)
    /\ \A b \in Browsers :
          login[b].pc = "save" => /\ login[b].email \in Accounts
                                  /\ login[b].doc # None => users[login[b].email] \in User
    /\ \A e \in Edits :
          change[e].pc = "save" => /\ change[e].email \in Accounts /\ change[e].doc \in User
                                   /\ change[e].what \in Whats
                                   /\ users[change[e].email] \in User

Barred ==
    \A b \in Browsers :
       /\ visit[b].pc # "none" => visit[b].email \in Accounts
       /\ visit[b].pc = "act" => ~visit[b].barred
       /\ visit[b].pc \in {"find", "create"} /\ visit[b].barred =>
             users[visit[b].email] \in User /\ users[visit[b].email].disabled

SignInInvariant == SignInTypes /\ AccountsStand /\ Barred

LEMMA SignInInitial == SignInInit => SignInInvariant
BY SignInAssumption DEF SignInInit, SignInInvariant, SignInTypes, AccountsStand, Barred, Stands, NewUser, User, ROLES,
   VisitType, LoginType, ChangeType, NoVisit, NoLogin, NoChange

\* Saving a document of which nothing was changed writes nothing.
LEMMA SavedAsRead ==
    ASSUME NEW prior \in User, NEW doc
    PROVE  Saved(prior, doc, doc) = prior
BY DEF Saved, User

\* What a save writes is what was changed: only lifting a ban lifts it.
LEMMA SavedAsEdited ==
    ASSUME NEW prior \in User, NEW doc \in User, NEW what \in Whats
    PROVE  /\ Saved(prior, doc, Edited(doc, what)) \in User
           /\ what # "enable" /\ prior.disabled => Saved(prior, doc, Edited(doc, what)).disabled
<1> DEFINE new == Edited(doc, what)
<1>1. new \in User /\ (what # "enable" /\ ~new.disabled => ~doc.disabled)
    BY DEF Edited, User, Whats, ROLES
<1>2. DOMAIN prior = {"role", "disabled"}
    BY DEF User
<1> HIDE DEF new
<1>3. Saved(prior, doc, new) = [role |-> IF new.role # doc.role THEN new.role ELSE prior.role,
                                 disabled |-> IF new.disabled # doc.disabled THEN new.disabled
                                              ELSE prior.disabled]
    BY <1>2 DEF Saved
<1>4. QED
    BY <1>1, <1>3 DEF User, new

\* Accounts come into being as viewers, and are otherwise only changed by SaveAccount: until
\* then who has read them knows them.
LEMMA AccountsKeep ==
    ASSUME SignInInvariant, NEW a \in Accounts,
           \/ UNCHANGED users
           \/ users[a] = None /\ users' = [users EXCEPT ![a] = NewUser],
           UNCHANGED decided
    PROVE  /\ users' \in [Accounts -> User \cup {None}] /\ decided' \in [Accounts -> User]
           /\ \A c \in Accounts : Stands(c)'
           /\ \A c \in Accounts : users[c] \in User => users'[c] = users[c]
<1>1. NewUser \in User
    BY DEF NewUser, User, ROLES
<1>2. CASE UNCHANGED users
    BY <1>2 DEF SignInInvariant, SignInTypes, AccountsStand, Stands
<1>3. CASE users[a] = None /\ users' = [users EXCEPT ![a] = NewUser]
    <2>1. decided[a] = NewUser
        BY <1>3, SignInAssumption DEF SignInInvariant, SignInTypes, AccountsStand, Stands
    <2>2. users' \in [Accounts -> User \cup {None}] /\ decided' \in [Accounts -> User]
        BY <1>1, <1>3 DEF SignInInvariant, SignInTypes
    <2>3. \A c \in Accounts : Stands(c)'
        BY <1>3, <2>1 DEF SignInInvariant, SignInTypes, AccountsStand, Stands
    <2>4. QED
        BY <1>3, <2>2, <2>3, SignInAssumption DEF SignInInvariant, SignInTypes
<1>4. QED
    BY <1>2, <1>3

\* A step of a sign-in touches no visit and no edit, and a document it has read is of an
\* account that exists.
LEMMA LoginKeeps ==
    ASSUME SignInInvariant, NEW b \in Browsers, NEW new \in LoginType,
           login' = [login EXCEPT ![b] = new],
           NEW a \in Accounts,
           \/ UNCHANGED users
           \/ users[a] = None /\ users' = [users EXCEPT ![a] = NewUser],
           new.pc = "save" => new.email \in Accounts /\ (new.doc # None => users[new.email] \in User),
           UNCHANGED <<visit, change, decided>>
    PROVE  SignInInvariant'
<1>1. /\ users' \in [Accounts -> User \cup {None}] /\ decided' \in [Accounts -> User]
      /\ \A c \in Accounts : Stands(c)'
      /\ \A c \in Accounts : users[c] \in User => users'[c] = users[c]
    BY AccountsKeep
<1>2. SignInTypes'
    BY <1>1 DEF SignInInvariant, SignInTypes
<1>3. \A c \in Browsers :
         login'[c].pc = "save" => /\ login'[c].email \in Accounts
                                  /\ login'[c].doc # None => users'[login'[c].email] \in User
    <2> SUFFICES ASSUME NEW c \in Browsers, login'[c].pc = "save"
                 PROVE  /\ login'[c].email \in Accounts
                        /\ login'[c].doc # None => users'[login'[c].email] \in User
        OBVIOUS
    <2>1. login'[c] = IF c = b THEN new ELSE login[c]
        BY DEF SignInInvariant, SignInTypes
    <2>2. QED
        BY <1>1, <2>1 DEF SignInInvariant, AccountsStand
<1>4. AccountsStand'
    BY <1>1, <1>3 DEF SignInInvariant, AccountsStand
<1>5. Barred'
    BY <1>1 DEF SignInInvariant, Barred
<1>6. QED
    BY <1>2, <1>4, <1>5 DEF SignInInvariant

LEMMA LoginsKeep ==
    ASSUME SignInInvariant, NEW b \in Browsers,
           \/ \E a \in Accounts : Callback(b, a)
           \/ SaveLogin(b) \/ CreateSession(b) \/ CallbackFails(b) \/ Logout(b)
    PROVE  SignInInvariant'
<1> USE DEF SignInInvariant
<1>1. NoLogin \in LoginType /\ NoLogin.pc = "none"
    BY DEF NoLogin, LoginType
<1>2. login[b] \in LoginType /\ [login[b] EXCEPT !.pc = "session"] \in LoginType
    BY DEF SignInTypes, LoginType
<1>3. ASSUME NEW a \in Accounts, Callback(b, a) PROVE SignInInvariant'
    <2> DEFINE new == [pc |-> "save", email |-> a, doc |-> users[a]]
    <2>1. new \in LoginType /\ new.doc = users[a] /\ new.email = a
        BY DEF SignInTypes, LoginType
    <2>2. new.doc # None => users[a] \in User
        BY <2>1 DEF SignInTypes
    <2>3. login' = [login EXCEPT ![b] = new] /\ UNCHANGED <<users, visit, change, decided>>
        BY <1>3 DEF Callback
    <2> HIDE DEF new
    <2>4. QED
        BY <2>1, <2>2, <2>3, LoginKeeps
<1>4. CASE SaveLogin(b)
    <2> DEFINE a == login[b].email
    <2>1. a \in Accounts /\ login[b].pc = "save" /\ (login[b].doc # None => users[a] \in User)
        BY <1>4 DEF SaveLogin, AccountsStand
    <2>2. CASE login[b].doc = None /\ users[a] # None
        <3>1. login' = [login EXCEPT ![b] = NoLogin] /\ UNCHANGED <<users, visit, change, decided>>
            BY <1>4, <2>2 DEF SaveLogin
        <3>2. QED
            BY <1>1, <2>1, <3>1, LoginKeeps
    <2>3. CASE ~(login[b].doc = None /\ users[a] # None)
        <3>1. /\ login' = [login EXCEPT ![b].pc = "session"] /\ UNCHANGED <<visit, change, decided>>
              /\ users' = [users EXCEPT ![a] = IF login[b].doc = None THEN NewUser
                                               ELSE Saved(users[a], login[b].doc, login[b].doc)]
            BY <1>4, <2>3 DEF SaveLogin
        <3>2. login' = [login EXCEPT ![b] = [login[b] EXCEPT !.pc = "session"]]
            BY <3>1 DEF SignInTypes
        <3>3. \/ UNCHANGED users
              \/ users[a] = None /\ users' = [users EXCEPT ![a] = NewUser]
            <4>1. CASE login[b].doc = None
                BY <2>3, <3>1, <4>1
            <4>2. CASE login[b].doc # None
                <5>1. Saved(users[a], login[b].doc, login[b].doc) = users[a]
                    BY <2>1, <4>2, SavedAsRead
                <5>2. users' = [users EXCEPT ![a] = users[a]]
                    BY <3>1, <4>2, <5>1
                <5>3. QED
                    BY <5>2 DEF SignInTypes
            <4>3. QED
                BY <4>1, <4>2
        <3>4. [login[b] EXCEPT !.pc = "session"].pc # "save"
            BY <1>2 DEF LoginType
        <3> HIDE DEF a
        <3>5. QED
            BY <1>2, <2>1, <3>1, <3>2, <3>3, <3>4, LoginKeeps
    <2>4. QED
        BY <2>2, <2>3
<1>5. CASE CreateSession(b) \/ CallbackFails(b)
    <2>1. login' = [login EXCEPT ![b] = NoLogin] /\ UNCHANGED <<users, visit, change, decided>>
        BY <1>5 DEF CreateSession, CallbackFails
    <2>2. QED
        BY <2>1 DEF SignInTypes, LoginType, NoLogin, AccountsStand, Stands, Barred
<1>6. CASE Logout(b)
    BY <1>6 DEF Logout, SignInTypes, AccountsStand, Stands, Barred
<1>7. QED
    BY <1>3, <1>4, <1>5, <1>6

\* A step of a request touches no sign-in and no edit.
LEMMA VisitKeeps ==
    ASSUME SignInInvariant, NEW b \in Browsers, NEW new \in VisitType,
           visit' = [visit EXCEPT ![b] = new],
           NEW a \in Accounts,
           \/ UNCHANGED users
           \/ users[a] = None /\ users' = [users EXCEPT ![a] = NewUser],
           new.pc # "none" => new.email \in Accounts,
           new.pc = "act" => ~new.barred,
           new.pc \in {"find", "create"} /\ new.barred =>
              users[new.email] \in User /\ users[new.email].disabled,
           UNCHANGED <<login, change, decided>>
    PROVE  SignInInvariant'
<1>1. /\ users' \in [Accounts -> User \cup {None}] /\ decided' \in [Accounts -> User]
      /\ \A c \in Accounts : Stands(c)'
      /\ \A c \in Accounts : users[c] \in User => users'[c] = users[c]
    BY AccountsKeep
<1>2. SignInTypes'
    BY <1>1 DEF SignInInvariant, SignInTypes
<1>3. AccountsStand'
    BY <1>1 DEF SignInInvariant, AccountsStand
<1>4. \A c \in Browsers :
         /\ visit'[c].pc # "none" => visit'[c].email \in Accounts
         /\ visit'[c].pc = "act" => ~visit'[c].barred
         /\ visit'[c].pc \in {"find", "create"} /\ visit'[c].barred =>
               users'[visit'[c].email] \in User /\ users'[visit'[c].email].disabled
    <2> TAKE c \in Browsers
    <2>1. visit'[c] = IF c = b THEN new ELSE visit[c]
        BY DEF SignInInvariant, SignInTypes
    <2>2. visit[c].pc \in {"none", "find", "create", "act"} /\ new.pc \in {"none", "find", "create", "act"}
        BY DEF SignInInvariant, SignInTypes, VisitType
    <2>3. CASE c = b
        BY <1>1, <2>1, <2>2, <2>3
    <2>4. CASE c # b
        BY <1>1, <2>1, <2>2, <2>4 DEF SignInInvariant, Barred
    <2>5. QED
        BY <2>3, <2>4
<1>5. Barred'
    BY <1>4 DEF Barred
<1>6. QED
    BY <1>2, <1>3, <1>5 DEF SignInInvariant

LEMMA VisitsKeep ==
    ASSUME SignInInvariant, NEW b \in Browsers,
           \/ \E a \in Accounts : Visit(b, a)
           \/ FindUser(b) \/ Provision(b) \/ CreateUser(b) \/ VisitEnds(b)
    PROVE  SignInInvariant'
<1> USE DEF SignInInvariant
<1>1. NoVisit \in VisitType /\ NoVisit.pc = "none"
    BY DEF NoVisit, VisitType
<1>2. visit[b] \in VisitType
    BY DEF SignInTypes
<1>3. ASSUME NEW a \in Accounts, Visit(b, a) PROVE SignInInvariant'
    <2> DEFINE out == users[a] # None /\ users[a].disabled
               new == [pc |-> "find", email |-> a, user |-> None, barred |-> out]
    <2>1. out \in BOOLEAN /\ (out => users[a] \in User /\ users[a].disabled)
        BY DEF SignInTypes, User
    <2> HIDE DEF out
    <2>2. new \in VisitType /\ new.pc = "find" /\ new.email = a /\ new.barred = out
        BY <2>1 DEF VisitType
    <2>3. visit' = [visit EXCEPT ![b] = new] /\ UNCHANGED <<users, login, change, decided>>
        BY <1>3 DEF Visit, out
    <2> HIDE DEF new
    <2>4. QED
        BY <2>1, <2>2, <2>3, VisitKeeps
<1>4. CASE FindUser(b)
    <2> DEFINE a == visit[b].email
               act == [visit[b] EXCEPT !.pc = "act", !.user = users[a]]
    <2>1. visit[b].pc = "find" /\ a \in Accounts /\ users[a] \in User
        BY <1>4 DEF FindUser, Barred, SignInTypes
    <2>2. UNCHANGED <<users, login, change, decided>>
        BY <1>4 DEF FindUser
    <2>3. \/ visit' = [visit EXCEPT ![b] = NoVisit]
          \/ ~users[a].disabled /\ visit' = [visit EXCEPT ![b] = act]
        BY <1>4 DEF FindUser
    <2>4. CASE visit' = [visit EXCEPT ![b] = NoVisit]
        BY <1>1, <2>1, <2>2, <2>4, VisitKeeps
    <2>5. CASE ~users[a].disabled /\ visit' = [visit EXCEPT ![b] = act]
        <3>1. act \in VisitType /\ act.pc = "act" /\ act.email = a /\ act.barred = visit[b].barred
            BY <1>2, <2>1 DEF VisitType
        <3>2. ~visit[b].barred
            BY <2>1, <2>5 DEF Barred
        <3> HIDE DEF act, a
        <3>3. QED
            BY <2>1, <2>2, <2>5, <3>1, <3>2, VisitKeeps
    <2>6. QED
        BY <2>3, <2>4, <2>5
<1>5. CASE Provision(b)
    <2> DEFINE new == [visit[b] EXCEPT !.pc = "create"]
    <2>1. visit[b].pc = "find" /\ visit[b].email \in Accounts /\ users[visit[b].email] = None
        BY <1>5 DEF Provision, Barred
    <2>2. new \in VisitType /\ new.pc = "create" /\ new.email = visit[b].email
          /\ new.barred = visit[b].barred
        BY <1>2 DEF VisitType
    <2>3. ~visit[b].barred
        BY <2>1, SignInAssumption DEF Barred
    <2>4. visit' = [visit EXCEPT ![b] = new] /\ UNCHANGED <<users, login, change, decided>>
        BY <1>5 DEF Provision, SignInTypes
    <2> HIDE DEF new
    <2>5. QED
        BY <2>1, <2>2, <2>3, <2>4, VisitKeeps
<1>6. CASE CreateUser(b)
    <2> DEFINE a == visit[b].email
               act == [visit[b] EXCEPT !.pc = "act", !.user = NewUser]
    <2>1. visit[b].pc = "create" /\ a \in Accounts
        BY <1>6 DEF CreateUser, Barred
    <2>2. CASE users[a] = None
        <3>1. users' = [users EXCEPT ![a] = NewUser] /\ UNCHANGED <<login, change, decided>>
            BY <1>6, <2>2 DEF CreateUser
        <3>2. visit' = [visit EXCEPT ![b] = act]
            BY <1>6, <2>2 DEF CreateUser, SignInTypes
        <3>3. act \in VisitType /\ act.pc = "act" /\ act.email = a /\ act.barred = visit[b].barred
            BY <1>2 DEF VisitType, NewUser, User, ROLES
        <3>4. ~visit[b].barred
            BY <2>1, <2>2, SignInAssumption DEF Barred
        <3> HIDE DEF act, a
        <3>5. QED
            BY <2>1, <2>2, <3>1, <3>2, <3>3, <3>4, VisitKeeps
    <2>3. CASE users[a] # None
        <3>1. visit' = [visit EXCEPT ![b] = NoVisit] /\ UNCHANGED <<users, login, change, decided>>
            BY <1>6, <2>3 DEF CreateUser
        <3>2. QED
            BY <1>1, <2>1, <3>1, VisitKeeps
    <2>4. QED
        BY <2>2, <2>3
<1>7. CASE VisitEnds(b)
    <2>1. visit' = [visit EXCEPT ![b] = NoVisit] /\ UNCHANGED <<users, login, change, decided>>
        BY <1>7 DEF VisitEnds
    <2>2. SignInTypes' /\ AccountsStand'
        BY <1>1, <2>1 DEF SignInTypes, AccountsStand, Stands
    <2>3. \A c \in Browsers : visit'[c] = IF c = b THEN NoVisit ELSE visit[c]
        BY <2>1 DEF SignInTypes
    <2>4. Barred'
        BY <1>1, <2>1, <2>3 DEF Barred
    <2>5. QED
        BY <2>2, <2>4
<1>8. QED
    BY <1>3, <1>4, <1>5, <1>6, <1>7

\* A step of an edit, but for the save.
LEMMA ChangeKeeps ==
    ASSUME SignInInvariant, NEW e \in Edits, NEW new \in ChangeType,
           change' = [change EXCEPT ![e] = new],
           new.pc = "save" => /\ new.email \in Accounts /\ new.doc \in User /\ new.what \in Whats
                              /\ users[new.email] \in User,
           UNCHANGED <<users, login, visit, decided>>
    PROVE  SignInInvariant'
<1>1. SignInTypes' /\ Barred'
    BY DEF SignInInvariant, SignInTypes, Barred
<1>2. \A d \in Edits : change'[d] = IF d = e THEN new ELSE change[d]
    BY DEF SignInInvariant, SignInTypes
<1>3. AccountsStand'
    BY <1>2 DEF SignInInvariant, AccountsStand, Stands
<1>4. QED
    BY <1>1, <1>3 DEF SignInInvariant

LEMMA SaveKeeps ==
    ASSUME SignInInvariant, NEW e \in Edits, SaveAccount(e)
    PROVE  SignInInvariant'
<1> USE DEF SignInInvariant
<1> DEFINE a == change[e].email
           doc == change[e].doc
           what == change[e].what
           new == Saved(users[a], doc, Edited(doc, what))
           next == IF what = "disable" THEN [change[e] EXCEPT !.pc = "purge"] ELSE NoChange
<1>1. change[e].pc = "save" /\ a \in Accounts /\ doc \in User /\ what \in Whats /\ users[a] \in User
    BY DEF SaveAccount, AccountsStand
<1>2. users[a] = decided[a]
    BY <1>1, SignInAssumption DEF AccountsStand, Stands
<1>3. new \in User /\ (what # "enable" /\ users[a].disabled => new.disabled)
    BY <1>1, SavedAsEdited
<1>4. /\ users' = [users EXCEPT ![a] = new] /\ decided' = [decided EXCEPT ![a] = new]
      /\ change' = [change EXCEPT ![e] = next] /\ UNCHANGED login
    BY <1>2 DEF SaveAccount, SignInTypes
<1>5. visit' = IF what # "enable" THEN visit
               ELSE [b \in Browsers |-> IF visit[b].email = a THEN [visit[b] EXCEPT !.barred = FALSE]
                                                              ELSE visit[b]]
    BY DEF SaveAccount
<1>6. next \in ChangeType /\ next.pc # "save"
    BY <1>1 DEF SignInTypes, ChangeType, NoChange
<1> HIDE DEF new, next
<1>7. /\ users' \in [Accounts -> User \cup {None}] /\ decided' \in [Accounts -> User]
      /\ \A c \in Accounts : Stands(c)'
      /\ \A c \in Accounts : users[c] \in User => users'[c] \in User
      /\ \A c \in Accounts \ {a} : users'[c] = users[c]
      /\ users'[a] = new
    BY <1>1, <1>3, <1>4 DEF SignInTypes, AccountsStand, Stands
<1>8. visit' \in [Browsers -> VisitType]
    BY <1>5 DEF SignInTypes, VisitType
<1>9. SignInTypes'
    BY <1>4, <1>6, <1>7, <1>8 DEF SignInTypes
<1>10. AccountsStand'
    <2>1. \A d \in Edits : change'[d] = IF d = e THEN next ELSE change[d]
        BY <1>4 DEF SignInTypes
    <2>2. QED
        BY <1>4, <1>6, <1>7, <2>1 DEF AccountsStand
<1>11. Barred'
    <2>1. CASE what # "enable"
        <3>1. visit' = visit
            BY <1>5, <2>1
        <3>2. \A c \in Accounts : users[c] \in User /\ users[c].disabled =>
                                    users'[c] \in User /\ users'[c].disabled
            BY <1>3, <1>7, <2>1
        <3>3. QED
            BY <3>1, <3>2 DEF Barred
    <2>2. CASE what = "enable"
        <3>1. \A b \in Browsers : /\ visit'[b].pc = visit[b].pc /\ visit'[b].email = visit[b].email
                                  /\ visit'[b].barred => visit[b].barred /\ visit[b].email # a
            BY <1>5, <2>2 DEF SignInTypes, VisitType
        <3>2. QED
            BY <1>7, <3>1 DEF Barred
    <2>3. QED
        BY <2>1, <2>2
<1>12. QED
    BY <1>9, <1>10, <1>11

LEMMA SignInStep == SignInInvariant /\ [SignInNext]_SignInVars => SignInInvariant'
<1> SUFFICES ASSUME SignInInvariant, [SignInNext]_SignInVars PROVE SignInInvariant'
    OBVIOUS
<1>1. CASE UNCHANGED SignInVars
    BY <1>1 DEF SignInVars, SignInInvariant, SignInTypes, AccountsStand, Stands, Barred
<1>2. ASSUME NEW b \in Browsers,
             \/ \E a \in Accounts : Callback(b, a)
             \/ SaveLogin(b) \/ CreateSession(b) \/ CallbackFails(b) \/ Logout(b)
      PROVE  SignInInvariant'
    BY <1>2, LoginsKeep
<1>3. ASSUME NEW b \in Browsers,
             \/ \E a \in Accounts : Visit(b, a)
             \/ FindUser(b) \/ Provision(b) \/ CreateUser(b) \/ VisitEnds(b)
      PROVE  SignInInvariant'
    BY <1>3, VisitsKeep
<1>4. ASSUME NEW e \in Edits, NEW a \in Accounts, NEW what \in Whats, ReadAccount(e, a, what)
      PROVE  SignInInvariant'
    <2> DEFINE new == [pc |-> "save", email |-> a, doc |-> users[a], what |-> what]
    <2>1. users[a] \in User
        BY <1>4 DEF ReadAccount, SignInInvariant, SignInTypes
    <2>2. new \in ChangeType /\ new.email = a /\ new.doc = users[a] /\ new.what = what
        BY <2>1 DEF ChangeType
    <2>3. change' = [change EXCEPT ![e] = new] /\ UNCHANGED <<users, login, visit, decided>>
        BY <1>4 DEF ReadAccount
    <2> HIDE DEF new
    <2>4. QED
        BY <2>1, <2>2, <2>3, ChangeKeeps
<1>5. ASSUME NEW e \in Edits, DeleteSessions(e) \/ EditFails(e) PROVE SignInInvariant'
    <2>1. change' = [change EXCEPT ![e] = NoChange] /\ UNCHANGED <<users, login, visit, decided>>
        BY <1>5 DEF DeleteSessions, EditFails
    <2>2. NoChange \in ChangeType /\ NoChange.pc # "save"
        BY DEF NoChange, ChangeType
    <2>3. QED
        BY <2>1, <2>2, ChangeKeeps
<1>6. QED
    BY <1>1, <1>2, <1>3, <1>4, <1>5, SaveKeeps DEF SignInNext, Whats

\* For any number of accounts, browsers and edits.
THEOREM AdministratorsAlwaysRule == SignInSpec => []AdministratorsRule
<1>1. SignInInvariant => AdministratorsRule
    BY DEF SignInInvariant, Barred, AccountsStand, Stands, AdministratorsRule, DisabledIsOut, DecisionsStand
<1>2. QED
    BY <1>1, SignInInitial, SignInStep, PTL DEF SignInSpec

-----------------------------------------------------------------------------
(* Caches of answers. *)

\* Among numbers up to a bound there is a least one.
LEMMA LeastNumber ==
    ASSUME NEW n \in Nat, NEW T \in SUBSET (0..n), T # {}
    PROVE  \E x \in T : \A y \in T : x <= y
<1> DEFINE F == {0..i : i \in T}
<1>1. F \in SUBSET (SUBSET (0..n)) /\ F # {}
    <2>1. \A i \in T : 0..i \subseteq 0..n
        OBVIOUS
    <2>2. QED
        BY <2>1
<1>2. IsFiniteSet(0..n)
    BY FS_Interval
<1>3. F \subseteq FiniteSubsetsOf(0..n)
    BY <1>1, <1>2, FS_Subset DEF FiniteSubsetsOf
<1>4. PICK x \in F : \A y \in F : ~(<<y, x>> \in StrictSubsetOrdering(0..n))
    <2> HIDE DEF F
    <2>1. QED
        BY <1>1, <1>2, <1>3, FS_StrictSubsetOrderingWellFounded, WFMin
<1>5. \A y \in F : y \subseteq x => y = x
    BY <1>1, <1>4 DEF StrictSubsetOrdering
<1>6. PICK i \in T : x = 0..i
    OBVIOUS
<1>7. ASSUME NEW y \in T, y < i PROVE FALSE
    <2>1. 0..y \in F /\ 0..y \subseteq x
        BY <1>6, <1>7
    <2>2. 0..y = 0..i
        BY <1>5, <1>6, <2>1
    <2>3. i \in 0..i /\ ~(i \in 0..y)
        BY <1>7
    <2>4. QED
        BY <2>2, <2>3
<1>8. QED
    BY <1>7

-----------------------------------------------------------------------------
\* The helpers on stores.

LEMMA PositionFinds ==
    ASSUME NEW S, NEW store \in Seq(S), NEW key
    PROVE  /\ Position(store, key) \in 0..Len(store)
           /\ Position(store, key) # 0 => store[Position(store, key)].key = key
<1> DEFINE found == {i \in 1..Len(store) : store[i].key = key}
<1>1. Position(store, key) = IF found # {} THEN Min(found) ELSE 0
    BY DEF Position, SelectInSeq
<1>2. CASE found = {}
    BY <1>1, <1>2
<1>3. CASE found # {}
    <2>1. Len(store) \in Nat /\ found \in SUBSET (0..Len(store))
        OBVIOUS
    <2>2. \E x \in found : \A y \in found : x <= y
        <3> HIDE DEF found
        <3>1. QED
            BY <1>3, <2>1, LeastNumber
    <2>3. Min(found) \in found
        BY <2>2 DEF Min
    <2>4. QED
        BY <1>1, <1>3, <2>3
<1>4. QED
    BY <1>2, <1>3

LEMMA RoomKeeps ==
    ASSUME NEW S, NEW store \in Seq(S), Len(store) <= MaxEntries
    PROVE  Room(store) \in Seq(S) /\ Len(Room(store)) < MaxEntries
<1>1. MaxEntries \in Nat /\ MaxEntries > 0
    BY CacheAssumption
<1>2. CASE Len(store) >= MaxEntries
    <2>1. Room(store) = Tail(store) /\ Len(store) = MaxEntries /\ store # <<>>
        BY <1>1, <1>2 DEF Room
    <2>2. Tail(store) \in Seq(S) /\ Len(Tail(store)) = Len(store) - 1
        BY <1>1, <2>1
    <2>3. QED
        BY <1>1, <2>1, <2>2
<1>3. CASE ~(Len(store) >= MaxEntries)
    BY <1>1, <1>3 DEF Room
<1>4. QED
    BY <1>2, <1>3

LEMMA InsertedKeeps ==
    ASSUME NEW S, NEW store \in Seq(S), Len(store) <= MaxEntries, NEW key, NEW value,
           [key |-> key, value |-> value] \in S
    PROVE  Inserted(store, key, value) \in Seq(S) /\ Len(Inserted(store, key, value)) <= MaxEntries
<1> DEFINE others == Room(store)
           at == Position(others, key)
           entry == [key |-> key, value |-> value]
<1>1. others \in Seq(S) /\ Len(others) < MaxEntries /\ MaxEntries \in Nat
    BY RoomKeeps, CacheAssumption
<1>2. at \in 0..Len(others)
    <2> HIDE DEF others
    <2>1. QED
        BY <1>1, PositionFinds
<1>3. Inserted(store, key, value) = IF at = 0 THEN Append(others, entry) ELSE [others EXCEPT ![at] = entry]
    BY DEF Inserted
<1> HIDE DEF others, at, entry
<1>4. entry \in S
    BY DEF entry
<1>5. QED
    BY <1>1, <1>2, <1>3, <1>4

LEMMA RemovedKeeps ==
    ASSUME NEW S, NEW store \in Seq(S), NEW i \in 1..Len(store)
    PROVE  RemoveAt(store, i) \in Seq(S) /\ Len(RemoveAt(store, i)) <= Len(store)
<1>1. RemoveAt(store, i) = SubSeq(store, 1, i - 1) \o SubSeq(store, i + 1, Len(store))
    BY DEF RemoveAt
<1>2. SubSeq(store, 1, i - 1) \in Seq(S) /\ Len(SubSeq(store, 1, i - 1)) = i - 1
    OBVIOUS
<1>3. SubSeq(store, i + 1, Len(store)) \in Seq(S) /\ Len(SubSeq(store, i + 1, Len(store))) = Len(store) - i
    OBVIOUS
<1>4. Len(store) \in Nat /\ i - 1 \in Nat /\ Len(store) - i \in Nat
    OBVIOUS
<1> DEFINE before == SubSeq(store, 1, i - 1)
           after == SubSeq(store, i + 1, Len(store))
<1>5. /\ before \in Seq(S) /\ Len(before) = i - 1 /\ after \in Seq(S) /\ Len(after) = Len(store) - i
      /\ RemoveAt(store, i) = before \o after
    BY <1>1, <1>2, <1>3
<1> HIDE DEF before, after
<1>6. before \o after \in Seq(S) /\ Len(before \o after) = Len(before) + Len(after)
    BY <1>5, ConcatProperties
<1>7. QED
    BY <1>4, <1>5, <1>6

-----------------------------------------------------------------------------
\* A scan leaves entries of the store, and only young ones. The function that it is defined
\* by exists: else there is a least length at which it does not.

KeptAt(store, f, n) ==
    IF n = 0 THEN <<>> ELSE IF Young(store[n]) THEN Append(f[n - 1], store[n]) ELSE f[n - 1]
Scan(store, m, f) == f = [n \in 0..m |-> KeptAt(store, f, n)]

LEMMA ScanGoesOn ==
    ASSUME NEW store, NEW m \in Nat, NEW f, Scan(store, m, f)
    PROVE  \E g : Scan(store, m + 1, g)
<1> DEFINE g == [n \in 0..(m + 1) |-> KeptAt(store, f, n)]
<1>1. \A n \in 0..m : g[n] = f[n]
    <2>1. \A n \in 0..m : f[n] = KeptAt(store, f, n)
        BY DEF Scan
    <2>2. \A n \in 0..m : n \in 0..(m + 1)
        OBVIOUS
    <2>3. QED
        BY <2>1, <2>2
<1> HIDE DEF g
<1>2. ASSUME NEW n \in 0..(m + 1) PROVE KeptAt(store, f, n) = KeptAt(store, g, n)
    <2>1. CASE n = 0
        BY <2>1 DEF KeptAt
    <2>2. CASE n # 0
        <3>1. n - 1 \in 0..m
            BY <2>2
        <3>2. g[n - 1] = f[n - 1]
            BY <1>1, <3>1
        <3>3. QED
            BY <3>2 DEF KeptAt
    <2>3. QED
        BY <2>1, <2>2
<1>3. g = [n \in 0..(m + 1) |-> KeptAt(store, g, n)]
    BY <1>2 DEF g
<1>4. QED
    BY <1>3 DEF Scan

LEMMA ScanExists ==
    ASSUME NEW store, NEW length \in Nat
    PROVE  \E f : Scan(store, length, f)
<1> DEFINE unmade == {m \in 0..length : ~\E f : Scan(store, m, f)}
<1>1. ASSUME unmade # {} PROVE FALSE
    <2>1. unmade \in SUBSET (0..length)
        OBVIOUS
    <2>2. PICK m \in unmade : \A y \in unmade : m <= y
        <3> HIDE DEF unmade
        <3>1. QED
            BY <1>1, <2>1, LeastNumber
    <2>3. m \in 0..length /\ ~\E f : Scan(store, m, f)
        OBVIOUS
    <2>4. CASE m = 0
        <3> DEFINE f == [n \in 0..0 |-> <<>>]
        <3>1. f = [n \in 0..0 |-> KeptAt(store, f, n)]
            BY DEF KeptAt
        <3>2. QED
            BY <2>3, <2>4, <3>1 DEF Scan
    <2>5. CASE m # 0
        <3>1. m - 1 \in Nat /\ m - 1 \in 0..length /\ ~(m <= m - 1) /\ (m - 1) + 1 = m
            BY <2>3, <2>5
        <3>2. ~(m - 1 \in unmade)
            BY <2>2, <3>1
        <3>3. \E f : Scan(store, m - 1, f)
            BY <3>1, <3>2
        <3>4. QED
            BY <2>3, <3>1, <3>3, ScanGoesOn
    <2>6. QED
        BY <2>4, <2>5
<1>2. QED
    BY <1>1

LEMMA UnexpiredKeeps ==
    ASSUME NEW S, NEW store \in Seq(S)
    PROVE  /\ Unexpired(store) \in Seq({value \in S : Young(value)})
           /\ Len(Unexpired(store)) <= Len(store)
<1> DEFINE fresh == {value \in S : Young(value)}
           length == Len(store)
           scan == CHOOSE f : Scan(store, length, f)
           bad == {n \in 0..length : ~(scan[n] \in Seq(fresh) /\ Len(scan[n]) <= n)}
<1>1. length \in Nat /\ \A n \in 1..length : store[n] \in S
    OBVIOUS
<1>2. Unexpired(store) = scan[length]
    BY DEF Unexpired, Scan, KeptAt
<1>3. Scan(store, length, scan)
    BY <1>1, ScanExists
<1> HIDE DEF length, scan
<1>4. \A n \in 0..length : scan[n] = KeptAt(store, scan, n)
    BY <1>3 DEF Scan
<1>5. ASSUME bad # {} PROVE FALSE
    <2>1. bad \in SUBSET (0..length)
        OBVIOUS
    <2>2. PICK n \in bad : \A y \in bad : n <= y
        <3> HIDE DEF bad
        <3>1. QED
            BY <1>1, <1>5, <2>1, LeastNumber
    <2>3. n \in 0..length /\ ~(scan[n] \in Seq(fresh) /\ Len(scan[n]) <= n)
        OBVIOUS
    <2>4. CASE n = 0
        <3>1. scan[n] = <<>>
            BY <1>4, <2>3, <2>4 DEF KeptAt
        <3> HIDE DEF fresh
        <3>2. QED
            BY <2>3, <2>4, <3>1
    <2>5. CASE n # 0
        <3>1. n - 1 \in 0..length /\ ~(n <= n - 1) /\ n \in 1..length
            BY <1>1, <2>3, <2>5
        <3>2. ~(n - 1 \in bad)
            BY <2>2, <3>1
        <3>3. scan[n - 1] \in Seq(fresh) /\ Len(scan[n - 1]) <= n - 1
            BY <3>1, <3>2
        <3>4. scan[n] = IF Young(store[n]) THEN Append(scan[n - 1], store[n]) ELSE scan[n - 1]
            BY <1>4, <2>3, <2>5 DEF KeptAt
        <3>5. Young(store[n]) => store[n] \in fresh
            BY <1>1, <3>1
        <3> HIDE DEF fresh, bad
        <3>6. QED
            BY <2>3, <3>1, <3>3, <3>4, <3>5
    <2>6. QED
        BY <2>4, <2>5
<1>6. length \in 0..length /\ ~(length \in bad)
    BY <1>1, <1>5
<1>7. scan[length] \in Seq(fresh) /\ Len(scan[length]) <= length
    BY <1>6
<1>8. QED
    BY <1>2, <1>7 DEF length

-----------------------------------------------------------------------------
\* An answer of a tenant, and an entry whose key names the tenant of its answer.
AnswerOf(t) == [for : {t}, barred : BOOLEAN, left : Int]
OwnEntry(entry) == /\ entry.key \in Tenants \X Prompts
                   /\ entry.value \in AnswerOf(entry.key[1])
ExactEntry == {entry \in [key : Tenants \X Prompts, value : [for : Tenants, barred : BOOLEAN, left : Int]] :
                  OwnEntry(entry)}

\* A request is of some tenant, and what it has was made for that tenant, and is allowed.
ChatType == [pc : {"none", "exact", "near", "call", "store", "served", "blocked"},
             tenant : Tenants \cup {None}, prompt : Prompts \cup {None}, strict : BOOLEAN,
             value : {None} \cup [for : Tenants, barred : BOOLEAN, left : Int]]
ChatSound(x) ==
    /\ x.pc # "none" => x.tenant \in Tenants /\ x.prompt \in Prompts
    /\ x.pc \in {"store", "served"} => /\ x.value \in AnswerOf(x.tenant) /\ x.value.left >= 0
                                       /\ x.strict => ~x.value.barred

StoresSound ==
    /\ exact \in Seq(ExactEntry) /\ Len(exact) <= MaxEntries
    /\ DOMAIN near = Tenants
    /\ \A t \in Tenants : near[t] \in Seq(AnswerOf(t)) /\ Len(near[t]) <= MaxEntries
ChatsSound == chat \in [Chats -> ChatType] /\ \A c \in Chats : ChatSound(chat[c])

CacheInvariant == StoresSound /\ ChatsSound

LEMMA CacheInitial == CacheInit => CacheInvariant
<1> SUFFICES ASSUME CacheInit PROVE CacheInvariant
    OBVIOUS
<1>1. StoresSound
    BY CacheAssumption DEF CacheInit, StoresSound
<1>2. NoChat \in ChatType /\ ChatSound(NoChat)
    BY DEF NoChat, ChatType, ChatSound
<1>3. ChatsSound
    BY <1>2 DEF CacheInit, ChatsSound
<1>4. QED
    BY <1>1, <1>3 DEF CacheInvariant

LEMMA ChatMoves ==
    ASSUME ChatsSound, NEW c \in Chats, NEW new \in ChatType, ChatSound(new), chat' = [chat EXCEPT ![c] = new]
    PROVE  ChatsSound'
<1>1. /\ chat' \in [Chats -> ChatType]
      /\ \A d \in Chats : chat'[d] = IF d = c THEN new ELSE chat[d]
    BY DEF ChatsSound
<1>2. QED
    BY <1>1 DEF ChatsSound

\* A step of a request to where it has an answer that may be served, or none.
LEMMA ToKeeps ==
    ASSUME ChatsSound, NEW c \in Chats, chat[c].pc # "none", NEW pc \in {"near", "call", "store", "served", "blocked"},
           NEW STATE value, To(c, pc, value),
           value = None \/ value \in AnswerOf(chat[c].tenant),
           pc \in {"store", "served"} => /\ value \in AnswerOf(chat[c].tenant) /\ value.left >= 0
                                         /\ chat[c].strict => ~value.barred
    PROVE  ChatsSound'
<1> DEFINE x == chat[c]
           new == [x EXCEPT !.pc = pc, !.value = value]
<1>1. x \in ChatType /\ ChatSound(x) /\ x.tenant \in Tenants
    BY DEF ChatsSound, ChatSound
<1>2. value \in {None} \cup [for : Tenants, barred : BOOLEAN, left : Int]
    BY <1>1 DEF AnswerOf
<1>3. chat' = [chat EXCEPT ![c] = new]
    BY DEF To, ChatsSound
<1>4. /\ new \in ChatType /\ new.pc = pc /\ new.value = value /\ new.tenant = x.tenant
      /\ new.prompt = x.prompt
    BY <1>1, <1>2 DEF ChatType
<1>5. new.strict = x.strict
    BY <1>1 DEF ChatType
<1> HIDE DEF new
<1>6. ChatSound(new)
    BY <1>1, <1>4, <1>5 DEF ChatSound
<1>7. QED
    BY <1>3, <1>4, <1>6, ChatMoves

LEMMA HitKeeps ==
    ASSUME ChatsSound, NEW c \in Chats, chat[c].pc # "none", NEW STATE value, value \in AnswerOf(chat[c].tenant),
           Young(value), DeliverHit(c, value)
    PROVE  ChatsSound'
<1>1. value.left >= 0
    BY DEF Young
<1>2. CASE chat[c].strict /\ value.barred
    <2>1. To(c, "blocked", value)
        BY <1>2 DEF DeliverHit
    <2>2. QED
        BY <2>1, ToKeeps
<1>3. CASE ~(chat[c].strict /\ value.barred)
    <2>1. To(c, "served", value)
        BY <1>3 DEF DeliverHit
    <2>2. QED
        BY <1>1, <1>3, <2>1, ToKeeps
<1>4. QED
    BY <1>2, <1>3

\* The exact cache gives a request nothing but answers of its own tenant.
LEMMA ExactKeeps ==
    ASSUME CacheInvariant, NEW c \in Chats, LookUpExact(c)
    PROVE  CacheInvariant'
<1> DEFINE x == chat[c]
           at == Position(exact, CacheKey(x.tenant, x.prompt))
           entry == exact[at]
<1>1. StoresSound /\ ChatsSound /\ exact \in Seq(ExactEntry) /\ x \in ChatType
    BY DEF CacheInvariant, StoresSound, ChatsSound
<1>2. x.pc = "exact" /\ x.pc # "none"
    BY DEF LookUpExact
<1>3. at \in 0..Len(exact) /\ (at # 0 => entry.key = <<x.tenant, x.prompt>>)
    BY <1>1, PositionFinds DEF CacheKey
<1>4. at # 0 => entry.value \in AnswerOf(x.tenant)
    <2> SUFFICES ASSUME at # 0 PROVE entry.value \in AnswerOf(x.tenant)
        OBVIOUS
    <2>1. at \in 1..Len(exact)
        BY <1>3
    <2> HIDE DEF at
    <2>2. entry \in ExactEntry
        BY <1>1, <2>1
    <2>3. entry.value \in AnswerOf(entry.key[1])
        BY <2>2 DEF ExactEntry, OwnEntry
    <2>4. QED
        BY <1>3, <2>3
<1>5. UNCHANGED near
    BY DEF LookUpExact
<1>6. CASE at = 0
    <2>1. To(c, "near", None) /\ UNCHANGED exact
        BY <1>6 DEF LookUpExact
    <2>2. ChatsSound'
        BY <1>1, <1>2, <2>1, ToKeeps
    <2>3. QED
        BY <1>1, <1>5, <2>1, <2>2 DEF CacheInvariant, StoresSound
<1>7. CASE at # 0 /\ Young(entry.value)
    <2>1. DeliverHit(c, entry.value) /\ UNCHANGED exact
        BY <1>7 DEF LookUpExact
    <2> HIDE DEF entry
    <2>2. ChatsSound'
        BY <1>1, <1>2, <1>4, <1>7, <2>1, HitKeeps
    <2>3. QED
        BY <1>1, <1>5, <2>1, <2>2 DEF CacheInvariant, StoresSound
<1>8. CASE at # 0 /\ ~Young(entry.value)
    <2>1. To(c, "near", None) /\ exact' = RemoveAt(exact, at)
        BY <1>8 DEF LookUpExact
    <2>2. ChatsSound'
        BY <1>1, <1>2, <2>1, ToKeeps
    <2>3. at \in 1..Len(exact)
        BY <1>3, <1>8
    <2> HIDE DEF at
    <2>4. exact' \in Seq(ExactEntry) /\ Len(exact') <= Len(exact)
        BY <1>1, <2>1, <2>3, RemovedKeeps
    <2>5. Len(exact') <= MaxEntries
        BY <1>1, <2>4, CacheAssumption DEF StoresSound
    <2>6. QED
        BY <1>1, <1>5, <2>2, <2>4, <2>5 DEF CacheInvariant, StoresSound
<1>9. QED
    BY <1>6, <1>7, <1>8

\* The store of one tenant changes.
LEMMA NearMoves ==
    ASSUME StoresSound, NEW STATE t, t \in Tenants, NEW STATE store, store \in Seq(AnswerOf(t)), Len(store) <= MaxEntries,
           near' = [near EXCEPT ![t] = store], UNCHANGED exact
    PROVE  StoresSound'
BY DEF StoresSound

LEMMA NearKeeps ==
    ASSUME CacheInvariant, NEW c \in Chats, LookUpNear(c) \/ SkipNear(c)
    PROVE  CacheInvariant'
<1> DEFINE t == chat[c].tenant
           live == Unexpired(near[t])
<1>1. StoresSound /\ ChatsSound /\ chat[c].pc # "none" /\ t \in Tenants
    BY DEF CacheInvariant, ChatsSound, ChatSound, LookUpNear, SkipNear
<1>2. near[t] \in Seq(AnswerOf(t)) /\ Len(near[t]) <= MaxEntries
    BY <1>1 DEF StoresSound
<1>3. live \in Seq({value \in AnswerOf(t) : Young(value)}) /\ Len(live) <= Len(near[t])
    <2> HIDE DEF t
    <2>1. QED
        BY <1>2, UnexpiredKeeps
<1> HIDE DEF live
<1>4. live \in Seq(AnswerOf(t)) /\ Len(live) \in Nat /\ \A i \in DOMAIN live : live[i] \in AnswerOf(t) /\ Young(live[i])
    BY <1>3
<1>5. Len(live) <= MaxEntries
    BY <1>2, <1>3, <1>4, CacheAssumption
<1>6. CASE LookUpNear(c)
    <2>1. /\ near' = [near EXCEPT ![t] = live] /\ UNCHANGED exact
          /\ To(c, "call", None) \/ \E i \in DOMAIN live : DeliverHit(c, live[i])
        BY <1>6 DEF LookUpNear, live
    <2>2. StoresSound'
        <3> HIDE DEF t
        <3>1. QED
            BY <1>1, <1>4, <1>5, <2>1, NearMoves
    <2>3. CASE To(c, "call", None)
        <3>1. ChatsSound'
            BY <1>1, <2>3, ToKeeps
        <3>2. QED
            BY <2>2, <3>1 DEF CacheInvariant
    <2>4. ASSUME NEW i \in DOMAIN live, DeliverHit(c, live[i]) PROVE CacheInvariant'
        <3>1. ChatsSound'
            BY <1>1, <1>4, <2>4, HitKeeps
        <3>2. QED
            BY <2>2, <3>1 DEF CacheInvariant
    <2>5. QED
        BY <2>1, <2>3, <2>4
<1>7. CASE SkipNear(c)
    <2>1. To(c, "call", None) /\ UNCHANGED <<exact, near>>
        BY <1>7 DEF SkipNear
    <2>2. ChatsSound'
        BY <1>1, <2>1, ToKeeps
    <2>3. QED
        BY <1>1, <2>1, <2>2 DEF CacheInvariant, StoresSound
<1>8. QED
    BY <1>6, <1>7

\* What the provider answers is of the tenant, new, and stored only when it is allowed.
LEMMA CallKeeps ==
    ASSUME CacheInvariant, NEW c \in Chats, CallReturns(c)
    PROVE  CacheInvariant'
<1> DEFINE x == chat[c]
<1>1. StoresSound /\ ChatsSound /\ x.pc # "none" /\ x.tenant \in Tenants /\ x.prompt \in Prompts
    BY DEF CacheInvariant, ChatsSound, ChatSound, CallReturns
<1>2. UNCHANGED near
    BY DEF CallReturns
<1>3. PICK value \in Texts(x.tenant) :
          IF x.strict /\ value.barred THEN To(c, "blocked", value) /\ UNCHANGED exact
          ELSE /\ To(c, "store", value)
               /\ exact' = Inserted(exact, CacheKey(x.tenant, x.prompt), value)
    BY DEF CallReturns
<1>4. value \in AnswerOf(x.tenant) /\ value.left >= 0
    BY CacheAssumption DEF Texts, AnswerOf
<1>5. CASE x.strict /\ value.barred
    <2>1. To(c, "blocked", value) /\ UNCHANGED exact
        BY <1>3, <1>5
    <2>2. ChatsSound'
        BY <1>1, <1>4, <2>1, ToKeeps
    <2>3. QED
        BY <1>1, <1>2, <2>1, <2>2 DEF CacheInvariant, StoresSound
<1>6. CASE ~(x.strict /\ value.barred)
    <2> DEFINE key == CacheKey(x.tenant, x.prompt)
               entry == [key |-> key, value |-> value]
    <2>1. To(c, "store", value) /\ exact' = Inserted(exact, key, value)
        BY <1>3, <1>6
    <2>2. ChatsSound'
        BY <1>1, <1>4, <1>6, <2>1, ToKeeps
    <2>3. key \in Tenants \X Prompts /\ key[1] = x.tenant
        BY <1>1 DEF CacheKey
    <2> HIDE DEF key
    <2>4. value \in [for : Tenants, barred : BOOLEAN, left : Int]
        BY <1>1, <1>4 DEF AnswerOf
    <2>5. OwnEntry(entry)
        BY <1>4, <2>3 DEF OwnEntry
    <2>6. entry \in ExactEntry
        BY <2>3, <2>4, <2>5 DEF ExactEntry
    <2>7. exact' \in Seq(ExactEntry) /\ Len(exact') <= MaxEntries
        BY <1>1, <2>1, <2>6, InsertedKeeps DEF StoresSound
    <2>8. QED
        BY <1>1, <1>2, <2>2, <2>7 DEF CacheInvariant, StoresSound
<1>7. QED
    BY <1>5, <1>6

LEMMA StoreKeeps ==
    ASSUME CacheInvariant, NEW c \in Chats, StoreNear(c) \/ SkipStore(c)
    PROVE  CacheInvariant'
<1> DEFINE x == chat[c]
<1>1. StoresSound /\ ChatsSound /\ ChatSound(x) /\ x.pc = "store" /\ UNCHANGED exact
    BY DEF CacheInvariant, ChatsSound, StoreNear, SkipStore
<1>2. To(c, "served", x.value)
    BY DEF StoreNear, SkipStore
<1>3. x.tenant \in Tenants /\ x.value \in AnswerOf(x.tenant) /\ x.value.left >= 0 /\ (x.strict => ~x.value.barred)
    BY <1>1 DEF ChatSound
<1>4. ChatsSound'
    BY <1>1, <1>2, <1>3, ToKeeps
<1>5. CASE StoreNear(c)
    <2> DEFINE store == Append(Room(near[x.tenant]), x.value)
    <2>1. near' = [near EXCEPT ![x.tenant] = store]
        BY <1>1, <1>3, <1>5 DEF StoreNear, StoresSound
    <2>2. near[x.tenant] \in Seq(AnswerOf(x.tenant)) /\ Len(near[x.tenant]) <= MaxEntries
        BY <1>1, <1>3 DEF StoresSound
    <2>3. Room(near[x.tenant]) \in Seq(AnswerOf(x.tenant)) /\ Len(Room(near[x.tenant])) < MaxEntries
        BY <2>2, RoomKeeps
    <2>4. store \in Seq(AnswerOf(x.tenant)) /\ Len(store) <= MaxEntries
        BY <1>3, <2>3, CacheAssumption
    <2> HIDE DEF store, x
    <2>5. StoresSound'
        BY <1>1, <1>3, <2>1, <2>4, NearMoves
    <2>6. QED
        BY <1>4, <2>5 DEF CacheInvariant
<1>6. CASE SkipStore(c)
    BY <1>1, <1>4, <1>6 DEF SkipStore, CacheInvariant, StoresSound
<1>7. QED
    BY <1>5, <1>6

LEMMA OlderKeeps ==
    ASSUME NEW t, NEW value \in AnswerOf(t)
    PROVE  Older(value) \in AnswerOf(t)
<1> DEFINE left == IF value.left < 0 THEN value.left ELSE value.left - 1
<1>1. left \in Int
    BY DEF AnswerOf
<1>2. Older(value) = [value EXCEPT !.left = left]
    BY DEF Older
<1> HIDE DEF left
<1>3. QED
    BY <1>1, <1>2 DEF AnswerOf

LEMMA PassKeeps ==
    ASSUME CacheInvariant, Pass
    PROVE  CacheInvariant'
<1>1. exact \in Seq(ExactEntry) /\ Len(exact) <= MaxEntries
    BY DEF CacheInvariant, StoresSound
<1>2. exact' = [i \in 1..Len(exact) |-> [exact[i] EXCEPT !.value = Older(exact[i].value)]]
    BY <1>1 DEF Pass
<1>3. ASSUME NEW entry \in ExactEntry PROVE [entry EXCEPT !.value = Older(entry.value)] \in ExactEntry
    <2> DEFINE new == [entry EXCEPT !.value = Older(entry.value)]
    <2>1. /\ entry \in [key : Tenants \X Prompts, value : [for : Tenants, barred : BOOLEAN, left : Int]]
          /\ OwnEntry(entry)
        BY DEF ExactEntry
    <2>2. Older(entry.value) \in AnswerOf(entry.key[1]) /\ entry.key[1] \in Tenants
        BY <2>1, OlderKeeps DEF OwnEntry
    <2>3. Older(entry.value) \in [for : Tenants, barred : BOOLEAN, left : Int]
        BY <2>2 DEF AnswerOf
    <2>4. /\ new \in [key : Tenants \X Prompts, value : [for : Tenants, barred : BOOLEAN, left : Int]]
          /\ new.key = entry.key /\ new.value = Older(entry.value)
        BY <2>1, <2>3
    <2> HIDE DEF new
    <2>5. OwnEntry(new)
        BY <2>1, <2>2, <2>4 DEF OwnEntry
    <2>6. QED
        BY <2>4, <2>5 DEF ExactEntry, new
<1>4. exact' \in Seq(ExactEntry) /\ Len(exact') = Len(exact)
    <2>1. \A i \in 1..Len(exact) : [exact[i] EXCEPT !.value = Older(exact[i].value)] \in ExactEntry
        BY <1>1, <1>3
    <2>2. QED
        BY <1>1, <1>2, <2>1
<1>5. near' = [t \in Tenants |-> [i \in DOMAIN near[t] |-> Older(near[t][i])]] /\ UNCHANGED chat
    BY DEF Pass
<1>6. ASSUME NEW t \in Tenants PROVE near'[t] \in Seq(AnswerOf(t)) /\ Len(near'[t]) <= MaxEntries
    <2>1. near[t] \in Seq(AnswerOf(t)) /\ Len(near[t]) <= MaxEntries
        BY DEF CacheInvariant, StoresSound
    <2>2. near'[t] = [i \in 1..Len(near[t]) |-> Older(near[t][i])]
        BY <1>5, <2>1
    <2>3. \A i \in 1..Len(near[t]) : Older(near[t][i]) \in AnswerOf(t)
        BY <2>1, OlderKeeps
    <2>4. near'[t] \in Seq(AnswerOf(t)) /\ Len(near'[t]) = Len(near[t])
        BY <2>1, <2>2, <2>3
    <2>5. QED
        BY <2>1, <2>4
<1>7. StoresSound'
    BY <1>1, <1>4, <1>5, <1>6 DEF StoresSound
<1>8. QED
    BY <1>5, <1>7 DEF CacheInvariant, ChatsSound

LEMMA CacheStep == CacheInvariant /\ [CacheNext]_CacheVars => CacheInvariant'
<1> SUFFICES ASSUME CacheInvariant, [CacheNext]_CacheVars PROVE CacheInvariant'
    OBVIOUS
<1>1. CASE UNCHANGED CacheVars
    BY <1>1 DEF CacheVars, CacheInvariant, StoresSound, ChatsSound
<1>2. ASSUME NEW c \in Chats, NEW t \in Tenants, NEW prompt \in Prompts, NEW strict \in BOOLEAN,
             Enter(c, t, prompt, strict)
      PROVE  CacheInvariant'
    <2> DEFINE new == [pc |-> "exact", tenant |-> t, prompt |-> prompt, strict |-> strict, value |-> None]
    <2>1. chat' = [chat EXCEPT ![c] = new] /\ UNCHANGED <<exact, near>>
        BY <1>2 DEF Enter
    <2>2. new \in ChatType /\ ChatSound(new)
        BY DEF ChatType, ChatSound
    <2> HIDE DEF new
    <2>3. ChatsSound'
        BY <2>1, <2>2, ChatMoves DEF CacheInvariant
    <2>4. QED
        BY <2>1, <2>3 DEF CacheInvariant, StoresSound
<1>3. ASSUME NEW c \in Chats, Returned(c) PROVE CacheInvariant'
    <2>1. NoChat \in ChatType /\ ChatSound(NoChat)
        BY DEF NoChat, ChatType, ChatSound
    <2>2. ChatsSound'
        BY <1>3, <2>1, ChatMoves DEF Returned, CacheInvariant
    <2>3. QED
        BY <1>3, <2>2 DEF Returned, CacheInvariant, StoresSound
<1>4. QED
    BY <1>1, <1>2, <1>3, ExactKeeps, NearKeeps, CallKeeps, StoreKeeps, PassKeeps DEF CacheNext

\* For any number of tenants, prompts and requests, any capacity and any lifetime.
THEOREM CachesAlwaysSound == CacheSpec => []CachesAreSound
<1>1. CacheInvariant => CachesAreSound
    <2> SUFFICES ASSUME CacheInvariant PROVE CachesAreSound
        OBVIOUS
    <2>1. CachesBounded
        BY DEF CacheInvariant, StoresSound, CachesBounded
    <2>2. ASSUME NEW c \in Chats, Served(c)
          PROVE  /\ chat[c].value \in AnswerOf(chat[c].tenant) /\ chat[c].value.left >= 0
                 /\ chat[c].strict => ~chat[c].value.barred
        BY <2>2 DEF Served, CacheInvariant, ChatsSound, ChatSound
    <2>3. AnswersAreOwn
        BY <2>2 DEF AnswersAreOwn, AnswerOf
    <2>4. AnswersAreFresh /\ BarredIsNotServed
        BY <2>2 DEF AnswersAreFresh, BarredIsNotServed
    <2>5. QED
        BY <2>1, <2>3, <2>4 DEF CachesAreSound
<1>2. QED
    BY <1>1, CacheInitial, CacheStep, PTL DEF CacheSpec

-----------------------------------------------------------------------------
(* Doors and replies. *)

\* A set of numbers that holds the first and with any but the last the next one is all of them.
LEMMA NumbersReached ==
    ASSUME NEW n \in Nat, NEW T \in SUBSET (1..n), n > 0 => 1 \in T,
           \A i \in 1..n : i \in T /\ i < n => i + 1 \in T
    PROVE  T = 1..n
<1> DEFINE missed == (1..n) \ T
<1>1. ASSUME missed # {} PROVE FALSE
  <2>1. missed \in SUBSET (0..n)
      OBVIOUS
  <2>2. PICK x \in missed : \A y \in missed : x <= y
    <3> HIDE DEF missed
    <3>1. QED
        BY <1>1, <2>1, LeastNumber
  <2>3. x \in 1..n /\ x \notin T /\ x # 1
      OBVIOUS
  <2>4. x - 1 \in 1..n /\ x - 1 < n /\ (x - 1) + 1 = x
      BY <2>3
  <2>5. x - 1 \in T
    <3>1. CASE x - 1 \in missed
      <4>1. x <= x - 1
          BY <2>2, <3>1
      <4>2. QED
          BY <2>3, <4>1
    <3>2. CASE x - 1 \notin missed
        BY <2>4, <3>2
    <3>3. QED
        BY <3>1, <3>2
  <2>6. QED
      BY <2>3, <2>4, <2>5
<1>2. QED
    BY <1>1

\* What the texts of a sequence add up to, one after the other.
Strung(seqs, n, g) == g = [i \in 1..n |-> IF i = 1 THEN seqs[i] ELSE g[i - 1] \o seqs[i]]

LEMMA StrungAgree ==
    ASSUME NEW n \in Nat, NEW m \in 0..n, NEW seqs, NEW g, NEW h, Strung(seqs, n, g), Strung(seqs, m, h)
    PROVE  \A i \in 1..m : g[i] = h[i]
<1> DEFINE T == {i \in 1..m : g[i] = h[i]}
<1>1. \A i \in 1..m : /\ g[i] = IF i = 1 THEN seqs[i] ELSE g[i - 1] \o seqs[i]
                      /\ h[i] = IF i = 1 THEN seqs[i] ELSE h[i - 1] \o seqs[i]
  <2>1. \A i \in 1..n : g[i] = IF i = 1 THEN seqs[i] ELSE g[i - 1] \o seqs[i]
      BY DEF Strung
  <2>2. \A i \in 1..m : h[i] = IF i = 1 THEN seqs[i] ELSE h[i - 1] \o seqs[i]
      BY DEF Strung
  <2>3. QED
      BY <2>1, <2>2
<1>2. m > 0 => 1 \in T
    BY <1>1
<1>3. ASSUME NEW i \in 1..m, i \in T, i < m PROVE i + 1 \in T
  <2>1. i + 1 \in 1..m /\ i + 1 # 1 /\ (i + 1) - 1 = i /\ g[i] = h[i]
      BY <1>3
  <2>2. g[i + 1] = g[i] \o seqs[i + 1] /\ h[i + 1] = h[i] \o seqs[i + 1]
      BY <1>1, <2>1
  <2>3. QED
      BY <2>1, <2>2
<1>4. T = 1..m
  <2>1. T \in SUBSET (1..m) /\ m \in Nat
      OBVIOUS
  <2> HIDE DEF T
  <2>2. QED
      BY <1>2, <1>3, <2>1, NumbersReached
<1>5. QED
    BY <1>4

LEMMA StrungExists ==
    ASSUME NEW n \in Nat, NEW seqs
    PROVE  \E g : Strung(seqs, n, g)
<1> DEFINE T == {m \in 1..n : \E g : Strung(seqs, m, g)}
<1>1. n > 0 => 1 \in T
  <2>1. Strung(seqs, 1, [i \in 1..1 |-> seqs[i]])
      BY DEF Strung
  <2>2. QED
      BY <2>1
<1>2. ASSUME NEW m \in 1..n, m \in T, m < n PROVE m + 1 \in T
  <2>1. PICK g : Strung(seqs, m, g)
      BY <1>2
  <2> DEFINE h == [i \in 1..(m + 1) |-> IF i = m + 1 THEN g[m] \o seqs[i] ELSE g[i]]
  <2>2. \A i \in 1..m : g[i] = IF i = 1 THEN seqs[i] ELSE g[i - 1] \o seqs[i]
      BY <2>1 DEF Strung
  <2>3. \A i \in 1..(m + 1) : h[i] = IF i = m + 1 THEN g[m] \o seqs[i] ELSE g[i]
      OBVIOUS
  <2>4. \A i \in 1..m : h[i] = g[i]
      BY <2>3
  <2>5. ASSUME NEW i \in 1..(m + 1) PROVE h[i] = IF i = 1 THEN seqs[i] ELSE h[i - 1] \o seqs[i]
    <3> HIDE DEF h
    <3>1. CASE i = m + 1
      <4>1. i # 1 /\ i - 1 = m /\ m \in 1..m
          BY <3>1
      <4>2. QED
          BY <2>3, <2>4, <3>1, <4>1
    <3>2. CASE i \in 1..m /\ i = 1
        BY <2>2, <2>4, <3>2
    <3>3. CASE i \in 1..m /\ i # 1
      <4>1. i - 1 \in 1..m
          BY <3>3
      <4>2. QED
          BY <2>2, <2>4, <3>3, <4>1
    <3>4. QED
        BY <3>1, <3>2, <3>3
  <2>6. h = [i \in 1..(m + 1) |-> h[i]]
      OBVIOUS
  <2> HIDE DEF h
  <2>7. Strung(seqs, m + 1, h)
      BY <2>5, <2>6 DEF Strung
  <2>8. m + 1 \in 1..n
      BY <1>2
  <2>9. QED
      BY <2>7, <2>8
<1>3. T = 1..n
  <2>1. T \in SUBSET (1..n)
      OBVIOUS
  <2> HIDE DEF T
  <2>2. QED
      BY <1>1, <1>2, <2>1, NumbersReached
<1>4. CASE n > 0
  <2>1. n \in T
      BY <1>3, <1>4
  <2>2. QED
      BY <2>1
<1>5. CASE n = 0
  <2>1. Strung(seqs, 0, [i \in 1..0 |-> seqs[i]])
      BY DEF Strung
  <2>2. QED
      BY <1>5, <2>1
<1>6. QED
    BY <1>4, <1>5

\* The library's sequence of all the elements is the last of these.
LEMMA FlatIsStrung ==
    ASSUME NEW seqs, Len(seqs) \in Nat, Len(seqs) # 0
    PROVE  \E g : Strung(seqs, Len(seqs), g) /\ FlattenSeq(seqs) = g[Len(seqs)]
<1> DEFINE f == CHOOSE g : Strung(seqs, Len(seqs), g)
<1>1. Strung(seqs, Len(seqs), f)
    BY StrungExists
<1>2. FlattenSeq(seqs) = f[Len(seqs)]
    BY DEF FlattenSeq, Strung
<1>3. QED
    BY <1>1, <1>2

\* A sequence stands in another if its elements do, one after the other.
StandsIn(part, whole) ==
    \E o \in Nat : o + Len(part) <= Len(whole) /\ \A k \in 1..Len(part) : part[k] = whole[o + k]

LEMMA StandsInJoined ==
    ASSUME NEW S, NEW part \in Seq(S), NEW a \in Seq(S), NEW b \in Seq(S)
    PROVE  /\ StandsIn(part, a) => StandsIn(part, a \o b)
           /\ StandsIn(b, a \o b) /\ StandsIn(a, a)
<1>1. /\ Len(a \o b) = Len(a) + Len(b) /\ Len(a) \in Nat /\ Len(b) \in Nat /\ Len(part) \in Nat
      /\ \A i \in 1..Len(a) : (a \o b)[i] = a[i]
      /\ \A i \in 1..Len(b) : (a \o b)[Len(a) + i] = b[i]
    BY ConcatProperties
<1>2. ASSUME StandsIn(part, a) PROVE StandsIn(part, a \o b)
  <2>1. PICK o \in Nat : o + Len(part) <= Len(a) /\ \A k \in 1..Len(part) : part[k] = a[o + k]
      BY <1>2 DEF StandsIn
  <2>2. \A k \in 1..Len(part) : o + k \in 1..Len(a)
      BY <1>1, <2>1
  <2>3. \A k \in 1..Len(part) : part[k] = (a \o b)[o + k]
      BY <1>1, <2>1, <2>2
  <2>4. o + Len(part) <= Len(a \o b)
      BY <1>1, <2>1
  <2>5. QED
      BY <2>3, <2>4 DEF StandsIn
<1>3. StandsIn(b, a \o b)
  <2>1. Len(a) + Len(b) <= Len(a \o b) /\ \A k \in 1..Len(b) : b[k] = (a \o b)[Len(a) + k]
      BY <1>1
  <2>2. QED
      BY <1>1, <2>1 DEF StandsIn
<1>4. StandsIn(a, a)
  <2>1. 0 + Len(a) <= Len(a) /\ \A k \in 1..Len(a) : a[k] = a[0 + k]
      BY <1>1
  <2>2. QED
      BY <2>1 DEF StandsIn
<1>5. QED
    BY <1>2, <1>3, <1>4

\* The texts that a text is strung from stand in it, and there is nothing else in it.
LEMMA FlatHolds ==
    ASSUME NEW S, NEW seqs \in Seq(Seq(S))
    PROVE  /\ FlattenSeq(seqs) \in Seq(S)
           /\ \A i \in DOMAIN seqs : StandsIn(seqs[i], FlattenSeq(seqs))
           /\ \A k \in DOMAIN FlattenSeq(seqs) :
                 \E i \in DOMAIN seqs : \E j \in DOMAIN seqs[i] : FlattenSeq(seqs)[k] = seqs[i][j]
<1>1. Len(seqs) \in Nat /\ DOMAIN seqs = 1..Len(seqs) /\ \A i \in 1..Len(seqs) : seqs[i] \in Seq(S)
    OBVIOUS
<1>2. CASE Len(seqs) = 0
  <2>1. FlattenSeq(seqs) = <<>>
      BY <1>2 DEF FlattenSeq
  <2>2. QED
      BY <1>1, <1>2, <2>1
<1>3. CASE Len(seqs) # 0
  <2> DEFINE n == Len(seqs)
  <2>1. PICK g : Strung(seqs, n, g) /\ FlattenSeq(seqs) = g[n]
      BY <1>1, <1>3, FlatIsStrung
  <2>2. \A i \in 1..n : g[i] = IF i = 1 THEN seqs[i] ELSE g[i - 1] \o seqs[i]
      BY <2>1 DEF Strung
  <2> DEFINE Good(m) == /\ g[m] \in Seq(S)
                        /\ \A i \in 1..m : StandsIn(seqs[i], g[m])
                        /\ \A k \in DOMAIN g[m] : \E i \in 1..m : \E j \in DOMAIN seqs[i] : g[m][k] = seqs[i][j]
             T == {m \in 1..n : Good(m)}
  <2>3. Good(1)
    <3>1. g[1] = seqs[1] /\ seqs[1] \in Seq(S)
        BY <1>1, <1>3, <2>2
    <3>2. \A i \in 1..1 : i = 1
        OBVIOUS
    <3>3. StandsIn(seqs[1], g[1])
        BY <3>1, StandsInJoined
    <3>4. \A k \in DOMAIN g[1] : \E i \in 1..1 : \E j \in DOMAIN seqs[i] : g[1][k] = seqs[i][j]
        BY <3>1
    <3>5. QED
        BY <3>1, <3>2, <3>3, <3>4
  <2>4. ASSUME NEW m \in 1..n, Good(m), m < n PROVE Good(m + 1)
    <3>1. m + 1 \in 1..n /\ g[m + 1] = g[m] \o seqs[m + 1] /\ seqs[m + 1] \in Seq(S) /\ g[m] \in Seq(S)
      <4>1. m + 1 \in 1..n /\ m + 1 # 1 /\ (m + 1) - 1 = m
          BY <1>1, <2>4
      <4> HIDE DEF n
      <4>2. g[m + 1] = g[m] \o seqs[m + 1]
          BY <2>2, <4>1
      <4>3. seqs[m + 1] \in Seq(S)
          BY <1>1, <4>1 DEF n
      <4>4. QED
          BY <2>4, <4>1, <4>2, <4>3
    <3>2. g[m + 1] \in Seq(S)
        BY <3>1
    <3>3. ASSUME NEW i \in 1..(m + 1) PROVE StandsIn(seqs[i], g[m + 1])
      <4>1. CASE i \in 1..m
        <5>1. StandsIn(seqs[i], g[m]) /\ seqs[i] \in Seq(S)
            BY <1>1, <2>4, <4>1
        <5>2. QED
            BY <3>1, <5>1, StandsInJoined
      <4>2. CASE i = m + 1
          BY <3>1, <4>2, StandsInJoined
      <4>3. QED
          BY <4>1, <4>2
    <3>4. ASSUME NEW k \in DOMAIN g[m + 1]
          PROVE  \E i \in 1..(m + 1) : \E j \in DOMAIN seqs[i] : g[m + 1][k] = seqs[i][j]
      <4>1. CASE k \in DOMAIN g[m]
        <5>1. g[m + 1][k] = g[m][k]
            BY <3>1, <4>1
        <5>2. PICK i \in 1..m : \E j \in DOMAIN seqs[i] : g[m][k] = seqs[i][j]
            BY <2>4, <4>1
        <5>3. i \in 1..(m + 1)
            OBVIOUS
        <5>4. QED
            BY <5>1, <5>2, <5>3
      <4>2. CASE k \notin DOMAIN g[m]
        <5>1. k - Len(g[m]) \in 1..Len(seqs[m + 1]) /\ g[m + 1][k] = seqs[m + 1][k - Len(g[m])]
          <6>1. Len(g[m + 1]) = Len(g[m]) + Len(seqs[m + 1]) /\ Len(g[m]) \in Nat /\ Len(seqs[m + 1]) \in Nat
              BY <3>1, ConcatProperties
          <6>2. k \in 1..Len(g[m + 1]) /\ ~(k \in 1..Len(g[m]))
            <7>1. DOMAIN g[m + 1] = 1..Len(g[m + 1]) /\ DOMAIN g[m] = 1..Len(g[m])
                BY <3>1, <3>2, LenProperties
            <7>2. QED
                BY <3>4, <4>2, <7>1
          <6>3. k - Len(g[m]) \in 1..Len(seqs[m + 1])
            <7>1. \A a, b \in Nat : \A i \in 1..(a + b) : ~(i \in 1..a) => i - a \in 1..b
                OBVIOUS
            <7>2. k \in 1..(Len(g[m]) + Len(seqs[m + 1]))
                BY <6>1, <6>2
            <7>3. QED
                BY <6>1, <6>2, <7>1, <7>2
          <6>4. (g[m] \o seqs[m + 1])[k] = seqs[m + 1][k - Len(g[m])]
              BY <3>1, <6>1, <6>2
          <6>5. QED
              BY <3>1, <6>3, <6>4
        <5>2. m + 1 \in 1..(m + 1) /\ DOMAIN seqs[m + 1] = 1..Len(seqs[m + 1])
            BY <3>1
        <5>3. QED
            BY <5>1, <5>2
      <4>3. QED
          BY <4>1, <4>2
    <3>5. QED
        BY <3>2, <3>3, <3>4
  <2>5. T = 1..n
    <3>1. T \in SUBSET (1..n) /\ n \in Nat /\ 1 \in T
      <4> HIDE DEF Good
      <4>1. QED
          BY <1>1, <1>3, <2>3
    <3>2. \A m \in 1..n : m \in T /\ m < n => m + 1 \in T
      <4> HIDE DEF Good
      <4>1. QED
          BY <1>1, <2>4
    <3> HIDE DEF T, n
    <3>3. QED
        BY <3>1, <3>2, NumbersReached
  <2>6. Good(n)
    <3> HIDE DEF Good
    <3>1. n \in 1..n
        BY <1>1, <1>3
    <3>2. QED
        BY <2>5, <3>1
  <2>7. FlattenSeq(seqs) = g[n] /\ DOMAIN seqs = 1..n
      BY <1>1, <2>1
  <2>8. /\ g[n] \in Seq(S)
        /\ \A i \in 1..n : StandsIn(seqs[i], g[n])
        /\ \A k \in DOMAIN g[n] : \E i \in 1..n : \E j \in DOMAIN seqs[i] : g[n][k] = seqs[i][j]
      BY <2>6
  <2> HIDE DEF n, Good, T
  <2>9. FlattenSeq(seqs) \in Seq(S)
      BY <2>7, <2>8
  <2>10. ASSUME NEW i \in DOMAIN seqs PROVE StandsIn(seqs[i], FlattenSeq(seqs))
    <3>1. i \in 1..n
        BY <2>7
    <3>2. StandsIn(seqs[i], g[n])
        BY <2>8, <3>1
    <3>3. QED
        BY <2>7, <3>2
  <2>11. ASSUME NEW k \in DOMAIN FlattenSeq(seqs)
         PROVE  \E i \in DOMAIN seqs : \E j \in DOMAIN seqs[i] : FlattenSeq(seqs)[k] = seqs[i][j]
    <3>1. k \in DOMAIN g[n] /\ FlattenSeq(seqs)[k] = g[n][k]
        BY <2>7
    <3>2. PICK i \in 1..n : \E j \in DOMAIN seqs[i] : g[n][k] = seqs[i][j]
        BY <2>8, <3>1
    <3>3. i \in DOMAIN seqs
        BY <2>7, <3>2
    <3>4. QED
        BY <3>1, <3>2, <3>3
  <2>12. QED
      BY <2>9, <2>10, <2>11
<1>4. QED
    BY <1>2, <1>3

\* Where all but one of the texts are empty, it is that one.
LEMMA FlatOfOne ==
    ASSUME NEW S, NEW seqs \in Seq(Seq(S)), NEW o \in 1..Len(seqs), \A i \in 1..Len(seqs) \ {o} : seqs[i] = <<>>
    PROVE  FlattenSeq(seqs) = seqs[o]
<1> DEFINE n == Len(seqs)
<1>1. n \in Nat /\ n # 0 /\ \A i \in 1..n : seqs[i] \in Seq(S)
    OBVIOUS
<1>2. PICK g : Strung(seqs, n, g) /\ FlattenSeq(seqs) = g[n]
    BY <1>1, FlatIsStrung
<1>3. \A i \in 1..n : g[i] = IF i = 1 THEN seqs[i] ELSE g[i - 1] \o seqs[i]
    BY <1>2 DEF Strung
<1> DEFINE T == {m \in 1..n : g[m] = IF m < o THEN <<>> ELSE seqs[o]}
<1>4. 1 \in T
    BY <1>1, <1>3
<1>5. ASSUME NEW m \in 1..n, m \in T, m < n PROVE m + 1 \in T
  <2>1. m + 1 \in 1..n /\ g[m + 1] = g[m] \o seqs[m + 1] /\ seqs[m + 1] \in Seq(S) /\ seqs[o] \in Seq(S)
    <3>1. m + 1 \in 1..n /\ m + 1 # 1 /\ (m + 1) - 1 = m
        BY <1>1, <1>5
    <3> HIDE DEF n
    <3>2. g[m + 1] = g[m] \o seqs[m + 1]
        BY <1>3, <3>1
    <3>3. seqs[m + 1] \in Seq(S) /\ seqs[o] \in Seq(S)
        BY <1>1, <3>1 DEF n
    <3>4. QED
        BY <3>1, <3>2, <3>3
  <2>2. g[m] = IF m < o THEN <<>> ELSE seqs[o]
      BY <1>5
  <2>3. CASE m + 1 < o
    <3>1. g[m] = <<>> /\ seqs[m + 1] = <<>>
        BY <2>1, <2>2, <2>3
    <3>2. g[m + 1] = <<>>
        BY <2>1, <3>1, ConcatEmptySeq
    <3>3. QED
        BY <2>1, <2>3, <3>2
  <2>4. CASE m + 1 = o
    <3>1. g[m] = <<>>
        BY <2>2, <2>4
    <3>2. g[m + 1] = seqs[o]
        BY <2>1, <2>4, <3>1, ConcatEmptySeq
    <3>3. QED
        BY <2>1, <2>4, <3>2
  <2>5. CASE m + 1 > o
    <3>1. g[m] = seqs[o] /\ seqs[m + 1] = <<>>
        BY <2>1, <2>2, <2>5
    <3>2. g[m + 1] = seqs[o]
        BY <2>1, <3>1, ConcatEmptySeq
    <3>3. QED
        BY <2>1, <2>5, <3>2
  <2>6. QED
      BY <2>1, <2>3, <2>4, <2>5
<1>6. T = 1..n
  <2>1. T \in SUBSET (1..n)
      OBVIOUS
  <2> HIDE DEF T, n
  <2>2. QED
      BY <1>1, <1>4, <1>5, <2>1, NumbersReached
<1>7. n \in 1..n
    BY <1>1
<1>8. QED
    BY <1>2, <1>6, <1>7

LEMMA FlatOfNone ==
    ASSUME NEW S, NEW seqs \in Seq(Seq(S)), \A i \in 1..Len(seqs) : seqs[i] = <<>>
    PROVE  FlattenSeq(seqs) = <<>>
<1>1. CASE Len(seqs) # 0
  <2>1. 1 \in 1..Len(seqs)
      BY <1>1
  <2>2. QED
      BY <2>1, FlatOfOne
<1>2. CASE Len(seqs) = 0
    BY <1>2 DEF FlattenSeq
<1>3. QED
    BY <1>1, <1>2

\* Nothing, followed by single elements, is those elements.
LEMMA FlatOfSingles ==
    ASSUME NEW S, NEW list \in Seq(S), NEW seqs \in Seq(Seq(S)), Len(seqs) = Len(list) + 1, seqs[1] = <<>>,
           \A i \in 1..Len(list) : seqs[i + 1] = <<list[i]>>
    PROVE  FlattenSeq(seqs) = list
<1> DEFINE n == Len(seqs)
<1>1. n \in Nat /\ n # 0 /\ Len(list) \in Nat /\ n = Len(list) + 1
    OBVIOUS
<1>2. PICK g : Strung(seqs, n, g) /\ FlattenSeq(seqs) = g[n]
    BY <1>1, FlatIsStrung
<1>3. \A i \in 1..n : g[i] = IF i = 1 THEN seqs[i] ELSE g[i - 1] \o seqs[i]
    BY <1>2 DEF Strung
<1> DEFINE T == {m \in 1..n : g[m] = SubSeq(list, 1, m - 1)}
<1>4. 1 \in T
  <2>1. SubSeq(list, 1, 1 - 1) = <<>>
      OBVIOUS
  <2>2. QED
      BY <1>1, <1>3, <2>1
<1>5. ASSUME NEW m \in 1..n, m \in T, m < n PROVE m + 1 \in T
  <2>1. m + 1 \in 1..n /\ g[m + 1] = g[m] \o seqs[m + 1] /\ m \in 1..Len(list) /\ seqs[m + 1] = <<list[m]>>
    <3> HIDE DEF n, T
    <3>1. m + 1 \in 1..n /\ m + 1 # 1 /\ (m + 1) - 1 = m /\ m \in 1..Len(list)
        BY <1>1, <1>5
    <3>2. g[m + 1] = g[m] \o seqs[m + 1]
        BY <1>3, <3>1
    <3>3. QED
        BY <3>1, <3>2
  <2>2. g[m] = SubSeq(list, 1, m - 1)
      BY <1>5
  <2>3. SubSeq(list, 1, m - 1) \o <<list[m]>> = SubSeq(list, 1, m)
    <3>1. 1 \in 1..Len(list) /\ m \in 1..Len(list)
        BY <2>1
    <3>2. QED
        BY <3>1, SubSeqRecursiveSecond
  <2>4. (m + 1) - 1 = m
      BY <1>1
  <2>5. QED
      BY <2>1, <2>2, <2>3, <2>4
<1>6. T = 1..n
  <2>1. T \in SUBSET (1..n)
      OBVIOUS
  <2> HIDE DEF T, n
  <2>2. QED
      BY <1>1, <1>4, <1>5, <2>1, NumbersReached
<1>7. n \in 1..n /\ n - 1 = Len(list)
    BY <1>1
<1>8. g[n] = SubSeq(list, 1, Len(list))
    BY <1>6, <1>7
<1>9. SubSeq(list, 1, Len(list)) = list
    OBVIOUS
<1>10. QED
    BY <1>2, <1>8, <1>9

\* What is looked for in a text, word by word.
LEMMA FoundMeans ==
    ASSUME NEW p \in Wordings, NEW t \in Wordings
    PROVE  FoundIn(p, t) <=> StandsIn(p, t)
<1>1. Len(p) \in Nat /\ Len(t) \in Nat /\ p \in Seq(Words) /\ t \in Seq(Words)
    BY DEF Wordings
<1> DEFINE Rest(i) == SubSeq(t, i + 1, Len(t))
<1>2. ASSUME NEW i \in 0..Len(t)
      PROVE  IsPrefix(p, Rest(i)) <=> /\ i + Len(p) <= Len(t)
                                      /\ \A k \in 1..Len(p) : p[k] = t[i + k]
  <2>1. /\ Rest(i) \in Seq(Words) /\ Len(Rest(i)) = Len(t) - i
        /\ \A k \in 1..(Len(t) - i) : Rest(i)[k] = t[i + k]
    <3>1. i + 1 \in 1..(Len(t) + 1) /\ (i + 1 <= Len(t) + 1) /\ \A k \in 1..(Len(t) - i) : (i + 1) + k - 1 = i + k
        BY <1>1
    <3>2. QED
        BY <1>1, <3>1
  <2>2. SubSeq(p, 1, Len(p)) = p
      BY <1>1
  <2> HIDE DEF Rest
  <2>3. ASSUME Len(p) <= Len(t) - i
        PROVE  SubSeq(Rest(i), 1, Len(p)) = p <=> \A k \in 1..Len(p) : p[k] = t[i + k]
    <3> DEFINE s == SubSeq(Rest(i), 1, Len(p))
    <3>1. s \in Seq(Words) /\ Len(s) = Len(p) /\ \A k \in 1..Len(p) : s[k] = Rest(i)[k]
        BY <1>1, <2>1, <2>3
    <3>2. \A k \in 1..Len(p) : s[k] = t[i + k]
        BY <1>1, <2>1, <2>3, <3>1
    <3> HIDE DEF s
    <3>3. (\A k \in 1..Len(p) : p[k] = t[i + k]) => s = p
        BY <1>1, <3>1, <3>2, SeqEqual
    <3>4. s = p => \A k \in 1..Len(p) : p[k] = t[i + k]
        BY <3>2
    <3>5. QED
        BY <3>3, <3>4 DEF s
  <2>4. IsPrefix(p, Rest(i)) <=> Len(p) <= Len(t) - i /\ p = SubSeq(Rest(i), 1, Len(p))
      BY <2>1, <2>2 DEF IsPrefix
  <2>5. Len(p) <= Len(t) - i <=> i + Len(p) <= Len(t)
      BY <1>1
  <2>6. QED
      BY <2>3, <2>4, <2>5
<1> HIDE DEF Rest
<1>3. FoundIn(p, t) <=> \E i \in 0..Len(t) : IsPrefix(p, Rest(i))
    BY DEF FoundIn, Rest
<1>4. StandsIn(p, t) => \E i \in 0..Len(t) : i + Len(p) <= Len(t) /\ \A k \in 1..Len(p) : p[k] = t[i + k]
  <2>1. SUFFICES ASSUME StandsIn(p, t)
                 PROVE  \E i \in 0..Len(t) : i + Len(p) <= Len(t) /\ \A k \in 1..Len(p) : p[k] = t[i + k]
      OBVIOUS
  <2>2. PICK o \in Nat : o + Len(p) <= Len(t) /\ \A k \in 1..Len(p) : p[k] = t[o + k]
      BY <2>1 DEF StandsIn
  <2>3. o \in 0..Len(t)
      BY <1>1, <2>2
  <2>4. QED
      BY <2>2, <2>3
<1>5. QED
    BY <1>2, <1>3, <1>4 DEF StandsIn

LEMMA StandsWithin ==
    ASSUME NEW p \in Wordings, NEW a \in Wordings, NEW b \in Wordings, StandsIn(p, a), StandsIn(a, b)
    PROVE  StandsIn(p, b)
<1>1. Len(p) \in Nat /\ Len(a) \in Nat /\ Len(b) \in Nat
    BY DEF Wordings
<1>2. PICK o \in Nat : o + Len(p) <= Len(a) /\ \A k \in 1..Len(p) : p[k] = a[o + k]
    BY DEF StandsIn
<1>3. PICK u \in Nat : u + Len(a) <= Len(b) /\ \A k \in 1..Len(a) : a[k] = b[u + k]
    BY DEF StandsIn
<1>4. u + o \in Nat /\ (u + o) + Len(p) <= Len(b)
    BY <1>1, <1>2, <1>3
<1>5. ASSUME NEW k \in 1..Len(p) PROVE p[k] = b[(u + o) + k]
  <2>1. o + k \in 1..Len(a) /\ u + (o + k) = (u + o) + k
      BY <1>1, <1>2, <1>3
  <2>2. p[k] = a[o + k] /\ a[o + k] = b[u + (o + k)]
      BY <1>2, <1>3, <2>1
  <2>3. QED
      BY <2>1, <2>2
<1>6. QED
    BY <1>4, <1>5 DEF StandsIn

LEMMA StandingWords ==
    ASSUME NEW p \in Wordings, NEW t \in Wordings, StandsIn(p, t)
    PROVE  ToSet(p) \subseteq ToSet(t)
<1>1. Len(p) \in Nat /\ Len(t) \in Nat /\ DOMAIN p = 1..Len(p) /\ DOMAIN t = 1..Len(t)
    BY DEF Wordings
<1>2. PICK o \in Nat : o + Len(p) <= Len(t) /\ \A k \in 1..Len(p) : p[k] = t[o + k]
    BY DEF StandsIn
<1>3. \A k \in 1..Len(p) : o + k \in 1..Len(t)
    BY <1>1, <1>2
<1>4. QED
    BY <1>1, <1>2, <1>3 DEF ToSet

\* A rule that applies to an application.
InForce(r, app) == r.pattern # None /\ r.app \in {"*", app}

LEMMA CheckMeans ==
    ASSUME NEW apps, NEW rules \in Seq(TextRules(apps)), NEW text \in Wordings, NEW app
    PROVE  Check(text, rules, app) <=> \E r \in ToSet(rules) : InForce(r, app) /\ FoundIn(r.pattern, text)
<1>1. DOMAIN rules = 1..Len(rules) /\ \A i \in 1..Len(rules) : rules[i] \in TextRules(apps)
    OBVIOUS
<1>2. ASSUME NEW r \in ToSet(rules), r.pattern # None, FoundIn(r.pattern, text) PROVE text # <<>>
  <2>1. r.pattern \in Wordings \ {<<>>}
      BY <1>1, <1>2 DEF ToSet, TextRules
  <2>2. PICK o \in Nat : o + Len(r.pattern) <= Len(text)
      BY <1>2, <2>1, FoundMeans DEF StandsIn
  <2>3. Len(r.pattern) \in Nat \ {0} /\ Len(<<>>) = 0
      BY <2>1, EmptySeq DEF Wordings
  <2>4. QED
      BY <2>2, <2>3
<1>3. QED
    BY <1>2 DEF Check, InForce, ToSet

\* What is masked holds nothing that is to be masked.
LEMMA MaskedIsClean ==
    ASSUME NEW text \in Wordings, NEW custom, "[REDACTED]" \notin custom
    PROVE  /\ MaskPii(text, custom) \in Wordings
           /\ ToSet(MaskPii(text, custom)) \cap (PiiWords \cup custom) = {}
<1>1. "[REDACTED]" \notin PiiWords
    BY RepliesAssumption DEF RepliesAssumption
<1>2. DOMAIN text = 1..Len(text) /\ Len(text) \in Nat /\ \A i \in 1..Len(text) : text[i] \in Words
    BY DEF Wordings
<1>3. MaskPii(text, custom) \in Wordings
  <2> DEFINE W(i) == IF text[i] \in PiiWords \cup custom THEN "[REDACTED]" ELSE text[i]
  <2>1. MaskPii(text, custom) = [i \in 1..Len(text) |-> W(i)]
      BY <1>2 DEF MaskPii
  <2>2. ASSUME NEW i \in 1..Len(text) PROVE W(i) \in Words
    <3>1. "[REDACTED]" \in Words
        BY RepliesAssumption DEF RepliesAssumption
    <3>2. CASE text[i] \in PiiWords \cup custom
        BY <3>1, <3>2
    <3>3. CASE text[i] \notin PiiWords \cup custom
        BY <1>2, <3>3
    <3>4. QED
        BY <3>2, <3>3
  <2> HIDE DEF W
  <2>3. QED
      BY <1>2, <2>1, <2>2 DEF Wordings
<1>4. \A i \in DOMAIN text : MaskPii(text, custom)[i] \notin PiiWords \cup custom
    BY <1>1 DEF MaskPii
<1>5. DOMAIN MaskPii(text, custom) = DOMAIN text
    BY DEF MaskPii
<1>6. QED
    BY <1>3, <1>4, <1>5 DEF ToSet

\* Conversations, and what is heard of them.
Contents == Seq([text : Wordings])
Talk(roles) == Seq([role : roles, content : Contents])
Heard(l) == {i \in DOMAIN l : l[i].role \in {"user", "tool"}}

LEMMA ExtractHolds ==
    ASSUME NEW content \in Contents
    PROVE  /\ ExtractText(content) \in Wordings
           /\ \A k \in DOMAIN ExtractText(content) :
                 \E i \in DOMAIN content : ExtractText(content)[k] \in ToSet(content[i].text)
<1> DEFINE seqs == [i \in DOMAIN content |-> content[i].text]
<1>1. /\ DOMAIN content = 1..Len(content) /\ Len(content) \in Nat
      /\ \A i \in 1..Len(content) : content[i].text \in Wordings
  <2>1. \A i \in 1..Len(content) : content[i] \in [text : Wordings]
      BY ElementOfSeq DEF Contents
  <2>2. QED
      BY <2>1 DEF Contents
<1>2. seqs \in Seq(Seq(Words)) /\ DOMAIN seqs = DOMAIN content /\ \A i \in DOMAIN content : seqs[i] = content[i].text
    BY <1>1 DEF Wordings
<1>3. ExtractText(content) = FlattenSeq(seqs)
    BY DEF ExtractText
<1> HIDE DEF seqs
<1>4. QED
    BY <1>2, <1>3, FlatHolds DEF Wordings, ToSet

LEMMA UntrustedHolds ==
    ASSUME NEW roles, NEW l \in Talk(roles)
    PROVE  /\ Untrusted(l) \in Wordings
           /\ \A i \in Heard(l) : /\ ExtractText(l[i].content) \in Wordings
                                  /\ StandsIn(ExtractText(l[i].content), Untrusted(l))
           /\ ToSet(Untrusted(l)) \subseteq UNION {ToSet(ExtractText(l[i].content)) : i \in Heard(l)}
<1> DEFINE W(i) == IF l[i].role \in {"user", "tool"} THEN ExtractText(l[i].content) ELSE <<>>
           seqs == [i \in DOMAIN l |-> W(i)]
<1>1. DOMAIN l = 1..Len(l) /\ Len(l) \in Nat /\ \A i \in 1..Len(l) : l[i].content \in Contents
  <2>1. \A i \in 1..Len(l) : l[i] \in [role : roles, content : Contents]
      BY ElementOfSeq DEF Talk
  <2>2. QED
      BY <2>1 DEF Talk
<1>2. \A i \in 1..Len(l) : ExtractText(l[i].content) \in Seq(Words)
    BY <1>1, ExtractHolds DEF Wordings
<1>3. \A i \in 1..Len(l) : W(i) \in Seq(Words)
    BY <1>2
<1>4. \A i \in DOMAIN l : i \in Heard(l) => W(i) = ExtractText(l[i].content)
    BY DEF Heard
<1>5. \A i \in DOMAIN l : i \notin Heard(l) => W(i) = <<>>
    BY DEF Heard
<1>6. Untrusted(l) = FlattenSeq(seqs)
    BY DEF Untrusted
<1> HIDE DEF W
<1>7. seqs \in Seq(Seq(Words)) /\ DOMAIN seqs = DOMAIN l /\ \A i \in DOMAIN l : seqs[i] = W(i)
    BY <1>1, <1>3
<1> HIDE DEF seqs
<1>8. /\ Untrusted(l) \in Seq(Words)
      /\ \A i \in DOMAIN l : StandsIn(W(i), Untrusted(l))
      /\ \A k \in DOMAIN Untrusted(l) : \E i \in DOMAIN l : \E j \in DOMAIN W(i) : Untrusted(l)[k] = W(i)[j]
    BY <1>6, <1>7, FlatHolds
<1>9. Heard(l) \subseteq DOMAIN l
    BY DEF Heard
<1>10. ASSUME NEW k \in DOMAIN Untrusted(l)
       PROVE  \E i \in Heard(l) : Untrusted(l)[k] \in ToSet(ExtractText(l[i].content))
  <2>1. PICK i \in DOMAIN l : \E j \in DOMAIN W(i) : Untrusted(l)[k] = W(i)[j]
      BY <1>8
  <2>2. i \in Heard(l)
    <3>1. CASE W(i) = <<>>
        BY <2>1, <3>1
    <3>2. QED
        BY <1>5, <3>1
  <2>3. QED
      BY <1>4, <2>1, <2>2 DEF ToSet
<1>11. ToSet(Untrusted(l)) \subseteq UNION {ToSet(ExtractText(l[i].content)) : i \in Heard(l)}
    BY <1>10 DEF ToSet
<1>12. QED
    BY <1>1, <1>2, <1>4, <1>8, <1>9, <1>11 DEF Wordings

\* A conversation is refused only for what was heard, and if any of it breaks a rule.
InForceOf(custom, app) == {r \in ToSet(BuiltinRules \o custom) : r.app \in {"*", app} /\ r.pattern # None}

LEMMA InjectionMeans ==
    ASSUME NEW roles, NEW l \in Talk(roles), NEW apps, NEW custom \in Seq(TextRules(apps)), NEW app
    PROVE  /\ ~InjectionCheck(l, custom, app) =>
                \A i \in Heard(l), r \in InForceOf(custom, app) : ~FoundIn(r.pattern, ExtractText(l[i].content))
           /\ InjectionCheck(l, custom, app) =>
                \E r \in InForceOf(custom, app) :
                   ToSet(r.pattern) \subseteq UNION {ToSet(ExtractText(l[i].content)) : i \in Heard(l)}
<1> DEFINE rules == BuiltinRules \o custom
<1>1. rules \in Seq(TextRules(apps \cup {"*"}))
  <2>1. TextRules(apps) \subseteq TextRules(apps \cup {"*"}) /\ TextRules({"*"}) \subseteq TextRules(apps \cup {"*"})
      BY DEF TextRules
  <2>2. BuiltinRules \in Seq(TextRules(apps \cup {"*"}))
      BY <2>1, RepliesAssumption, SeqMonotonic DEF RepliesAssumption
  <2>3. custom \in Seq(TextRules(apps \cup {"*"}))
      BY <2>1, SeqMonotonic
  <2>4. QED
      BY <2>2, <2>3, ConcatProperties
<1>2. \A r \in InForceOf(custom, app) : r.pattern \in Wordings
  <2>1. \A r \in ToSet(rules) : r \in TextRules(apps \cup {"*"})
    <3> HIDE DEF rules
    <3>1. QED
        BY <1>1 DEF ToSet
  <2>2. QED
      BY <2>1 DEF InForceOf, TextRules
<1>3. InjectionCheck(l, custom, app) <=> \E r \in ToSet(rules) : InForce(r, app) /\ FoundIn(r.pattern, Untrusted(l))
  <2> HIDE DEF rules
  <2>1. Untrusted(l) \in Wordings
      BY UntrustedHolds
  <2>2. Check(Untrusted(l), rules, app) <=> \E r \in ToSet(rules) : InForce(r, app) /\ FoundIn(r.pattern, Untrusted(l))
      BY <1>1, <2>1, CheckMeans
  <2>3. QED
      BY <2>2 DEF InjectionCheck, rules
<1>4. InjectionCheck(l, custom, app) <=> \E r \in InForceOf(custom, app) : FoundIn(r.pattern, Untrusted(l))
    BY <1>3 DEF InForceOf, InForce
<1>5. ASSUME NEW i \in Heard(l), NEW r \in InForceOf(custom, app), FoundIn(r.pattern, ExtractText(l[i].content))
      PROVE  FoundIn(r.pattern, Untrusted(l))
  <2>1. /\ Untrusted(l) \in Wordings /\ ExtractText(l[i].content) \in Wordings
        /\ StandsIn(ExtractText(l[i].content), Untrusted(l)) /\ r.pattern \in Wordings
      BY <1>2, UntrustedHolds
  <2>2. StandsIn(r.pattern, ExtractText(l[i].content))
      BY <1>5, <2>1, FoundMeans
  <2>3. QED
      BY <2>1, <2>2, StandsWithin, FoundMeans
<1>6. ASSUME NEW r \in InForceOf(custom, app), FoundIn(r.pattern, Untrusted(l))
      PROVE  ToSet(r.pattern) \subseteq UNION {ToSet(ExtractText(l[i].content)) : i \in Heard(l)}
  <2>1. Untrusted(l) \in Wordings /\ r.pattern \in Wordings
      BY <1>2, UntrustedHolds
  <2>2. ToSet(r.pattern) \subseteq ToSet(Untrusted(l))
      BY <1>6, <2>1, FoundMeans, StandingWords
  <2>3. QED
      BY <2>2, UntrustedHolds
<1>7. QED
    BY <1>4, <1>5, <1>6

\* The first of a list to pass a test, if there is one.
LEMMA LeastIndex ==
    ASSUME NEW n \in Nat, NEW I \in SUBSET (1..n), I # {}
    PROVE  Min(I) \in I /\ \A i \in I : Min(I) <= i
<1>1. \E x \in I : \A y \in I : x <= y
  <2>1. I \in SUBSET (0..n)
      OBVIOUS
  <2>2. QED
      BY <2>1, LeastNumber
<1>2. QED
    BY <1>1 DEF Min

\* The doors.
Doors == {"chat", "completions"}
Common == {"messages", "maintenance_mode", "app_kill_switch", "demo_mode",
           "prompt_injection_detected", "route", "budget_exceeded"}
GateSet(door) == IF door = "chat" THEN Common ELSE Common \cup {"capability_not_supported"}

LEMMA GatesAreThese ==
    ASSUME NEW door \in Doors
    PROVE  /\ Len(Gates(door)) \in Nat /\ DOMAIN Gates(door) = 1..Len(Gates(door))
           /\ ToSet(Gates(door)) = GateSet(door)
<1>1. CASE door = "chat"
  <2>1. Gates(door) = GatesOfChat /\ Len(GatesOfChat) = 7 /\ DOMAIN GatesOfChat = 1..7
      BY <1>1 DEF Gates, GatesOfChat
  <2>2. 1..7 = {1, 2, 3, 4, 5, 6, 7}
      OBVIOUS
  <2>3. ToSet(GatesOfChat) = Common
      BY <2>1, <2>2 DEF ToSet, Common, GatesOfChat
  <2>4. QED
      BY <1>1, <2>1, <2>3 DEF GateSet
<1>2. CASE door = "completions"
  <2>1. Gates(door) = GatesOfCompletions /\ Len(GatesOfCompletions) = 8 /\ DOMAIN GatesOfCompletions = 1..8
      BY <1>2 DEF Gates, GatesOfCompletions
  <2>2. 1..8 = {1, 2, 3, 4, 5, 6, 7, 8}
      OBVIOUS
  <2>3. ToSet(GatesOfCompletions) = Common \cup {"capability_not_supported"}
      BY <2>1, <2>2 DEF ToSet, Common, GatesOfCompletions
  <2>4. QED
      BY <1>2, <2>1, <2>3 DEF GateSet
<1>3. QED
    BY <1>1, <1>2 DEF Doors

\* A request is let in when no gate is shut, and told of one that is otherwise.
LEMMA GateMet ==
    ASSUME NEW door \in Doors, NEW q, NEW s
    PROVE  LET met == AtDoor(door, q, s) IN
           \/ /\ met.gate = None /\ met.reply = PassedOn
              /\ \A g \in GateSet(door) : ~Shut(g, door, q, s)
           \/ /\ met.gate \in GateSet(door) /\ Shut(met.gate, door, q, s)
              /\ met.reply.form = "stream" =>
                    door = "completions" /\ q.stream /\ met.reply.frames[2] = DoneFrame
<1> DEFINE gates == Gates(door)
           I == {i \in 1..Len(gates) : Shut(gates[i], door, q, s)}
           n == IF I # {} THEN Min(I) ELSE 0
           gate == gates[n]
           code == IF gate = "route" THEN q.route ELSE gate
           streamed == /\ door = "completions" /\ q.stream
                       /\ gate \in {"maintenance_mode", "budget_exceeded", "capability_not_supported"}
<1>1. AtDoor(door, q, s) =
        IF n = 0 THEN [gate |-> None, reply |-> PassedOn, record |-> "none"]
        ELSE [gate |-> gate,
              reply |-> IF streamed THEN Sse(<<ErrorFrame(code), DoneFrame>>)
                        ELSE JsonError(Status(gate, q), code),
              record |-> IF gate = "budget_exceeded" /\ door = "chat" THEN "blocked" ELSE "none"]
    BY DEF AtDoor, SelectInSeq
<1>2. Len(gates) \in Nat /\ DOMAIN gates = 1..Len(gates) /\ ToSet(gates) = GateSet(door)
    BY GatesAreThese
<1> HIDE DEF gates
<1>3. CASE I = {}
  <2>1. \A g \in GateSet(door) : ~Shut(g, door, q, s)
      BY <1>2, <1>3 DEF ToSet
  <2>2. n = 0
      BY <1>3
  <2> HIDE DEF n
  <2>3. QED
      BY <1>1, <2>1, <2>2
<1>4. CASE I # {}
  <2>1. n \in I /\ n # 0
    <3>1. Min(I) \in I
      <4>1. I \in SUBSET (1..Len(gates))
          OBVIOUS
      <4> HIDE DEF I
      <4>2. QED
          BY <1>2, <1>4, <4>1, LeastIndex
    <3>2. QED
        BY <1>4, <3>1
  <2> HIDE DEF n
  <2>2. gate \in GateSet(door) /\ Shut(gate, door, q, s)
      BY <1>2, <2>1 DEF ToSet
  <2> HIDE DEF gate, I
  <2>3. /\ AtDoor(door, q, s).gate = gate
        /\ AtDoor(door, q, s).reply = IF streamed THEN Sse(<<ErrorFrame(code), DoneFrame>>)
                                      ELSE JsonError(Status(gate, q), code)
    <3> HIDE DEF code, streamed
    <3>1. QED
        BY <1>1, <2>1
  <2>4. /\ Sse(<<ErrorFrame(code), DoneFrame>>).frames[2] = DoneFrame
        /\ JsonError(Status(gate, q), code).form = "error"
    <3> HIDE DEF code
    <3>1. QED
        BY DEF Sse, JsonError
  <2>5. AtDoor(door, q, s).reply.form = "stream" =>
          door = "completions" /\ q.stream /\ AtDoor(door, q, s).reply.frames[2] = DoneFrame
    <3>1. CASE streamed
      <4>1. door = "completions" /\ q.stream
          BY <3>1
      <4>2. AtDoor(door, q, s).reply = Sse(<<ErrorFrame(code), DoneFrame>>)
        <5> HIDE DEF streamed, code
        <5>1. QED
            BY <2>3, <3>1
      <4> HIDE DEF code
      <4>3. QED
          BY <2>4, <4>1, <4>2
    <3>2. CASE ~streamed
      <4>1. AtDoor(door, q, s).reply = JsonError(Status(gate, q), code)
        <5> HIDE DEF streamed, code
        <5>1. QED
            BY <2>3, <3>2
      <4> HIDE DEF code
      <4>2. QED
          BY <2>4, <4>1
    <3>3. QED
        BY <3>1, <3>2
  <2>6. QED
      BY <2>2, <2>3, <2>5
<1>5. QED
    BY <1>3, <1>4

\* A gate is shut at both doors to a request that is bound to its application.
LEMMA ShutAlike ==
    ASSUME NEW q, NEW s, q.keyApp # None, NEW g \in Common
    PROVE  Shut(g, "chat", q, s) <=> Shut(g, "completions", q, s)
<1>1. ApplicationAt("chat", q) = ApplicationAt("completions", q)
    BY DEF ApplicationAt
<1>2. QED
    BY <1>1 DEF Shut, Common

LEMMA NoneIsNoCode == \A c \in Codes \cup Int : c # None
BY RepliesAssumption DEF RepliesAssumption

\* handler.js, openaiCompat.js: for any request and settings the two doors agree on who is let in, features apart.
THEOREM DoorsAlwaysAgree ==
    ASSUME NEW door \in Doors, NEW q, NEW s,
           exchange = [at |-> "door", door |-> door, q |-> q, s |-> s, met |-> AtDoor(door, q, s)]
    PROVE  DoorsAgree
<1> DEFINE other == IF door = "chat" THEN "completions" ELSE "chat"
           met == AtDoor(door, q, s)
           there == AtDoor(other, q, s)
<1>1. other \in Doors /\ door # other
    BY DEF Doors
<1>2. \A g \in Common \cup {"capability_not_supported"} : g # None
    BY NoneIsNoCode DEF Common, Codes
<1>3. /\ \A d \in Doors : GateSet(d) \subseteq Common \cup {"capability_not_supported"} /\ Common \subseteq GateSet(d)
    BY DEF GateSet
<1>4. /\ met.gate = None <=> \A g \in GateSet(door) : ~Shut(g, door, q, s)
      /\ met.gate # None => met.gate \in GateSet(door) /\ Shut(met.gate, door, q, s)
      /\ met.reply.form = "stream" => door = "completions" /\ q.stream /\ met.reply.frames[2] = DoneFrame
  <2>1. PassedOn.form # "stream"
      BY DEF PassedOn
  <2>2. QED
      BY <1>2, <1>3, <2>1, GateMet
<1>5. there.gate # None => there.gate \in GateSet(other) /\ Shut(there.gate, other, q, s)
  <2> HIDE DEF other
  <2>1. QED
      BY <1>1, GateMet
<1>6. there.gate = None <=> \A g \in GateSet(other) : ~Shut(g, other, q, s)
  <2> HIDE DEF other
  <2>1. QED
      BY <1>1, <1>2, <1>3, GateMet
<1> HIDE DEF met, there
<1>7. ASSUME q.keyApp # None, "capability_not_supported" \notin {met.gate, there.gate}
      PROVE  /\ met.gate = None <=> there.gate = None
             /\ met.gate # None => Shut(met.gate, other, q, s)
  <2>1. \A g \in Common : Shut(g, door, q, s) <=> Shut(g, other, q, s)
      BY <1>7, ShutAlike DEF Doors
  <2> HIDE DEF other
  <2>2. met.gate # None => met.gate \in Common /\ Shut(met.gate, other, q, s)
      BY <1>3, <1>4, <1>7, <2>1
  <2>3. there.gate # None => there.gate \in Common /\ Shut(there.gate, door, q, s)
      BY <1>1, <1>3, <1>5, <1>7, <2>1
  <2>4. QED
      BY <1>1, <1>3, <1>4, <1>6, <2>2, <2>3
<1>8. DoorsAgree <=>
        /\ q.keyApp # None /\ "capability_not_supported" \notin {met.gate, there.gate} =>
             /\ (met.gate = None) = (there.gate = None)
             /\ met.gate # None => Shut(met.gate, other, q, s)
        /\ met.reply.form = "stream" => door = "completions" /\ q.stream /\ met.reply.frames[2] = DoneFrame
    BY DEF DoorsAgree, met, there
<1>9. QED
    BY <1>4, <1>7, <1>8

\* What a client may send for messages.
Sent(roles) ==
    [kind : {"text"}, text : Wordings] \cup [kind : {"list"}, list : Talk(roles)] \cup [kind : {"other"}]

LEMMA NormalizedTalks ==
    ASSUME NEW roles, NEW m \in Sent(roles)
    PROVE  NormalizeMessages(m) \in Talk(roles \cup {"user"})
<1>1. CASE m \in [kind : {"text"}, text : Wordings]
  <2>1. m.kind = "text" /\ m.text \in Wordings
      BY <1>1
  <2>2. <<[text |-> m.text]>> \in Contents
      BY <2>1 DEF Contents
  <2>3. [role |-> "user", content |-> <<[text |-> m.text]>>] \in [role : roles \cup {"user"}, content : Contents]
      BY <2>2
  <2>4. NormalizeMessages(m) = <<[role |-> "user", content |-> <<[text |-> m.text]>>]>>
      BY <2>1 DEF NormalizeMessages
  <2>5. QED
      BY <2>3, <2>4 DEF Talk
<1>2. CASE m \in [kind : {"list"}, list : Talk(roles)]
  <2>1. m.kind = "list" /\ m.list \in Talk(roles) /\ NormalizeMessages(m) = m.list
      BY <1>2 DEF NormalizeMessages
  <2>2. [role : roles, content : Contents] \subseteq [role : roles \cup {"user"}, content : Contents]
      OBVIOUS
  <2>3. QED
      BY <2>1, <2>2, SeqMonotonic DEF Talk
<1>3. CASE m \in [kind : {"other"}]
  <2>1. NormalizeMessages(m) = <<>>
      BY <1>3 DEF NormalizeMessages
  <2>2. QED
      BY <2>1 DEF Talk
<1>4. QED
    BY <1>1, <1>2, <1>3 DEF Sent

\* promptInjection.js: whatever a conversation says and whatever the rules, what is let in breaks none of those
\* in force, and what is refused for it was said.
THEOREM InjectionAlwaysFound ==
    ASSUME NEW door \in Doors, NEW q, NEW s, NEW roles, NEW apps,
           q.messages \in Sent(roles), s.injectionRules \in Seq(TextRules(apps)),
           exchange = [at |-> "door", door |-> door, q |-> q, s |-> s, met |-> AtDoor(door, q, s)]
    PROVE  InjectionIsFound
<1> DEFINE l == NormalizeMessages(q.messages)
           app == ApplicationAt(door, q)
           gate == AtDoor(door, q, s).gate
           custom == s.injectionRules
           words == UNION {ToSet(ExtractText(l[i].content)) : i \in Heard(l)}
<1>1. l \in Talk(roles \cup {"user"})
    BY NormalizedTalks
<1>2. /\ ~InjectionCheck(l, custom, app) =>
            \A i \in Heard(l), r \in InForceOf(custom, app) : ~FoundIn(r.pattern, ExtractText(l[i].content))
      /\ InjectionCheck(l, custom, app) => \E r \in InForceOf(custom, app) : ToSet(r.pattern) \subseteq words
  <2> HIDE DEF l, app, custom
  <2>1. custom \in Seq(TextRules(apps))
      BY DEF custom
  <2>2. QED
      BY <1>1, <2>1, InjectionMeans
<1>3. Shut("prompt_injection_detected", door, q, s) <=> s.injection /\ InjectionCheck(l, custom, app)
    BY DEF Shut
<1>4. /\ gate = None => ~Shut("prompt_injection_detected", door, q, s)
      /\ gate = "prompt_injection_detected" => Shut("prompt_injection_detected", door, q, s)
  <2>1. "prompt_injection_detected" \in GateSet(door) /\ "prompt_injection_detected" # None
      BY NoneIsNoCode DEF GateSet, Common, Codes
  <2>2. \A g \in GateSet(door) : g # None
      BY NoneIsNoCode DEF GateSet, Common, Codes
  <2>3. QED
      BY <2>1, <2>2, GateMet
<1>5. InjectionIsFound <=>
        (s.injection =>
           /\ gate = None => \A i \in Heard(l), r \in InForceOf(custom, app) :
                                ~FoundIn(r.pattern, ExtractText(l[i].content))
           /\ gate = "prompt_injection_detected" => \E r \in InForceOf(custom, app) : ToSet(r.pattern) \subseteq words)
    BY DEF InjectionIsFound, Heard, InForceOf
<1> HIDE DEF l, app, gate, custom, words
<1>6. QED
    BY <1>2, <1>3, <1>4, <1>5

\* The limits that are known of what a model is asked for.
KnownLimits == {None} \cup Int

\* clamp.js, openaiCompat.js: for any known or unknown limits what is asked of a provider is the lowest of them.
THEOREM TokensAlwaysClamped ==
    ASSUME NEW q, q.tokens \in KnownLimits, q.guardrail \in KnownLimits, q.ceiling[q.served] \in KnownLimits,
           exchange.q = q, exchange.tokens = TokensSent(q.tokens, q.guardrail, "decided", q.served, q.ceiling)
    PROVE  TokensAreClamped
<1> DEFINE asked == q.tokens
           guard == q.guardrail
           ceiling == q.ceiling[q.served]
           between == ClampMaxTokens(asked, guard)
           sent == ClampMaxTokens(between, ceiling)
<1>1. exchange.tokens = sent
    BY DEF TokensSent
<1>2. \A c \in Int : c # None
    BY NoneIsNoCode
<1>3. CASE asked = None
  <2>1. sent = None
      BY <1>3 DEF ClampMaxTokens
  <2>2. QED
      BY <1>1, <1>3, <2>1 DEF TokensAreClamped
<1>4. CASE asked \in Int
  <2>1. between \in Int /\ between <= asked /\ (guard # None => between <= guard)
        /\ (between = asked \/ (between = guard /\ guard # None))
    <3>1. guard = None \/ guard \in Int
        BY DEF KnownLimits
    <3>2. QED
        BY <1>2, <1>4, <3>1 DEF ClampMaxTokens
  <2> HIDE DEF between
  <2>2. sent \in Int /\ sent <= between /\ (ceiling # None => sent <= ceiling)
        /\ (sent = between \/ (sent = ceiling /\ ceiling # None))
    <3>1. ceiling = None \/ ceiling \in Int
        BY DEF KnownLimits
    <3>2. QED
        BY <1>2, <2>1, <3>1 DEF ClampMaxTokens
  <2> HIDE DEF sent
  <2> DEFINE limits == {guard, ceiling} \ {None}
  <2>3. sent <= asked /\ (\A c \in limits : sent <= c) /\ (sent = asked \/ sent \in limits)
    <3>1. limits \subseteq Int
        BY DEF KnownLimits
    <3>2. sent <= asked
        BY <1>4, <2>1, <2>2
    <3>3. guard # None => sent <= guard
      <4>1. SUFFICES ASSUME guard # None PROVE sent <= guard
          OBVIOUS
      <4>2. guard \in Int
          BY <4>1 DEF KnownLimits
      <4>3. QED
          BY <2>1, <2>2, <4>1, <4>2
    <3>4. \A c \in limits : sent <= c
        BY <2>2, <3>3
    <3>5. sent = asked \/ sent \in limits
        BY <2>1, <2>2
    <3>6. QED
        BY <3>2, <3>4, <3>5
  <2>4. asked # None
      BY <1>2, <1>4
  <2>5. QED
      BY <1>1, <2>3, <2>4 DEF TokensAreClamped
<1>5. QED
    BY <1>3, <1>4 DEF KnownLimits

\* The messages a turn that brings back results is made of, and what they become.
ToolsOf(told) == [i \in DOMAIN told |-> [role |-> "tool", answers |-> told[i].id]]
TurnOf(told) == <<Nothing, [role |-> "assistant", calls |-> told]>> \o ToolsOf(told)

LEMMA TurnHolds ==
    ASSUME NEW told, Len(told) \in Nat, DOMAIN told = 1..Len(told)
    PROVE  LET back == ToLcMessages(TurnOf(told))
           IN  /\ Len(back) = Len(told) + 1
               /\ back[1].calls = [i \in DOMAIN told |-> [id |-> told[i].id, name |-> told[i].name,
                                                          args |-> Parsed(told[i].arguments)]]
               /\ \A i \in DOMAIN told : back[i + 1].answers = told[i].id
<1> DEFINE n == Len(told)
           asst == [role |-> "assistant", calls |-> told]
           tools == ToolsOf(told)
           M == TurnOf(told)
           S == {Nothing, asst} \cup {tools[i] : i \in 1..n}
<1>1. /\ tools \in Seq(S) /\ Len(tools) = n /\ \A i \in 1..n : tools[i] = [role |-> "tool", answers |-> told[i].id]
  <2>1. tools = [i \in 1..n |-> [role |-> "tool", answers |-> told[i].id]]
      BY DEF ToolsOf
  <2>2. \A i \in 1..n : tools[i] \in S
      OBVIOUS
  <2> HIDE DEF S, tools, n
  <2>3. n \in Nat
      BY DEF n
  <2>4. QED
      BY <2>1, <2>2, <2>3
<1>2. <<Nothing, asst>> \in Seq(S)
  <2>1. Nothing \in S /\ asst \in S
      OBVIOUS
  <2> HIDE DEF S, asst
  <2>2. QED
      BY <2>1
<1>3. M = <<Nothing, asst>> \o tools
    BY DEF TurnOf
<1> HIDE DEF S, asst, tools, M
<1>4. /\ M \in Seq(S) /\ Len(M) = n + 2 /\ M[1] = Nothing /\ M[2] = asst
      /\ \A i \in 1..n : M[i + 2] = tools[i]
  <2>1. Len(<<Nothing, asst>>) = 2 /\ <<Nothing, asst>>[1] = Nothing /\ <<Nothing, asst>>[2] = asst
      OBVIOUS
  <2>2. QED
      BY <1>1, <1>2, <1>3, <2>1
<1> DEFINE list == [i \in 1..(n + 1) |-> M[i + 1]]
           seqs == [i \in DOMAIN M |-> IF M[i].role = "nothing" THEN <<>> ELSE <<M[i]>>]
<1>5. list \in Seq(S) /\ Len(list) = n + 1 /\ DOMAIN list = 1..(n + 1)
    BY <1>4
<1>6. DOMAIN M = 1..(n + 2) /\ n \in Nat
    BY <1>4
<1>7. /\ asst.role = "assistant" /\ asst.calls = told /\ Nothing.role = "nothing"
      /\ \A i \in 1..n : tools[i].role = "tool" /\ tools[i].answers = told[i].id
  <2>1. \A i \in 1..n : tools[i] = [role |-> "tool", answers |-> told[i].id]
      BY <1>1
  <2>2. asst.role = "assistant" /\ asst.calls = told /\ Nothing.role = "nothing"
      BY DEF asst, Nothing
  <2>3. ASSUME NEW i \in 1..n PROVE tools[i].role = "tool" /\ tools[i].answers = told[i].id
    <3>1. tools[i] = [role |-> "tool", answers |-> told[i].id]
        BY <2>1
    <3>2. QED
        BY <3>1
  <2>4. \A i \in 1..n : tools[i].role = "tool" /\ tools[i].answers = told[i].id
      BY <2>3
  <2>5. QED
      BY <2>2, <2>4
<1>8. \A i \in 1..(n + 1) : list[i].role # "nothing" /\ M[i + 1] = list[i]
  <2>1. ASSUME NEW i \in 1..(n + 1) PROVE M[i + 1].role # "nothing"
    <3>1. CASE i = 1
        BY <1>4, <1>7, <3>1
    <3>2. CASE i # 1
      <4>1. i - 1 \in 1..n /\ (i - 1) + 2 = i + 1
          BY <1>6, <3>2
      <4>2. M[i + 1] = tools[i - 1]
          BY <1>4, <4>1
      <4>3. QED
          BY <1>7, <4>1, <4>2
    <3>3. QED
        BY <3>1, <3>2
  <2>2. QED
      BY <2>1
<1>9. FlattenSeq(seqs) = list
  <2>1. seqs[1] = <<>>
      BY <1>4, <1>6, <1>7
  <2>2. \A i \in 1..Len(list) : seqs[i + 1] = <<list[i]>>
    <3>1. \A i \in 1..(n + 1) : i + 1 \in 1..(n + 2)
        BY <1>6
    <3>2. QED
        BY <1>5, <1>6, <1>8, <3>1
  <2>3. \A i \in 1..(n + 2) : seqs[i] \in Seq(S)
    <3>1. \A i \in 1..(n + 2) : M[i] \in S
        BY <1>4, <1>6
    <3>2. QED
        BY <1>6, <3>1
  <2>4. seqs \in Seq(Seq(S)) /\ Len(seqs) = Len(list) + 1
    <3>1. seqs = [i \in 1..(n + 2) |-> seqs[i]]
        BY <1>6
    <3> HIDE DEF seqs, list
    <3>2. n + 2 \in Nat /\ (n + 1) + 1 = n + 2
        BY <1>6
    <3>3. QED
        BY <1>5, <2>3, <3>1, <3>2
  <2> HIDE DEF seqs, list
  <2>5. QED
      BY <1>5, <2>1, <2>2, <2>4, FlatOfSingles
<1> DEFINE Kind(m) == CASE m.role = "system" -> "system" [] m.role = "tool" -> "tool"
                        [] m.role \in {"assistant", "ai"} -> "ai" [] OTHER -> "human"
           Calls(m) == IF Kind(m) # "ai" THEN <<>>
                       ELSE [i \in DOMAIN m.calls |-> [id |-> m.calls[i].id, name |-> m.calls[i].name,
                                                       args |-> Parsed(m.calls[i].arguments)]]
           back == ToLcMessages(M)
<1>10. back = [i \in DOMAIN list |->
                [kind |-> Kind(list[i]), calls |-> Calls(list[i]),
                 answers |-> IF Kind(list[i]) = "tool" THEN list[i].answers ELSE None]]
  <2> HIDE DEF list
  <2>1. QED
      BY <1>9 DEF ToLcMessages
<1>11. Len(back) = n + 1
  <2> DEFINE H(i) == [kind |-> Kind(list[i]), calls |-> Calls(list[i]),
                      answers |-> IF Kind(list[i]) = "tool" THEN list[i].answers ELSE None]
  <2>1. back = [i \in 1..(n + 1) |-> H(i)]
      BY <1>5, <1>10
  <2> HIDE DEF H, back, n
  <2>2. QED
      BY <1>6, <2>1
<1>12. Kind(asst) = "ai" /\ \A i \in 1..n : Kind(tools[i]) = "tool"
    BY <1>7
<1>13. list[1] = asst /\ \A i \in 1..n : list[i + 1] = tools[i]
  <2>1. 1 \in 1..(n + 1) /\ \A i \in 1..n : i + 1 \in 1..(n + 1) /\ (i + 1) + 1 = i + 2
      BY <1>6
  <2>2. QED
      BY <1>4, <1>8, <2>1
<1>14. back[1].calls = Calls(asst)
  <2>1. 1 \in DOMAIN list
      BY <1>5, <1>6
  <2> HIDE DEF list, Kind, Calls, back
  <2>2. QED
      BY <1>10, <1>13, <2>1
<1>15. Calls(asst) = [i \in DOMAIN told |-> [id |-> told[i].id, name |-> told[i].name,
                                             args |-> Parsed(told[i].arguments)]]
  <2> HIDE DEF Kind
  <2>1. QED
      BY <1>7, <1>12
<1>16. ASSUME NEW i \in 1..n PROVE back[i + 1].answers = told[i].id
  <2>1. i + 1 \in DOMAIN list
      BY <1>5, <1>6
  <2> HIDE DEF list, Kind, Calls, back
  <2>2. back[i + 1].answers = tools[i].answers
      BY <1>10, <1>12, <1>13, <2>1
  <2>3. QED
      BY <1>7, <2>2
<1>17. QED
    BY <1>11, <1>14, <1>15, <1>16 DEF M

\* The calls a provider makes, where those it names are named apart.
ApartCalls(calls) ==
    /\ Len(calls) \in Nat /\ DOMAIN calls = 1..Len(calls)
    /\ \A i \in DOMAIN calls : calls[i].id # None => calls[i].id[1] = "own"
    /\ \A i, j \in DOMAIN calls : calls[i].id # None /\ calls[i].id = calls[j].id => i = j

\* openaiCompat.js: the results of any list of calls find the calls they answer, if the ids a provider gives
\* are not used twice.
THEOREM ToolTurnsAlwaysClose ==
    ASSUME NEW q, ApartCalls(q.calls), exchange.q = q, exchange.told = TranslateToolCalls(q.calls),
           exchange.turn = ToLcMessages(TurnOf(TranslateToolCalls(q.calls)))
    PROVE  ToolTurnsClose
<1> DEFINE calls == q.calls
           told == TranslateToolCalls(calls)
           back == ToLcMessages(TurnOf(told))
           Id(i) == IF calls[i].id # None THEN calls[i].id ELSE <<"call", i - 1>>
           Args(i) == IF calls[i].args.as = "nothing" THEN ArgsText("{}") ELSE ArgsText(calls[i].args.v)
<1>1. told = [i \in DOMAIN calls |-> [id |-> Id(i), name |-> calls[i].name, arguments |-> Args(i)]]
    BY DEF TranslateToolCalls
<1>2. Len(calls) \in Nat /\ DOMAIN calls = 1..Len(calls)
    BY DEF ApartCalls
<1> HIDE DEF told, Id, Args
<1>3. Len(told) = Len(calls) /\ DOMAIN told = 1..Len(calls)
  <2> HIDE DEF calls
  <2>1. QED
      BY <1>1, <1>2
<1>4. \A i \in DOMAIN calls : told[i].id = Id(i) /\ told[i].arguments = Args(i)
    BY <1>1
<1>5. ASSUME NEW i \in DOMAIN calls, NEW j \in DOMAIN calls, Id(i) = Id(j) PROVE i = j
  <2>1. \A k \in DOMAIN calls : calls[k].id # None => calls[k].id[1] = "own"
      BY DEF ApartCalls
  <2>2. \A k \in DOMAIN calls : calls[k].id = None => Id(k) = <<"call", k - 1>>
      BY DEF Id
  <2>3. \A k \in DOMAIN calls : calls[k].id # None => Id(k) = calls[k].id
      BY DEF Id
  <2>4. i \in Int /\ j \in Int
      BY <1>2
  <2>5. <<"call", i - 1>>[1] = "call" /\ <<"call", j - 1>>[1] = "call"
        /\ <<"call", i - 1>>[2] = i - 1 /\ <<"call", j - 1>>[2] = j - 1
      OBVIOUS
  <2>6. CASE calls[i].id = None /\ calls[j].id = None
    <3>1. i - 1 = j - 1
        BY <1>5, <2>2, <2>5, <2>6
    <3>2. QED
        BY <2>4, <3>1
  <2>7. CASE calls[i].id # None /\ calls[j].id # None
    <3>1. calls[i].id = calls[j].id
        BY <1>5, <2>3, <2>7
    <3>2. QED
        BY <2>7, <3>1 DEF ApartCalls
  <2>8. CASE calls[i].id # None /\ calls[j].id = None
    <3>1. Id(i)[1] = "own" /\ Id(j)[1] = "call"
        BY <2>1, <2>2, <2>3, <2>5, <2>8
    <3>2. QED
        BY <1>5, <3>1
  <2>9. CASE calls[i].id = None /\ calls[j].id # None
    <3>1. Id(i)[1] = "call" /\ Id(j)[1] = "own"
        BY <2>1, <2>2, <2>3, <2>5, <2>9
    <3>2. QED
        BY <1>5, <3>1
  <2>10. QED
      BY <2>6, <2>7, <2>8, <2>9
<1>6. /\ Len(back) = Len(calls) + 1
      /\ back[1].calls = [i \in DOMAIN told |-> [id |-> told[i].id, name |-> told[i].name,
                                                 args |-> Parsed(told[i].arguments)]]
      /\ \A i \in DOMAIN told : back[i + 1].answers = told[i].id
    BY <1>2, <1>3, TurnHolds
<1> HIDE DEF back
<1>7. ASSUME NEW i \in DOMAIN calls, calls[i].args.as # "nothing", calls[i].args.v # "malformed"
      PROVE  Parsed(told[i].arguments) = ArgsObject(calls[i].args.v)
  <2>1. told[i].arguments = ArgsText(calls[i].args.v)
      BY <1>4, <1>7 DEF Args
  <2>2. ArgsText(calls[i].args.v).as = "text" /\ ArgsText(calls[i].args.v).v = calls[i].args.v
      BY DEF ArgsText
  <2>3. QED
      BY <1>7, <2>1, <2>2 DEF Parsed
<1>8. ASSUME NEW i \in DOMAIN calls
      PROVE  /\ back[i + 1].answers = back[1].calls[i].id
             /\ calls[i].args.as # "nothing" /\ calls[i].args.v # "malformed" =>
                   back[1].calls[i].args = ArgsObject(calls[i].args.v)
  <2>1. i \in DOMAIN told
      BY <1>2, <1>3
  <2>2. back[1].calls[i].id = told[i].id /\ back[1].calls[i].args = Parsed(told[i].arguments)
      BY <1>6, <2>1
  <2>3. QED
      BY <1>6, <1>7, <2>1, <2>2
<1>9. \A i, j \in DOMAIN told : told[i].id = told[j].id => i = j
    BY <1>2, <1>3, <1>4, <1>5
<1>10. exchange.told = told /\ exchange.turn = back /\ exchange.q.calls = calls
    BY DEF told, back
<1>11. QED
    BY <1>6, <1>8, <1>9, <1>10 DEF ToolTurnsClose

\* Frames, and what a client makes of them.
LEMMA FrameKinds ==
    /\ RoleFrame.kind = "role" /\ DoneFrame.kind = "done"
    /\ \A text : ContentFrame(text).kind = "content" /\ ContentFrame(text).text = text
    /\ \A i, call : CallFrame(i, call).kind = "call" /\ CallFrame(i, call).at = i /\ CallFrame(i, call).call = call
    /\ \A finish, usage : /\ FinishFrame(finish, usage).kind = "finish"
                          /\ FinishFrame(finish, usage).finish = finish
                          /\ FinishFrame(finish, usage).usage = usage
    /\ \A code : ErrorFrame(code).kind = "error" /\ ErrorFrame(code).code = code
BY DEF RoleFrame, DoneFrame, ContentFrame, CallFrame, FinishFrame, ErrorFrame

EndsOnce(frames) ==
    frames[Len(frames)] = DoneFrame /\ \A i \in 1..(Len(frames) - 1) : frames[i] # DoneFrame

AddedBy(f) == IF f.kind = "content" THEN f.text ELSE <<>>

AddedUp(frames) == FlattenSeq([i \in DOMAIN frames |-> AddedBy(frames[i])])
ListOf(n, calls) == calls = [i \in 1..n |-> calls[i]]
CallsIn(frames, n, calls) ==
    /\ \A f \in ToSet(frames) : f.kind = "call" => \E i \in 1..n : f = CallFrame(i - 1, calls[i])
    /\ \A i \in 1..n : CallFrame(i - 1, calls[i]) \in ToSet(frames)
EndIn(frames, finish, usage) ==
    /\ \A f \in ToSet(frames) : f.kind = "finish" => f = FinishFrame(finish, usage)
    /\ FinishFrame(finish, usage) \in ToSet(frames)
    /\ \A f \in ToSet(frames) : f.kind # "error"

LEMMA AssembledIs ==
    ASSUME NEW frames, NEW text, NEW finish, NEW usage, NEW n \in Nat, NEW calls, ListOf(n, calls),
           EndIn(frames, finish, usage), CallsIn(frames, n, calls), AddedUp(frames) = text
    PROVE  Assembled(frames) = [error |-> None, text |-> text, calls |-> calls, finish |-> finish,
                                in |-> usage.in, out |-> usage.out]
<1> DEFINE Of(kind) == {f \in ToSet(frames) : f.kind = kind}
           C == {CallFrame(i - 1, calls[i]) : i \in 1..n}
           D == Of("call")
           end == CHOOSE f \in Of("finish") : TRUE
           heard == [k \in {f.at + 1 : f \in D} |-> (CHOOSE f \in D : f.at + 1 = k).call]
<1>1. Of("error") = {}
    BY DEF EndIn
<1>2. end = FinishFrame(finish, usage)
  <2>1. FinishFrame(finish, usage).kind = "finish"
      BY FrameKinds
  <2>2. Of("finish") = {FinishFrame(finish, usage)}
      BY <2>1 DEF EndIn
  <2> HIDE DEF Of
  <2>3. QED
      BY <2>2
<1>3. D = C
  <2>1. \A i \in 1..n : CallFrame(i - 1, calls[i]).kind = "call"
      BY FrameKinds
  <2>2. QED
      BY <2>1 DEF CallsIn
<1>4. heard = calls
  <2>1. \A i \in 1..n : CallFrame(i - 1, calls[i]).at + 1 = i /\ CallFrame(i - 1, calls[i]).call = calls[i]
    <3>1. \A i \in 1..n : (i - 1) + 1 = i
        OBVIOUS
    <3>2. QED
        BY <3>1, FrameKinds
  <2>2. {f.at + 1 : f \in C} = 1..n
      BY <2>1
  <2>3. ASSUME NEW k \in 1..n PROVE (CHOOSE f \in C : f.at + 1 = k).call = calls[k]
    <3>1. \E f \in C : f.at + 1 = k
        BY <2>1
    <3>2. \A f \in C : f.at + 1 = k => f.call = calls[k]
      <4>1. SUFFICES ASSUME NEW f \in C, f.at + 1 = k PROVE f.call = calls[k]
          OBVIOUS
      <4>2. PICK i \in 1..n : f = CallFrame(i - 1, calls[i])
          OBVIOUS
      <4>3. i = k
          BY <2>1, <4>1, <4>2
      <4>4. QED
          BY <2>1, <4>2, <4>3
    <3> HIDE DEF C
    <3>3. QED
        BY <3>1, <3>2
  <2>4. heard = [k \in 1..n |-> (CHOOSE f \in C : f.at + 1 = k).call]
    <3>1. heard = [k \in {f.at + 1 : f \in C} |-> (CHOOSE f \in C : f.at + 1 = k).call]
      <4> HIDE DEF C, D
      <4>1. QED
          BY <1>3
    <3> HIDE DEF C, heard
    <3>2. QED
        BY <2>2, <3>1
  <2> HIDE DEF heard, C
  <2>5. calls = [i \in 1..n |-> calls[i]]
      BY DEF ListOf
  <2>6. QED
      BY <2>3, <2>4, <2>5
<1>5. FinishFrame(finish, usage).finish = finish /\ FinishFrame(finish, usage).usage = usage
    BY FrameKinds
<1>6. Assembled(frames) =
        IF Of("error") # {} THEN [error |-> (CHOOSE f \in Of("error") : TRUE).code]
        ELSE [error |-> None, text |-> FlattenSeq([i \in DOMAIN frames |-> AddedBy(frames[i])]),
              calls |-> heard, finish |-> end.finish, in |-> end.usage.in, out |-> end.usage.out]
    BY DEF Assembled, AddedBy
<1>7. FlattenSeq([i \in DOMAIN frames |-> AddedBy(frames[i])]) = text
    BY DEF AddedUp
<1> HIDE DEF Of, end, heard, D
<1>8. QED
    BY <1>1, <1>2, <1>4, <1>5, <1>6, <1>7

\* A stream that tells of a text.
LEMMA TextStream ==
    ASSUME NEW text \in Wordings, NEW finish, NEW usage
    PROVE  LET frames == <<RoleFrame, ContentFrame(text), FinishFrame(finish, usage), DoneFrame>>
           IN  /\ Assembled(frames) = [error |-> None, text |-> text, calls |-> <<>>, finish |-> finish,
                                       in |-> usage.in, out |-> usage.out]
               /\ EndsOnce(frames)
<1> DEFINE c == ContentFrame(text)
           e == FinishFrame(finish, usage)
           frames == <<RoleFrame, c, e, DoneFrame>>
<1>1. /\ RoleFrame.kind = "role" /\ DoneFrame.kind = "done" /\ c.kind = "content" /\ c.text = text /\ e.kind = "finish"
    BY FrameKinds
<1> HIDE DEF c, e
<1>2. /\ DOMAIN frames = 1..4 /\ Len(frames) = 4 /\ 1..4 = {1, 2, 3, 4}
      /\ frames[1] = RoleFrame /\ frames[2] = c /\ frames[3] = e /\ frames[4] = DoneFrame
    OBVIOUS
<1> HIDE DEF frames
<1>3. ToSet(frames) = {RoleFrame, c, e, DoneFrame}
    BY <1>2 DEF ToSet
<1>4. \A f \in ToSet(frames) : f.kind # "error"
    BY <1>1, <1>3
<1>5. {f \in ToSet(frames) : f.kind = "finish"} = {e}
    BY <1>1, <1>3
<1>6. {f \in ToSet(frames) : f.kind = "call"} = {}
    BY <1>1, <1>3
<1> DEFINE seqs == [i \in DOMAIN frames |-> AddedBy(frames[i])]
<1>7. FlattenSeq(seqs) = text
  <2>1. AddedBy(RoleFrame) = <<>> /\ AddedBy(c) = text /\ AddedBy(e) = <<>> /\ AddedBy(DoneFrame) = <<>>
      BY <1>1 DEF AddedBy
  <2>2. seqs = [i \in 1..4 |-> AddedBy(frames[i])]
      BY <1>2
  <2>3. \A i \in 1..4 : AddedBy(frames[i]) \in Seq(Words)
    <3>1. text \in Seq(Words) /\ <<>> \in Seq(Words)
        BY DEF Wordings
    <3>2. QED
        BY <1>2, <2>1, <3>1
  <2> HIDE DEF seqs
  <2>4. seqs \in Seq(Seq(Words)) /\ Len(seqs) = 4 /\ \A i \in 1..4 : seqs[i] = AddedBy(frames[i])
      BY <2>2, <2>3
  <2>5. seqs[2] = text /\ \A i \in 1..4 \ {2} : seqs[i] = <<>>
      BY <1>2, <2>1, <2>4
  <2>6. 2 \in 1..4
      OBVIOUS
  <2>7. FlattenSeq(seqs) = seqs[2]
      BY <2>4, <2>5, <2>6, FlatOfOne
  <2>8. QED
      BY <2>5, <2>7
<1> HIDE DEF seqs
<1>8. Assembled(frames) = [error |-> None, text |-> text, calls |-> <<>>, finish |-> finish,
                           in |-> usage.in, out |-> usage.out]
  <2> DEFINE none == <<>>
  <2>1. ListOf(0, none)
      BY DEF ListOf
  <2> HIDE DEF none
  <2>2. AddedUp(frames) = text
      BY <1>7 DEF AddedUp, seqs
  <2>3. \A f \in ToSet(frames) : f.kind = "finish" => f = FinishFrame(finish, usage)
      BY <1>5 DEF e
  <2>4. FinishFrame(finish, usage) \in ToSet(frames)
      BY <1>5 DEF e
  <2>5. \A f \in ToSet(frames) : f.kind # "call"
      BY <1>6
  <2>6. 0 \in Nat /\ \A i \in 1..0 : CallFrame(i - 1, none[i]) \in ToSet(frames)
      OBVIOUS
  <2>7. EndIn(frames, finish, usage) /\ CallsIn(frames, 0, none)
      BY <1>4, <2>3, <2>4, <2>5, <2>6 DEF EndIn, CallsIn
  <2>8. Assembled(frames) = [error |-> None, text |-> text, calls |-> none, finish |-> finish,
                             in |-> usage.in, out |-> usage.out]
      BY <2>1, <2>2, <2>6, <2>7, AssembledIs
  <2>9. QED
      BY <2>8 DEF none
<1>9. EndsOnce(frames)
  <2>1. RoleFrame # DoneFrame /\ c # DoneFrame /\ e # DoneFrame
      BY <1>1
  <2>2. QED
      BY <1>2, <2>1 DEF EndsOnce
<1>10. QED
    BY <1>8, <1>9 DEF frames, c, e

\* A stream that tells of nothing but its end.
LEMMA BareStream ==
    ASSUME NEW finish, NEW usage
    PROVE  LET frames == <<RoleFrame, FinishFrame(finish, usage), DoneFrame>>
           IN  /\ Assembled(frames) = [error |-> None, text |-> <<>>, calls |-> <<>>, finish |-> finish,
                                       in |-> usage.in, out |-> usage.out]
               /\ EndsOnce(frames)
<1> DEFINE e == FinishFrame(finish, usage)
           frames == <<RoleFrame, e, DoneFrame>>
<1>1. RoleFrame.kind = "role" /\ DoneFrame.kind = "done" /\ e.kind = "finish"
    BY FrameKinds
<1> HIDE DEF e
<1>2. /\ DOMAIN frames = 1..3 /\ Len(frames) = 3 /\ 1..3 = {1, 2, 3}
      /\ frames[1] = RoleFrame /\ frames[2] = e /\ frames[3] = DoneFrame
    OBVIOUS
<1> HIDE DEF frames
<1>3. ToSet(frames) = {RoleFrame, e, DoneFrame}
    BY <1>2 DEF ToSet
<1>4. \A f \in ToSet(frames) : f.kind # "error"
    BY <1>1, <1>3
<1>5. {f \in ToSet(frames) : f.kind = "finish"} = {e}
    BY <1>1, <1>3
<1>6. {f \in ToSet(frames) : f.kind = "call"} = {}
    BY <1>1, <1>3
<1> DEFINE seqs == [i \in DOMAIN frames |-> AddedBy(frames[i])]
<1>7. FlattenSeq(seqs) = <<>>
  <2>1. AddedBy(RoleFrame) = <<>> /\ AddedBy(e) = <<>> /\ AddedBy(DoneFrame) = <<>>
      BY <1>1 DEF AddedBy
  <2>2. seqs = [i \in 1..3 |-> AddedBy(frames[i])]
      BY <1>2
  <2>3. \A i \in 1..3 : AddedBy(frames[i]) = <<>>
      BY <1>2, <2>1
  <2> HIDE DEF seqs
  <2>4. seqs \in Seq(Seq(Words)) /\ Len(seqs) = 3 /\ \A i \in 1..3 : seqs[i] = <<>>
    <3>1. <<>> \in Seq(Words)
        OBVIOUS
    <3>2. \A i \in 1..3 : AddedBy(frames[i]) \in Seq(Words)
        BY <2>3, <3>1
    <3>3. QED
        BY <2>2, <2>3, <3>2
  <2>5. QED
      BY <2>4, FlatOfNone
<1> HIDE DEF seqs
<1>8. Assembled(frames) = [error |-> None, text |-> <<>>, calls |-> <<>>, finish |-> finish,
                           in |-> usage.in, out |-> usage.out]
  <2> DEFINE none == <<>>
  <2>1. ListOf(0, none)
      BY DEF ListOf
  <2> HIDE DEF none
  <2>2. AddedUp(frames) = <<>>
      BY <1>7 DEF AddedUp, seqs
  <2>3. \A f \in ToSet(frames) : f.kind = "finish" => f = FinishFrame(finish, usage)
      BY <1>5 DEF e
  <2>4. FinishFrame(finish, usage) \in ToSet(frames)
      BY <1>5 DEF e
  <2>5. \A f \in ToSet(frames) : f.kind # "call"
      BY <1>6
  <2>6. 0 \in Nat /\ \A i \in 1..0 : CallFrame(i - 1, none[i]) \in ToSet(frames)
      OBVIOUS
  <2>7. EndIn(frames, finish, usage) /\ CallsIn(frames, 0, none)
      BY <1>4, <2>3, <2>4, <2>5, <2>6 DEF EndIn, CallsIn
  <2>8. Assembled(frames) = [error |-> None, text |-> <<>>, calls |-> none, finish |-> finish,
                             in |-> usage.in, out |-> usage.out]
      BY <2>1, <2>2, <2>6, <2>7, AssembledIs
  <2>9. QED
      BY <2>8 DEF none
<1>9. EndsOnce(frames)
  <2>1. RoleFrame # DoneFrame /\ e # DoneFrame
      BY <1>1
  <2>2. QED
      BY <1>2, <2>1 DEF EndsOnce
<1>10. QED
    BY <1>8, <1>9 DEF frames, e

\* A stream that tells of the calls of a turn.
LEMMA CallStream ==
    ASSUME NEW n \in Nat, NEW calls, ListOf(n, calls), NEW finish, NEW usage
    PROVE  LET frames == (<<RoleFrame>> \o [i \in DOMAIN calls |-> CallFrame(i - 1, calls[i])])
                           \o <<FinishFrame(finish, usage), DoneFrame>>
           IN  /\ Assembled(frames) = [error |-> None, text |-> <<>>, calls |-> calls, finish |-> finish,
                                       in |-> usage.in, out |-> usage.out]
               /\ EndsOnce(frames)
<1> DEFINE e == FinishFrame(finish, usage)
           K(i) == CallFrame(i - 1, calls[i])
           middle == [i \in DOMAIN calls |-> K(i)]
           S == {RoleFrame, e, DoneFrame} \cup {K(i) : i \in 1..n}
           start == <<RoleFrame>> \o middle
           end == <<e, DoneFrame>>
           frames == start \o end
<1>1. /\ RoleFrame.kind = "role" /\ DoneFrame.kind = "done" /\ e.kind = "finish"
      /\ \A i \in 1..n : K(i).kind = "call"
    BY FrameKinds
<1>2. DOMAIN calls = 1..n
    BY DEF ListOf
<1> HIDE DEF e, K
<1>3. middle \in Seq(S) /\ Len(middle) = n /\ \A i \in 1..n : middle[i] = K(i)
  <2>1. middle = [i \in 1..n |-> K(i)] /\ \A i \in 1..n : K(i) \in S
      BY <1>2
  <2> HIDE DEF S, middle
  <2>2. QED
      BY <2>1
<1>4. RoleFrame \in S /\ e \in S /\ DoneFrame \in S
    OBVIOUS
<1> HIDE DEF S, middle
<1>5. start \in Seq(S) /\ Len(start) = n + 1 /\ start[1] = RoleFrame /\ \A i \in 1..n : start[i + 1] = K(i)
  <2>1. <<RoleFrame>> \in Seq(S) /\ Len(<<RoleFrame>>) = 1 /\ <<RoleFrame>>[1] = RoleFrame
      BY <1>4
  <2>2. /\ start \in Seq(S) /\ Len(start) = 1 + n /\ \A i \in 1..1 : start[i] = <<RoleFrame>>[i]
        /\ \A i \in 1..n : start[1 + i] = middle[i]
      BY <1>3, <2>1, ConcatProperties
  <2> HIDE DEF start
  <2>3. \A i \in 1..n : 1 + i = i + 1
      OBVIOUS
  <2>4. QED
      BY <1>3, <2>1, <2>2, <2>3
<1>6. end \in Seq(S) /\ Len(end) = 2 /\ end[1] = e /\ end[2] = DoneFrame
    BY <1>4
<1> HIDE DEF start, end
<1>7. /\ frames \in Seq(S) /\ Len(frames) = n + 3 /\ DOMAIN frames = 1..(n + 3)
      /\ frames[1] = RoleFrame /\ frames[n + 2] = e /\ frames[n + 3] = DoneFrame
      /\ \A i \in 1..n : frames[i + 1] = K(i)
  <2>1. /\ frames \in Seq(S) /\ Len(frames) = (n + 1) + 2 /\ \A i \in 1..(n + 1) : frames[i] = start[i]
        /\ \A i \in 1..2 : frames[(n + 1) + i] = end[i]
    <3>1. /\ frames \in Seq(S) /\ Len(frames) = Len(start) + Len(end)
          /\ \A i \in 1..Len(start) : frames[i] = start[i]
          /\ \A i \in 1..Len(end) : frames[Len(start) + i] = end[i]
      <4>1. /\ frames \in Seq(S) /\ Len(frames) = Len(start) + Len(end)
            /\ \A i \in 1..(Len(start) + Len(end)) :
                  frames[i] = IF i <= Len(start) THEN start[i] ELSE end[i - Len(start)]
          BY <1>5, <1>6, ConcatProperties
      <4>2. \A a, b \in Nat : /\ \A i \in 1..a : i \in 1..(a + b) /\ i <= a
                              /\ \A i \in 1..b : a + i \in 1..(a + b) /\ ~(a + i <= a) /\ (a + i) - a = i
          OBVIOUS
      <4>3. Len(start) \in Nat /\ Len(end) \in Nat
          BY <1>5, <1>6
      <4> HIDE DEF frames
      <4>4. QED
          BY <4>1, <4>2, <4>3
    <3> HIDE DEF frames
    <3>2. QED
        BY <1>5, <1>6, <3>1
  <2> HIDE DEF frames
  <2>2. DOMAIN frames = 1..Len(frames)
      BY <2>1, LenProperties
  <2>3. (n + 1) + 2 = n + 3 /\ (n + 1) + 1 = n + 2 /\ 1 \in 1..(n + 1) /\ 1 \in 1..2 /\ 2 \in 1..2
        /\ \A i \in 1..n : i + 1 \in 1..(n + 1)
      OBVIOUS
  <2>4. frames[1] = RoleFrame /\ \A i \in 1..n : frames[i + 1] = K(i)
      BY <1>5, <2>1, <2>3
  <2>5. frames[n + 2] = e /\ frames[n + 3] = DoneFrame
      BY <1>6, <2>1, <2>3
  <2>6. QED
      BY <2>1, <2>2, <2>3, <2>4, <2>5
<1> HIDE DEF frames
<1>8. \A k \in 1..(n + 3) : k = 1 \/ k = n + 2 \/ k = n + 3 \/ (k - 1 \in 1..n /\ (k - 1) + 1 = k)
    OBVIOUS
<1>9. \A k \in 1..(n + 3) : frames[k] \in {RoleFrame, e, DoneFrame} \/ \E i \in 1..n : frames[k] = K(i)
    BY <1>7, <1>8
<1>10. \A f \in ToSet(frames) : f.kind \in {"role", "finish", "done", "call"}
    BY <1>1, <1>7, <1>9 DEF ToSet
<1>11. \A f \in ToSet(frames) : f.kind = "finish" => f = e
    BY <1>1, <1>7, <1>9 DEF ToSet
<1>12. \A f \in ToSet(frames) : f.kind = "call" => \E i \in 1..n : f = K(i)
    BY <1>1, <1>7, <1>9 DEF ToSet
<1>13. e \in ToSet(frames) /\ \A i \in 1..n : K(i) \in ToSet(frames)
  <2>1. n + 2 \in 1..(n + 3) /\ \A i \in 1..n : i + 1 \in 1..(n + 3)
      OBVIOUS
  <2>2. QED
      BY <1>7, <2>1 DEF ToSet
<1>14. AddedUp(frames) = <<>>
  <2> DEFINE seqs == [i \in DOMAIN frames |-> AddedBy(frames[i])]
  <2>1. \A k \in 1..(n + 3) : AddedBy(frames[k]) = <<>>
      BY <1>7, <1>10 DEF AddedBy, ToSet
  <2>2. seqs = [k \in 1..(n + 3) |-> AddedBy(frames[k])] /\ <<>> \in Seq(Words)
      BY <1>7
  <2>3. AddedUp(frames) = FlattenSeq(seqs)
      BY DEF AddedUp
  <2> HIDE DEF seqs
  <2>4. seqs \in Seq(Seq(Words)) /\ Len(seqs) = n + 3 /\ \A k \in 1..(n + 3) : seqs[k] = <<>>
    <3>1. \A k \in 1..(n + 3) : AddedBy(frames[k]) \in Seq(Words)
        BY <2>1, <2>2
    <3>2. n + 3 \in Nat
        OBVIOUS
    <3>3. QED
        BY <2>1, <2>2, <3>1, <3>2
  <2>5. QED
      BY <2>3, <2>4, FlatOfNone
<1>15. Assembled(frames) = [error |-> None, text |-> <<>>, calls |-> calls, finish |-> finish,
                            in |-> usage.in, out |-> usage.out]
  <2> DEFINE nothing == <<>>
  <2>0. AddedUp(frames) = nothing
      BY <1>14
  <2>1. \A f \in ToSet(frames) : f.kind # "error"
      BY <1>10
  <2>2. \A f \in ToSet(frames) : f.kind = "finish" => f = FinishFrame(finish, usage)
      BY <1>11 DEF e
  <2>3. FinishFrame(finish, usage) \in ToSet(frames)
      BY <1>13 DEF e
  <2>4. \A f \in ToSet(frames) : f.kind = "call" => \E i \in 1..n : f = CallFrame(i - 1, calls[i])
      BY <1>12 DEF K
  <2>5. \A i \in 1..n : CallFrame(i - 1, calls[i]) \in ToSet(frames)
      BY <1>13 DEF K
  <2> HIDE DEF nothing
  <2>6. EndIn(frames, finish, usage) /\ CallsIn(frames, n, calls)
      BY <2>1, <2>2, <2>3, <2>4, <2>5 DEF EndIn, CallsIn
  <2>7. Assembled(frames) = [error |-> None, text |-> nothing, calls |-> calls, finish |-> finish,
                             in |-> usage.in, out |-> usage.out]
      BY <2>0, <2>6, AssembledIs
  <2>8. QED
      BY <2>7 DEF nothing
<1>16. EndsOnce(frames)
  <2>1. RoleFrame # DoneFrame /\ e # DoneFrame /\ \A i \in 1..n : K(i) # DoneFrame
    <3>1. \A i \in 1..n : K(i).kind # DoneFrame.kind
        BY <1>1
    <3>2. QED
        BY <1>1, <3>1
  <2>2. \A k \in 1..(n + 2) : k = 1 \/ k = n + 2 \/ (k - 1 \in 1..n /\ (k - 1) + 1 = k)
      OBVIOUS
  <2>3. \A k \in 1..(n + 2) : frames[k] # DoneFrame
      BY <1>7, <2>1, <2>2
  <2>4. (n + 3) - 1 = n + 2
      OBVIOUS
  <2>5. QED
      BY <1>7, <2>3, <2>4 DEF EndsOnce
<1>17. frames = (<<RoleFrame>> \o [i \in DOMAIN calls |-> CallFrame(i - 1, calls[i])])
                  \o <<FinishFrame(finish, usage), DoneFrame>>
    BY DEF frames, start, middle, end, K, e
<1>18. QED
    BY <1>15, <1>16, <1>17

\* Streams that tell why there is no answer.
LEMMA ErrorStream ==
    ASSUME NEW code
    PROVE  /\ Assembled(<<ErrorFrame(code), DoneFrame>>) = [error |-> code]
           /\ EndsOnce(<<ErrorFrame(code), DoneFrame>>)
           /\ Assembled(<<ErrorFrame(code)>> \o <<>>) = [error |-> code]
           /\ Len(<<ErrorFrame(code)>> \o <<>>) = 1 /\ (<<ErrorFrame(code)>> \o <<>>)[1].kind = "error"
<1> DEFINE r == ErrorFrame(code)
           two == <<r, DoneFrame>>
           one == <<r>> \o <<>>
<1>1. r.kind = "error" /\ r.code = code /\ DoneFrame.kind = "done" /\ r # DoneFrame
    BY FrameKinds
<1> HIDE DEF r
<1>2. Len(two) = 2 /\ DOMAIN two = 1..2 /\ two[1] = r /\ two[2] = DoneFrame /\ 1..2 = {1, 2}
    OBVIOUS
<1>3. one = <<r>>
    OBVIOUS
<1>4. Len(one) = 1 /\ DOMAIN one = 1..1 /\ one[1] = r /\ 1..1 = {1}
    BY <1>3
<1> HIDE DEF two, one
<1>5. ToSet(two) = {r, DoneFrame} /\ ToSet(one) = {r}
    BY <1>2, <1>4 DEF ToSet
<1>6. \A frames : {f \in ToSet(frames) : f.kind = "error"} = {r} => Assembled(frames) = [error |-> code]
  <2>1. SUFFICES ASSUME NEW frames, {f \in ToSet(frames) : f.kind = "error"} = {r}
                 PROVE  Assembled(frames) = [error |-> code]
      OBVIOUS
  <2>2. {f \in ToSet(frames) : f.kind = "error"} # {} /\ (CHOOSE f \in {f \in ToSet(frames) : f.kind = "error"} : TRUE) = r
      BY <2>1
  <2>3. QED
      BY <1>1, <2>2 DEF Assembled
<1>7. {f \in ToSet(two) : f.kind = "error"} = {r} /\ {f \in ToSet(one) : f.kind = "error"} = {r}
    BY <1>1, <1>5
<1>8. Assembled(two) = [error |-> code] /\ Assembled(one) = [error |-> code]
    BY <1>6, <1>7
<1>9. EndsOnce(two)
    BY <1>1, <1>2 DEF EndsOnce
<1>10. QED
    BY <1>1, <1>4, <1>8, <1>9 DEF two, one, r

LEMMA TuplesJoined ==
    ASSUME NEW a, NEW b, NEW c
    PROVE  <<a>> \o <<b>> = <<a, b>> /\ <<a>> \o <<b, c>> = <<a, b, c>>
<1> DEFINE S == {a, b, c}
<1>1. <<a>> \o <<b>> = <<a, b>>
  <2> DEFINE j == <<a>> \o <<b>>
  <2>1. <<a>> \in Seq(S) /\ <<b>> \in Seq(S) /\ <<a, b>> \in Seq(S)
      OBVIOUS
  <2>2. j \in Seq(S) /\ Len(j) = 2 /\ j[1] = a /\ j[2] = b
      BY <2>1
  <2> HIDE DEF j
  <2>3. Len(<<a, b>>) = 2 /\ \A i \in 1..2 : j[i] = <<a, b>>[i]
    <3>1. 1..2 = {1, 2}
        OBVIOUS
    <3>2. QED
        BY <2>2, <3>1
  <2>4. QED
      BY <2>1, <2>2, <2>3, SeqEqual DEF j
<1>2. <<a>> \o <<b, c>> = <<a, b, c>>
  <2> DEFINE j == <<a>> \o <<b, c>>
  <2>1. <<a>> \in Seq(S) /\ <<b, c>> \in Seq(S) /\ <<a, b, c>> \in Seq(S)
      OBVIOUS
  <2>2. j \in Seq(S) /\ Len(j) = 3 /\ j[1] = a /\ j[2] = b /\ j[3] = c
      BY <2>1
  <2> HIDE DEF j
  <2>3. Len(<<a, b, c>>) = 3 /\ \A i \in 1..3 : j[i] = <<a, b, c>>[i]
    <3>1. 1..3 = {1, 2, 3}
        OBVIOUS
    <3>2. QED
        BY <2>2, <3>1
  <2>4. QED
      BY <2>1, <2>2, <2>3, SeqEqual DEF j
<1>3. QED
    BY <1>1, <1>2

LEMMA FourJoined ==
    ASSUME NEW a, NEW b, NEW c, NEW d
    PROVE  <<a, b>> \o <<c, d>> = <<a, b, c, d>>
<1> DEFINE S == {a, b, c, d}
<1> DEFINE j == <<a, b>> \o <<c, d>>
<1>1. <<a, b>> \in Seq(S) /\ <<c, d>> \in Seq(S) /\ <<a, b, c, d>> \in Seq(S)
    OBVIOUS
<1>2. j \in Seq(S) /\ Len(j) = 4 /\ j[1] = a /\ j[2] = b /\ j[3] = c /\ j[4] = d
    BY <1>1
<1> HIDE DEF j
<1>3. Len(<<a, b, c, d>>) = 4 /\ \A i \in 1..4 : j[i] = <<a, b, c, d>>[i]
  <2>1. 1..4 = {1, 2, 3, 4}
      OBVIOUS
  <2>2. QED
      BY <1>2, <2>1
<1>4. QED
    BY <1>1, <1>2, <1>3, SeqEqual DEF j

LEMMA TurnStream ==
    ASSUME NEW shown \in Wordings, NEW n \in Nat, NEW calls, ListOf(n, calls), calls # <<>> => shown = <<>>,
           NEW finish, NEW usage
    PROVE  LET frames == TurnFrames(shown, calls) \o <<FinishFrame(finish, usage), DoneFrame>>
           IN  /\ Assembled(frames) = [error |-> None, text |-> shown, calls |-> calls, finish |-> finish,
                                       in |-> usage.in, out |-> usage.out]
               /\ EndsOnce(frames)
<1> DEFINE e == FinishFrame(finish, usage)
           c == ContentFrame(shown)
<1>1. CASE calls # <<>>
  <2>1. TurnFrames(shown, calls) = <<RoleFrame>> \o [i \in DOMAIN calls |-> CallFrame(i - 1, calls[i])]
      BY <1>1 DEF TurnFrames
  <2>2. shown = <<>>
      BY <1>1
  <2>3. QED
      BY <2>1, <2>2, CallStream
<1>2. CASE calls = <<>> /\ shown = <<>>
  <2>1. TurnFrames(shown, calls) = <<RoleFrame>>
      BY <1>2 DEF TurnFrames
  <2>2. <<RoleFrame>> \o <<e, DoneFrame>> = <<RoleFrame, e, DoneFrame>>
    <3> HIDE DEF e
    <3>1. QED
        BY TuplesJoined
  <2>3. QED
      BY <1>2, <2>1, <2>2, BareStream
<1>3. CASE calls = <<>> /\ shown # <<>>
  <2>1. TurnFrames(shown, calls) = <<RoleFrame, c>>
      BY <1>3 DEF TurnFrames
  <2>2. <<RoleFrame, c>> \o <<e, DoneFrame>> = <<RoleFrame, c, e, DoneFrame>>
    <3> HIDE DEF e, c
    <3>1. QED
        BY FourJoined
  <2>3. TurnFrames(shown, calls) \o <<e, DoneFrame>> = <<RoleFrame, c, e, DoneFrame>>
      BY <2>1, <2>2
  <2>4. /\ Assembled(<<RoleFrame, c, e, DoneFrame>>) =
              [error |-> None, text |-> shown, calls |-> <<>>, finish |-> finish, in |-> usage.in, out |-> usage.out]
        /\ EndsOnce(<<RoleFrame, c, e, DoneFrame>>)
      BY TextStream
  <2> HIDE DEF c, e
  <2>5. QED
      BY <1>3, <2>3, <2>4 DEF e
<1>4. QED
    BY <1>1, <1>2, <1>3

\* A stream that says how it ended, and only once.
StreamEnds(frames, failed) ==
    /\ frames[Len(frames)] = DoneFrame \/ (failed /\ frames[Len(frames)].kind = "error")
    /\ \A i \in 1..(Len(frames) - 1) : frames[i] # DoneFrame

LEMMA EndsOnceEnds ==
    ASSUME NEW frames, NEW failed, EndsOnce(frames) PROVE StreamEnds(frames, failed)
BY DEF EndsOnce, StreamEnds

LEMMA RefusalTold ==
    ASSUME NEW status, NEW code
    PROVE  /\ Understood(Sse(<<ErrorFrame(code), DoneFrame>>)) = [error |-> code]
           /\ Understood(Sse(<<ErrorFrame(code)>> \o <<DoneFrame>>)) = [error |-> code]
           /\ Understood(Sse(<<ErrorFrame(code)>> \o <<>>)) = [error |-> code]
           /\ Understood(JsonError(status, code)) = [error |-> code]
           /\ JsonError(status, code).form = "error"
           /\ StreamEnds(<<ErrorFrame(code), DoneFrame>>, FALSE)
           /\ StreamEnds(<<ErrorFrame(code)>> \o <<DoneFrame>>, FALSE)
           /\ StreamEnds(<<ErrorFrame(code)>> \o <<>>, TRUE)
<1> DEFINE r == ErrorFrame(code)
           two == <<r, DoneFrame>>
           one == <<r>> \o <<>>
<1>1. <<r>> \o <<DoneFrame>> = two
  <2> HIDE DEF r
  <2>1. QED
      BY TuplesJoined
<1>2. /\ Assembled(two) = [error |-> code] /\ EndsOnce(two) /\ Assembled(one) = [error |-> code]
      /\ Len(one) = 1 /\ one[1].kind = "error"
    BY ErrorStream
<1>3. StreamEnds(two, FALSE)
    BY <1>2, EndsOnceEnds
<1> HIDE DEF two, one
<1>4. StreamEnds(one, TRUE)
  <2>1. one[Len(one)].kind = "error" /\ \A i \in 1..(Len(one) - 1) : FALSE
      BY <1>2
  <2>2. QED
      BY <2>1 DEF StreamEnds
<1>5. \A frames : Sse(frames).form = "stream" /\ Sse(frames).frames = frames
    BY DEF Sse
<1>6. Understood(Sse(two)) = [error |-> code] /\ Understood(Sse(one)) = [error |-> code]
    BY <1>2, <1>5 DEF Understood
<1>7. JsonError(status, code).form = "error" /\ JsonError(status, code).code = code
    BY DEF JsonError
<1>8. Understood(JsonError(status, code)) = [error |-> code]
    BY <1>7 DEF Understood
<1>9. QED
    BY <1>1, <1>3, <1>4, <1>6, <1>7, <1>8 DEF two, one, r

LEMMA BodyTold ==
    ASSUME NEW text, NEW calls, NEW finish, NEW usage
    PROVE  LET reply == JsonBody([text |-> text, calls |-> calls, finish |-> finish, usage |-> usage])
           IN  /\ Understood(reply) = [error |-> None, text |-> text, calls |-> calls, finish |-> finish,
                                       in |-> usage.in, out |-> usage.out]
               /\ reply.form = "body" /\ reply.body.usage = usage
<1> DEFINE body == [text |-> text, calls |-> calls, finish |-> finish, usage |-> usage]
<1>1. body.text = text /\ body.calls = calls /\ body.finish = finish /\ body.usage = usage
    OBVIOUS
<1> HIDE DEF body
<1>2. JsonBody(body).form = "body" /\ JsonBody(body).body = body
    BY DEF JsonBody
<1>3. Understood(JsonBody(body)) = [error |-> None, text |-> text, calls |-> calls, finish |-> finish,
                                    in |-> usage.in, out |-> usage.out]
    BY <1>1, <1>2 DEF Understood
<1>4. QED
    BY <1>1, <1>2, <1>3 DEF body

\* What the logger stores of the tokens does not depend on who added them up.
LEMMA CountedAlike ==
    ASSUME NEW a, a.in \in Int, a.out \in Int, a.total \in Int
    PROVE  /\ Counted(UsageOf(a, a.total)) = UsageOf(a, TotalOf(a))
           /\ Counted(UsageOf(a, TotalOf(a))) = UsageOf(a, TotalOf(a))
<1>1. \A t : Counted(UsageOf(a, t)) = UsageOf(a, IF t # 0 THEN t ELSE a.in + a.out)
    BY DEF Counted, UsageOf
<1>2. TotalOf(a) = IF a.total # 0 THEN a.total ELSE a.in + a.out
    BY DEF TotalOf
<1>3. (IF TotalOf(a) # 0 THEN TotalOf(a) ELSE a.in + a.out) = TotalOf(a)
    BY <1>2
<1>4. QED
    BY <1>1, <1>2, <1>3

\* What a client is told and what is recorded, whatever the form of the answer.
Spoke(a) == ChunkText(a.content)
CallsOf(q, a) == IF q.way = "bound" /\ q.tools # <<>> THEN TranslateToolCalls(a.calls) ELSE <<>>
TextOf(q, a) == IF CallsOf(q, a) # <<>> THEN <<>> ELSE Spoke(a)
EndOf(q, a) == IF CallsOf(q, a) # <<>> THEN "tool_calls"
               ELSE IF q.way = "chat" THEN ExtractFinishReason(a.stop) ELSE Or(ExtractFinishReason(a.stop), "stop")
ByOf(q, a) == IF q.way = "bound" THEN q.served.provider ELSE a.provider
AliasOf(q, a) == IF q.way = "bound" THEN q.served.alias ELSE ServedAlias(q.served, a.provider)
Withheld(q, s, a) == Forbids(TextOf(q, a), s, q.app)

Gist(q, s, a) ==
    IF a.failed THEN [error |-> "provider_error"]
    ELSE IF Withheld(q, s, a) THEN [error |-> "guardrail_violation"]
    ELSE [error |-> None, text |-> Delivery(TextOf(q, a), s), calls |-> CallsOf(q, a), finish |-> EndOf(q, a),
          in |-> a.in, out |-> a.out]

RecordOf(q, s, a) ==
    IF a.failed THEN Note("failure", q.served.provider, q.served.alias, NoUsage, Unkept)
    ELSE IF Withheld(q, s, a) THEN Note("blocked", ByOf(q, a), AliasOf(q, a), NoUsage, Unkept)
    ELSE Note("success", ByOf(q, a), AliasOf(q, a), UsageOf(a, TotalOf(a)), PayloadFields(q.history, Spoke(a), s))

\* The answers and settings there may be.
Answers(a) ==
    /\ a.failed \in BOOLEAN
    /\ ~a.failed => /\ a.content \in Contents /\ a.in \in Int /\ a.out \in Int /\ a.total \in Int
                    /\ Len(a.calls) \in Nat /\ DOMAIN a.calls = 1..Len(a.calls)

ToldRight(q, s, a, done) ==
    /\ Understood(done.reply) = Gist(q, s, a)
    /\ done.record = RecordOf(q, s, a)
    /\ q.stream => done.reply.form = "stream" /\ StreamEnds(done.reply.frames, a.failed)
    /\ done.reply.form = "body" =>
         /\ ~a.failed /\ ~Withheld(q, s, a) /\ done.by = ByOf(q, a)
         /\ done.reply.body.usage.in = a.in /\ done.reply.body.usage.out = a.out
         /\ q.way = "chat" => done.heading = done.by

\* The texts there may be, before and after they are masked.
LEMMA TextsAre ==
    ASSUME NEW q, NEW s, NEW a, Answers(a), ~a.failed, "[REDACTED]" \notin s.custom
    PROVE  Spoke(a) \in Wordings /\ TextOf(q, a) \in Wordings /\ Delivery(TextOf(q, a), s) \in Wordings
<1>1. Spoke(a) \in Wordings
  <2>1. ChunkText(a.content) = ExtractText(a.content)
      BY DEF ChunkText, ExtractText
  <2>2. a.content \in Contents
      BY DEF Answers
  <2>3. QED
      BY <2>1, <2>2, ExtractHolds DEF Spoke
<1>2. TextOf(q, a) \in Wordings
  <2>1. <<>> \in Wordings
      BY DEF Wordings
  <2>2. QED
      BY <1>1, <2>1 DEF TextOf
<1>3. Delivery(TextOf(q, a), s) \in Wordings
    BY <1>2, MaskedIsClean DEF Delivery
<1>4. QED
    BY <1>1, <1>2, <1>3

LEMMA CallsAre ==
    ASSUME NEW q, NEW s, NEW a, Answers(a), ~a.failed
    PROVE  /\ \E n \in Nat : ListOf(n, CallsOf(q, a))
           /\ CallsOf(q, a) # <<>> => Delivery(TextOf(q, a), s) = <<>>
<1>1. \E n \in Nat : ListOf(n, TranslateToolCalls(a.calls))
  <2> DEFINE T(i) == [id |-> IF a.calls[i].id # None THEN a.calls[i].id ELSE <<"call", i - 1>>,
                      name |-> a.calls[i].name,
                      arguments |-> IF a.calls[i].args.as = "nothing" THEN ArgsText("{}") ELSE ArgsText(a.calls[i].args.v)]
  <2>1. Len(a.calls) \in Nat /\ DOMAIN a.calls = 1..Len(a.calls)
      BY DEF Answers
  <2>2. TranslateToolCalls(a.calls) = [i \in 1..Len(a.calls) |-> T(i)]
      BY <2>1 DEF TranslateToolCalls
  <2> HIDE DEF T
  <2>3. ListOf(Len(a.calls), TranslateToolCalls(a.calls))
      BY <2>2 DEF ListOf
  <2>4. QED
      BY <2>1, <2>3
<1>2. ListOf(0, <<>>)
    BY DEF ListOf
<1>3. MaskPii(<<>>, s.custom) = <<>>
    BY DEF MaskPii
<1>4. CallsOf(q, a) # <<>> => TextOf(q, a) = <<>>
    BY DEF TextOf
<1>5. QED
    BY <1>1, <1>2, <1>3, <1>4 DEF CallsOf, Delivery

\* The three ways an answer comes.
Kept(q, s, a) == PayloadFields(q.history, Spoke(a), s)
Delivered(q, a, heading, reply, usage, entry) ==
    [by |-> ByOf(q, a), heading |-> heading, reply |-> reply,
     record |-> Note("success", ByOf(q, a), AliasOf(q, a), usage, entry)]
BodyOf(q, s, a, usage) ==
    JsonBody([text |-> Delivery(TextOf(q, a), s), calls |-> CallsOf(q, a), finish |-> EndOf(q, a), usage |-> usage])

\* What is told of a reply does not depend on the way it came, if it has one of these forms.
Refusals(status, code) ==
    {Sse(<<ErrorFrame(code), DoneFrame>>), Sse(<<ErrorFrame(code)>> \o <<DoneFrame>>), JsonError(status, code)}

LEMMA RefusalIs ==
    ASSUME NEW status, NEW code,
           NEW reply \in Refusals(status, code)
    PROVE  /\ Understood(reply) = [error |-> code] /\ reply.form # "body"
           /\ \A failed \in BOOLEAN : reply.form = "stream" => StreamEnds(reply.frames, failed)
<1>1. \A frames : Sse(frames).form = "stream" /\ Sse(frames).frames = frames
    BY DEF Sse
<1>2. \A frames : StreamEnds(frames, FALSE) => \A failed \in BOOLEAN : StreamEnds(frames, failed)
    BY DEF StreamEnds
<1>3. CASE reply = Sse(<<ErrorFrame(code), DoneFrame>>)
  <2> DEFINE two == <<ErrorFrame(code), DoneFrame>>
  <2>1. Understood(Sse(two)) = [error |-> code] /\ StreamEnds(two, FALSE)
      BY RefusalTold
  <2> HIDE DEF two
  <2>2. QED
      BY <1>1, <1>2, <1>3, <2>1 DEF two
<1>4. CASE reply = Sse(<<ErrorFrame(code)>> \o <<DoneFrame>>)
  <2> DEFINE two == <<ErrorFrame(code)>> \o <<DoneFrame>>
  <2>1. Understood(Sse(two)) = [error |-> code] /\ StreamEnds(two, FALSE)
      BY RefusalTold
  <2> HIDE DEF two
  <2>2. reply = Sse(two)
      BY <1>4 DEF two
  <2>3. QED
      BY <1>1, <1>2, <2>1, <2>2
<1>5. CASE reply = JsonError(status, code)
  <2>1. Understood(JsonError(status, code)) = [error |-> code] /\ JsonError(status, code).form = "error"
      BY RefusalTold
  <2>2. QED
      BY <1>5, <2>1
<1>6. QED
    BY <1>3, <1>4, <1>5 DEF Refusals

LEMMA FailureIs ==
    ASSUME NEW code
    PROVE  LET reply == Sse(<<ErrorFrame(code)>> \o <<>>)
           IN  Understood(reply) = [error |-> code] /\ reply.form = "stream" /\ StreamEnds(reply.frames, TRUE)
<1> DEFINE one == <<ErrorFrame(code)>> \o <<>>
<1>1. Understood(Sse(one)) = [error |-> code] /\ StreamEnds(one, TRUE)
    BY RefusalTold
<1> HIDE DEF one
<1>2. Sse(one).form = "stream" /\ Sse(one).frames = one
    BY DEF Sse
<1>3. QED
    BY <1>1, <1>2 DEF one

LEMMA FailedTold ==
    ASSUME NEW q, NEW s, NEW a, a.failed = TRUE, NEW reply, Understood(reply) = [error |-> "provider_error"],
           reply.form # "body", q.stream => reply.form = "stream" /\ StreamEnds(reply.frames, a.failed)
    PROVE  ToldRight(q, s, a, ProviderFailed(q, reply))
<1> DEFINE done == ProviderFailed(q, reply)
<1>1. done.reply = reply /\ done.record = Note("failure", q.served.provider, q.served.alias, NoUsage, Unkept)
    BY DEF ProviderFailed
<1>2. Gist(q, s, a) = [error |-> "provider_error"]
      /\ RecordOf(q, s, a) = Note("failure", q.served.provider, q.served.alias, NoUsage, Unkept)
    BY DEF Gist, RecordOf
<1> HIDE DEF done
<1>3. Understood(done.reply) = Gist(q, s, a) /\ done.record = RecordOf(q, s, a) /\ done.reply.form # "body"
    BY <1>1, <1>2
<1>4. q.stream => done.reply.form = "stream" /\ StreamEnds(done.reply.frames, a.failed)
    BY <1>1
<1>5. QED
    BY <1>3, <1>4 DEF ToldRight, done

LEMMA BlockedTold ==
    ASSUME NEW q, NEW s, NEW a, a.failed = FALSE, Withheld(q, s, a), NEW reply,
           Understood(reply) = [error |-> "guardrail_violation"],
           reply.form # "body", q.stream => reply.form = "stream" /\ StreamEnds(reply.frames, a.failed)
    PROVE  ToldRight(q, s, a, Blocked(reply, ByOf(q, a), AliasOf(q, a)))
<1> DEFINE done == Blocked(reply, ByOf(q, a), AliasOf(q, a))
<1>1. done.reply = reply /\ done.record = Note("blocked", ByOf(q, a), AliasOf(q, a), NoUsage, Unkept)
    BY DEF Blocked
<1>2. Gist(q, s, a) = [error |-> "guardrail_violation"]
      /\ RecordOf(q, s, a) = Note("blocked", ByOf(q, a), AliasOf(q, a), NoUsage, Unkept)
    BY DEF Gist, RecordOf
<1> HIDE DEF done
<1>3. Understood(done.reply) = Gist(q, s, a) /\ done.record = RecordOf(q, s, a) /\ done.reply.form # "body"
    BY <1>1, <1>2
<1>4. q.stream => done.reply.form = "stream" /\ StreamEnds(done.reply.frames, a.failed)
    BY <1>1
<1>5. QED
    BY <1>3, <1>4 DEF ToldRight, done

LEMMA DeliveredTold ==
    ASSUME NEW q, NEW s, NEW a, Answers(a), ~a.failed, ~Withheld(q, s, a), NEW heading, NEW total,
           total \in {a.total, TotalOf(a)}, q.way = "chat" => heading = ByOf(q, a), NEW reply,
           \/ reply = BodyOf(q, s, a, UsageOf(a, total)) /\ ~q.stream
           \/ /\ reply.form = "stream" /\ EndsOnce(reply.frames)
              /\ Assembled(reply.frames) = [error |-> None, text |-> Delivery(TextOf(q, a), s), calls |-> CallsOf(q, a),
                                            finish |-> EndOf(q, a), in |-> a.in, out |-> a.out]
    PROVE  ToldRight(q, s, a, Delivered(q, a, heading, reply, UsageOf(a, total), Kept(q, s, a)))
<1> DEFINE usage == UsageOf(a, total)
           entry == Kept(q, s, a)
           done == Delivered(q, a, heading, reply, usage, entry)
<1>1. /\ done.reply = reply /\ done.by = ByOf(q, a) /\ done.heading = heading
      /\ done.record = Note("success", ByOf(q, a), AliasOf(q, a), usage, entry)
    BY DEF Delivered
<1>2. usage.in = a.in /\ usage.out = a.out
    BY DEF UsageOf
<1>3. Counted(usage) = Counted(UsageOf(a, TotalOf(a)))
  <2>1. a.in \in Int /\ a.out \in Int /\ a.total \in Int
      BY DEF Answers
  <2>2. QED
      BY <2>1, CountedAlike
<1>4. done.record = RecordOf(q, s, a)
  <2>1. Note("success", ByOf(q, a), AliasOf(q, a), usage, entry)
          = Note("success", ByOf(q, a), AliasOf(q, a), UsageOf(a, TotalOf(a)), entry)
      BY <1>3 DEF Note
  <2> HIDE DEF usage, done
  <2>2. QED
      BY <1>1, <2>1 DEF RecordOf, Kept
<1>5. Gist(q, s, a) = [error |-> None, text |-> Delivery(TextOf(q, a), s), calls |-> CallsOf(q, a),
                       finish |-> EndOf(q, a), in |-> a.in, out |-> a.out]
    BY DEF Gist
<1> HIDE DEF done, entry, usage
<1>6. CASE reply = BodyOf(q, s, a, usage) /\ ~q.stream
  <2>1. /\ Understood(reply) = [error |-> None, text |-> Delivery(TextOf(q, a), s), calls |-> CallsOf(q, a),
                                finish |-> EndOf(q, a), in |-> usage.in, out |-> usage.out]
        /\ reply.form = "body" /\ reply.body.usage = usage
      BY <1>6, BodyTold DEF BodyOf
  <2>2. QED
      BY <1>1, <1>2, <1>4, <1>5, <1>6, <2>1 DEF ToldRight, done, usage, entry
<1>7. CASE /\ reply.form = "stream" /\ EndsOnce(reply.frames)
           /\ Assembled(reply.frames) = [error |-> None, text |-> Delivery(TextOf(q, a), s), calls |-> CallsOf(q, a),
                                         finish |-> EndOf(q, a), in |-> a.in, out |-> a.out]
  <2>1. Understood(reply) = Gist(q, s, a)
      BY <1>5, <1>7 DEF Understood
  <2>2. StreamEnds(reply.frames, a.failed)
      BY <1>7, EndsOnceEnds
  <2>3. QED
      BY <1>1, <1>4, <1>7, <2>1, <2>2 DEF ToldRight, done, usage, entry
<1>8. QED
    BY <1>6, <1>7 DEF usage

LEMMA RepliedBound ==
    ASSUME NEW q, NEW s, NEW a, q.way = "bound", q.stream \in BOOLEAN, Answers(a), "[REDACTED]" \notin s.custom
    PROVE  ToldRight(q, s, a, Reply(q, s, a))
<1> DEFINE usage == UsageOf(a, TotalOf(a))
           shown == Delivery(TextOf(q, a), s)
           calls == CallsOf(q, a)
           frames == TurnFrames(shown, calls) \o <<FinishFrame(EndOf(q, a), usage), DoneFrame>>
           reply == IF q.stream THEN Sse(frames) ELSE BodyOf(q, s, a, usage)
           Refusal(status, code) ==
             IF q.stream THEN Sse(<<ErrorFrame(code), DoneFrame>>) ELSE JsonError(status, code)
<1>1. Reply(q, s, a) = BoundReply(q, s, a)
    BY DEF Reply
<1>2. /\ calls = IF q.tools # <<>> THEN TranslateToolCalls(a.calls) ELSE <<>>
      /\ TextOf(q, a) = IF calls # <<>> THEN <<>> ELSE ChunkText(a.content)
      /\ EndOf(q, a) = IF calls # <<>> THEN "tool_calls" ELSE Or(ExtractFinishReason(a.stop), "stop")
      /\ ByOf(q, a) = q.served.provider /\ AliasOf(q, a) = q.served.alias
    BY DEF CallsOf, TextOf, EndOf, ByOf, AliasOf, Spoke
<1>3. Withheld(q, s, a) = Forbids(TextOf(q, a), s, q.app)
    BY DEF Withheld
<1>4. BoundReply(q, s, a) =
        IF a.failed THEN ProviderFailed(q, Refusal(502, "provider_error"))
        ELSE IF Withheld(q, s, a) THEN Blocked(Refusal(422, "guardrail_violation"), ByOf(q, a), AliasOf(q, a))
        ELSE Delivered(q, a, q.served.provider, reply, usage, Kept(q, s, a))
  <2> HIDE DEF calls
  <2>1. QED
      BY <1>2, <1>3 DEF BoundReply, Delivered, BodyOf, Kept, Spoke, calls
<1> HIDE DEF usage, calls, frames, reply, Refusal, shown
<1>5. a.failed \in BOOLEAN
    BY DEF Answers
<1>6. CASE a.failed = TRUE
  <2> DEFINE r == Refusal(502, "provider_error")
  <2>1. /\ Understood(r) = [error |-> "provider_error"] /\ r.form # "body"
        /\ r.form = "stream" => StreamEnds(r.frames, a.failed)
    <3>1. r \in Refusals(502, "provider_error")
        BY DEF Refusal, Refusals
    <3> HIDE DEF r
    <3>2. QED
        BY <1>5, <3>1, RefusalIs
  <2>2. q.stream => r.form = "stream"
      BY DEF Refusal, Sse
  <2>3. Reply(q, s, a) = ProviderFailed(q, r)
      BY <1>1, <1>4, <1>6
  <2> HIDE DEF r
  <2>4. QED
      BY <1>6, <2>1, <2>2, <2>3, FailedTold
<1>7. CASE a.failed = FALSE /\ Withheld(q, s, a)
  <2> DEFINE r == Refusal(422, "guardrail_violation")
  <2>1. /\ Understood(r) = [error |-> "guardrail_violation"] /\ r.form # "body"
        /\ r.form = "stream" => StreamEnds(r.frames, a.failed)
    <3>1. r \in Refusals(422, "guardrail_violation")
        BY DEF Refusal, Refusals
    <3> HIDE DEF r
    <3>2. QED
        BY <1>5, <3>1, RefusalIs
  <2>2. q.stream => r.form = "stream"
      BY DEF Refusal, Sse
  <2>3. Reply(q, s, a) = Blocked(r, ByOf(q, a), AliasOf(q, a))
      BY <1>1, <1>4, <1>7
  <2> HIDE DEF r
  <2>4. QED
      BY <1>7, <2>1, <2>2, <2>3, BlockedTold
<1>8. CASE a.failed = FALSE /\ ~Withheld(q, s, a)
  <2>1. Reply(q, s, a) = Delivered(q, a, q.served.provider, reply, usage, Kept(q, s, a))
      BY <1>1, <1>4, <1>8
  <2>2. shown \in Wordings /\ (calls # <<>> => shown = <<>>) /\ \E n \in Nat : ListOf(n, calls)
      BY <1>8, TextsAre, CallsAre DEF shown, calls
  <2>3. usage.in = a.in /\ usage.out = a.out
      BY DEF usage, UsageOf
  <2>4. /\ Assembled(frames) = [error |-> None, text |-> shown, calls |-> calls, finish |-> EndOf(q, a),
                                in |-> usage.in, out |-> usage.out]
        /\ EndsOnce(frames)
      BY <2>2, TurnStream DEF frames
  <2>5. \/ reply = BodyOf(q, s, a, usage) /\ ~q.stream
        \/ /\ reply.form = "stream" /\ EndsOnce(reply.frames)
           /\ Assembled(reply.frames) = [error |-> None, text |-> shown, calls |-> calls,
                                         finish |-> EndOf(q, a), in |-> a.in, out |-> a.out]
    <3>1. Sse(frames).form = "stream" /\ Sse(frames).frames = frames
        BY DEF Sse
    <3>2. QED
        BY <2>3, <2>4, <3>1 DEF reply
  <2>6. q.way # "chat"
      OBVIOUS
  <2>7. QED
      BY <1>8, <2>1, <2>5, <2>6, DeliveredTold DEF usage, shown, calls
<1>9. QED
    BY <1>5, <1>6, <1>7, <1>8

LEMMA RepliedChain ==
    ASSUME NEW q, NEW s, NEW a, q.way = "chain", q.stream \in BOOLEAN, Answers(a), "[REDACTED]" \notin s.custom
    PROVE  ToldRight(q, s, a, Reply(q, s, a))
<1> DEFINE total == IF q.stream THEN TotalOf(a) ELSE a.total
           usage == UsageOf(a, total)
           shown == Delivery(TextOf(q, a), s)
           frames == <<RoleFrame, ContentFrame(shown), FinishFrame(EndOf(q, a), usage), DoneFrame>>
           reply == IF q.stream THEN Sse(frames) ELSE BodyOf(q, s, a, usage)
           Refusal(status, code, end) ==
             IF q.stream THEN Sse(<<ErrorFrame(code)>> \o end) ELSE JsonError(status, code)
<1>1. Reply(q, s, a) = ChainReply(q, s, a)
    BY DEF Reply
<1>2. /\ CallsOf(q, a) = <<>>
      /\ TextOf(q, a) = ChunkText(a.content)
      /\ EndOf(q, a) = Or(ExtractFinishReason(a.stop), "stop")
      /\ ByOf(q, a) = a.provider /\ AliasOf(q, a) = ServedAlias(q.served, a.provider)
    BY DEF CallsOf, TextOf, EndOf, ByOf, AliasOf, Spoke
<1>3. Withheld(q, s, a) = Forbids(TextOf(q, a), s, q.app)
    BY DEF Withheld
<1>4. ChainReply(q, s, a) =
        IF a.failed THEN ProviderFailed(q, Refusal(502, "provider_error", <<>>))
        ELSE IF Withheld(q, s, a)
        THEN Blocked(Refusal(422, "guardrail_violation", <<DoneFrame>>), ByOf(q, a), AliasOf(q, a))
        ELSE Delivered(q, a, q.served.provider, reply, usage, Kept(q, s, a))
    BY <1>2, <1>3 DEF ChainReply, Delivered, BodyOf, Kept, Spoke
<1> HIDE DEF total, usage, frames, reply, Refusal, shown
<1>5. a.failed \in BOOLEAN
    BY DEF Answers
<1>6. CASE a.failed = TRUE
  <2> DEFINE r == Refusal(502, "provider_error", <<>>)
  <2>1. /\ Understood(r) = [error |-> "provider_error"] /\ r.form # "body"
        /\ q.stream => r.form = "stream" /\ StreamEnds(r.frames, a.failed)
    <3>1. CASE q.stream = TRUE
      <4>1. r = Sse(<<ErrorFrame("provider_error")>> \o <<>>)
          BY <3>1 DEF Refusal
      <4> HIDE DEF r
      <4>2. Understood(r) = [error |-> "provider_error"] /\ r.form = "stream" /\ StreamEnds(r.frames, TRUE)
          BY <4>1, FailureIs
      <4>3. QED
          BY <1>6, <4>2
    <3>2. CASE q.stream = FALSE
      <4>1. r = JsonError(502, "provider_error")
          BY <3>2 DEF Refusal
      <4>2. r \in Refusals(502, "provider_error")
          BY <4>1 DEF Refusals
      <4> HIDE DEF r
      <4>3. Understood(r) = [error |-> "provider_error"] /\ r.form # "body"
          BY <4>2, RefusalIs
      <4>4. QED
          BY <3>2, <4>3
    <3>3. QED
        BY <3>1, <3>2
  <2>2. Reply(q, s, a) = ProviderFailed(q, r)
      BY <1>1, <1>4, <1>6
  <2> HIDE DEF r
  <2>3. QED
      BY <1>6, <2>1, <2>2, FailedTold
<1>7. CASE a.failed = FALSE /\ Withheld(q, s, a)
  <2> DEFINE r == Refusal(422, "guardrail_violation", <<DoneFrame>>)
  <2>1. /\ Understood(r) = [error |-> "guardrail_violation"] /\ r.form # "body"
        /\ r.form = "stream" => StreamEnds(r.frames, a.failed)
    <3>1. r \in Refusals(422, "guardrail_violation")
        BY DEF Refusal, Refusals
    <3> HIDE DEF r
    <3>2. QED
        BY <1>5, <3>1, RefusalIs
  <2>2. q.stream => r.form = "stream"
      BY DEF Refusal, Sse
  <2>3. Reply(q, s, a) = Blocked(r, ByOf(q, a), AliasOf(q, a))
      BY <1>1, <1>4, <1>7
  <2> HIDE DEF r
  <2>4. QED
      BY <1>7, <2>1, <2>2, <2>3, BlockedTold
<1>8. CASE a.failed = FALSE /\ ~Withheld(q, s, a)
  <2>1. Reply(q, s, a) = Delivered(q, a, q.served.provider, reply, usage, Kept(q, s, a))
      BY <1>1, <1>4, <1>8
  <2>2. shown \in Wordings
      BY <1>8, TextsAre DEF shown
  <2>3. usage.in = a.in /\ usage.out = a.out /\ total \in {a.total, TotalOf(a)}
      BY DEF usage, UsageOf, total
  <2>4. /\ Assembled(frames) = [error |-> None, text |-> shown, calls |-> CallsOf(q, a), finish |-> EndOf(q, a),
                                in |-> usage.in, out |-> usage.out]
        /\ EndsOnce(frames)
    <3>1. /\ Assembled(frames) = [error |-> None, text |-> shown, calls |-> <<>>, finish |-> EndOf(q, a),
                                  in |-> usage.in, out |-> usage.out]
          /\ EndsOnce(frames)
        BY <2>2, TextStream DEF frames
    <3>2. QED
        BY <1>2, <3>1
  <2>5. \/ reply = BodyOf(q, s, a, usage) /\ ~q.stream
        \/ /\ reply.form = "stream" /\ EndsOnce(reply.frames)
           /\ Assembled(reply.frames) = [error |-> None, text |-> shown, calls |-> CallsOf(q, a),
                                         finish |-> EndOf(q, a), in |-> a.in, out |-> a.out]
    <3>1. Sse(frames).form = "stream" /\ Sse(frames).frames = frames
        BY DEF Sse
    <3>2. QED
        BY <2>3, <2>4, <3>1 DEF reply
  <2>6. q.way # "chat"
      OBVIOUS
  <2>7. QED
      BY <1>8, <2>1, <2>3, <2>5, <2>6, DeliveredTold DEF usage, shown
<1>9. QED
    BY <1>5, <1>6, <1>7, <1>8

LEMMA RepliedChat ==
    ASSUME NEW q, NEW s, NEW a, q.way = "chat", ~q.stream, Answers(a), "[REDACTED]" \notin s.custom
    PROVE  ToldRight(q, s, a, Reply(q, s, a))
<1> DEFINE usage == UsageOf(a, a.total)
           reply == BodyOf(q, s, a, usage)
<1>1. Reply(q, s, a) = ChatReply(q, s, a)
    BY DEF Reply
<1>2. /\ CallsOf(q, a) = <<>>
      /\ TextOf(q, a) = ChunkText(a.content)
      /\ EndOf(q, a) = ExtractFinishReason(a.stop)
      /\ ByOf(q, a) = a.provider /\ AliasOf(q, a) = ServedAlias(q.served, a.provider)
    BY DEF CallsOf, TextOf, EndOf, ByOf, AliasOf, Spoke
<1>3. Withheld(q, s, a) = Forbids(TextOf(q, a), s, q.app)
    BY DEF Withheld
<1>4. ChatReply(q, s, a) =
        IF a.failed THEN ProviderFailed(q, JsonError(502, "provider_error"))
        ELSE IF Withheld(q, s, a) THEN Blocked(JsonError(422, "guardrail_violation"), ByOf(q, a), AliasOf(q, a))
        ELSE Delivered(q, a, ByOf(q, a), reply, usage, Kept(q, s, a))
    BY <1>2, <1>3 DEF ChatReply, Delivered, BodyOf, Kept, Spoke
<1> HIDE DEF usage, reply
<1>5. a.failed \in BOOLEAN
    BY DEF Answers
<1>6. CASE a.failed = TRUE
  <2>1. /\ Understood(JsonError(502, "provider_error")) = [error |-> "provider_error"]
        /\ JsonError(502, "provider_error").form # "body"
    <3> DEFINE r == JsonError(502, "provider_error")
    <3>1. r \in Refusals(502, "provider_error")
        BY DEF Refusals
    <3> HIDE DEF r
    <3>2. Understood(r) = [error |-> "provider_error"] /\ r.form # "body"
        BY <3>1, RefusalIs
    <3>3. QED
        BY <3>2 DEF r
  <2>2. Reply(q, s, a) = ProviderFailed(q, JsonError(502, "provider_error"))
      BY <1>1, <1>4, <1>6
  <2>3. QED
      BY <1>6, <2>1, <2>2, FailedTold
<1>7. CASE a.failed = FALSE /\ Withheld(q, s, a)
  <2>1. /\ Understood(JsonError(422, "guardrail_violation")) = [error |-> "guardrail_violation"]
        /\ JsonError(422, "guardrail_violation").form # "body"
    <3> DEFINE r == JsonError(422, "guardrail_violation")
    <3>1. r \in Refusals(422, "guardrail_violation")
        BY DEF Refusals
    <3> HIDE DEF r
    <3>2. Understood(r) = [error |-> "guardrail_violation"] /\ r.form # "body"
        BY <3>1, RefusalIs
    <3>3. QED
        BY <3>2 DEF r
  <2>2. Reply(q, s, a) = Blocked(JsonError(422, "guardrail_violation"), ByOf(q, a), AliasOf(q, a))
      BY <1>1, <1>4, <1>7
  <2>3. QED
      BY <1>7, <2>1, <2>2, BlockedTold
<1>8. CASE a.failed = FALSE /\ ~Withheld(q, s, a)
  <2>1. Reply(q, s, a) = Delivered(q, a, ByOf(q, a), reply, usage, Kept(q, s, a))
      BY <1>1, <1>4, <1>8
  <2>2. reply = BodyOf(q, s, a, usage) /\ ~q.stream
      BY DEF reply
  <2>3. QED
      BY <1>8, <2>1, <2>2, DeliveredTold DEF usage
<1>9. QED
    BY <1>5, <1>6, <1>7, <1>8

LEMMA Replied ==
    ASSUME NEW q, NEW s, NEW a, q.way \in {"bound", "chain", "chat"}, q.stream \in BOOLEAN,
           q.way = "chat" => ~q.stream, Answers(a), "[REDACTED]" \notin s.custom
    PROVE  ToldRight(q, s, a, Reply(q, s, a))
<1>1. CASE q.way = "bound"
    BY <1>1, RepliedBound
<1>2. CASE q.way = "chain"
    BY <1>2, RepliedChain
<1>3. CASE q.way = "chat"
    BY <1>3, RepliedChat
<1>4. QED
    BY <1>1, <1>2, <1>3

\* The turns and settings there may be.
TurnsOf(apps, roles, tools, keys) ==
    [way : {"bound", "chain", "chat"}, stream : BOOLEAN, app : apps, history : Talk(roles), tools : tools, served : keys]
FitSettings(s, apps) ==
    /\ "[REDACTED]" \notin s.custom /\ s.rules \in Seq(TextRules(apps))
    /\ \A r \in ToSet(s.rules) : r.pattern # None => "[REDACTED]" \notin ToSet(r.pattern)

LEMMA OnceOf ==
    ASSUME NEW apps, NEW roles, NEW tools, NEW keys, NEW q \in TurnsOf(apps, roles, tools, keys)
    PROVE  LET once == [q EXCEPT !.stream = FALSE]
           IN  /\ ~once.stream /\ once.stream \in BOOLEAN /\ once.way = q.way /\ once.app = q.app /\ once.history = q.history
               /\ once.tools = q.tools /\ once.served = q.served
BY DEF TurnsOf

LEMMA GistAlike ==
    ASSUME NEW q, NEW p, NEW s, NEW a, p.way = q.way, p.app = q.app, p.history = q.history, p.tools = q.tools,
           p.served = q.served
    PROVE  Gist(p, s, a) = Gist(q, s, a) /\ RecordOf(p, s, a) = RecordOf(q, s, a)
<1>1. CallsOf(p, a) = CallsOf(q, a) /\ ByOf(p, a) = ByOf(q, a) /\ AliasOf(p, a) = AliasOf(q, a)
    BY DEF CallsOf, ByOf, AliasOf
<1>2. TextOf(p, a) = TextOf(q, a) /\ EndOf(p, a) = EndOf(q, a)
    BY <1>1 DEF TextOf, EndOf
<1>3. Withheld(p, s, a) = Withheld(q, s, a)
    BY <1>2 DEF Withheld
<1>4. QED
    BY <1>1, <1>2, <1>3 DEF Gist, RecordOf

\* openaiCompat.js: for any turn, settings and answer a stream tells what one body would, and leaves the same record.
THEOREM StreamsAlwaysTellTheSame ==
    ASSUME NEW apps, NEW roles, NEW tools, NEW keys, NEW q \in TurnsOf(apps, roles, tools, keys), NEW s, NEW a,
           q.way = "chat" => ~q.stream, Answers(a), "[REDACTED]" \notin s.custom,
           exchange = [at |-> "client", q |-> q, s |-> s, a |-> a, done |-> Reply(q, s, a)]
    PROVE  StreamsTellTheSame
<1> DEFINE once == [q EXCEPT !.stream = FALSE]
           done == Reply(q, s, a)
           last == done.reply.frames[Len(done.reply.frames)]
<1>1. /\ ~once.stream /\ once.stream \in BOOLEAN /\ once.way = q.way /\ once.app = q.app /\ once.history = q.history
      /\ once.tools = q.tools /\ once.served = q.served
    BY OnceOf
<1>2. q.way \in {"bound", "chain", "chat"} /\ q.stream \in BOOLEAN
    BY DEF TurnsOf
<1> HIDE DEF once
<1>3. Gist(once, s, a) = Gist(q, s, a) /\ RecordOf(once, s, a) = RecordOf(q, s, a)
    BY <1>1, GistAlike
<1>4. ToldRight(once, s, a, Reply(once, s, a))
    BY <1>1, <1>2, Replied
<1>5. ToldRight(q, s, a, done)
    BY <1>2, Replied
<1> HIDE DEF done
<1>6. ASSUME q.stream
      PROVE  /\ Understood(done.reply) = Understood(Reply(once, s, a).reply)
             /\ done.record = Reply(once, s, a).record
             /\ StreamEnds(done.reply.frames, a.failed)
    BY <1>3, <1>4, <1>5, <1>6 DEF ToldRight
<1>7. StreamsTellTheSame <=>
        (q.stream =>
           /\ Understood(done.reply) = Understood(Reply(once, s, a).reply)
           /\ done.record = Reply(once, s, a).record
           /\ last = DoneFrame \/ (a.failed /\ last.kind = "error")
           /\ \A i \in 1..(Len(done.reply.frames) - 1) : done.reply.frames[i] # DoneFrame)
    BY DEF StreamsTellTheSame, once, done
<1>8. QED
    BY <1>6, <1>7 DEF StreamEnds

\* A rule that finds a masked text finds it as it was.
LEMMA MaskedFinds ==
    ASSUME NEW p \in Wordings, "[REDACTED]" \notin ToSet(p), NEW text \in Wordings, NEW custom,
           "[REDACTED]" \notin custom, FoundIn(p, MaskPii(text, custom))
    PROVE  FoundIn(p, text)
<1> DEFINE masked == MaskPii(text, custom)
<1>1. masked \in Wordings
    BY MaskedIsClean
<1>2. masked = [i \in DOMAIN text |-> IF text[i] \in PiiWords \cup custom THEN "[REDACTED]" ELSE text[i]]
    BY DEF MaskPii
<1>3. DOMAIN text = 1..Len(text) /\ Len(text) \in Nat /\ DOMAIN p = 1..Len(p) /\ Len(p) \in Nat
    BY DEF Wordings
<1> HIDE DEF masked
<1>4. Len(masked) = Len(text)
    BY <1>1, <1>2, <1>3 DEF Wordings
<1>5. PICK o \in Nat : o + Len(p) <= Len(masked) /\ \A k \in 1..Len(p) : p[k] = masked[o + k]
    BY <1>1, FoundMeans DEF StandsIn, masked
<1>6. ASSUME NEW k \in 1..Len(p) PROVE p[k] = text[o + k]
  <2>1. o + k \in DOMAIN text
      BY <1>3, <1>4, <1>5
  <2>2. p[k] # "[REDACTED]" /\ p[k] = masked[o + k]
      BY <1>3, <1>5 DEF ToSet
  <2>3. QED
      BY <1>2, <2>1, <2>2
<1>7. StandsIn(p, text)
    BY <1>4, <1>5, <1>6 DEF StandsIn
<1>8. QED
    BY <1>7, FoundMeans

\* What is kept of a conversation holds nothing that is to be masked.
LEMMA KeptIsClean ==
    ASSUME NEW roles, NEW h \in Talk(roles), NEW custom, "[REDACTED]" \notin custom
    PROVE  ToSet(Untrusted(MaskMessages(h, custom))) \cap (PiiWords \cup custom) = {}
<1> DEFINE MaskedPart(m, j) == [text |-> MaskPii(m.content[j].text, custom)]
           Parts(m) == [j \in DOMAIN m.content |-> MaskedPart(m, j)]
           M == MaskMessages(h, custom)
<1>1. DOMAIN h = 1..Len(h) /\ Len(h) \in Nat /\ \A i \in 1..Len(h) : h[i] \in [role : roles, content : Contents]
  <2>1. \A i \in 1..Len(h) : h[i] \in [role : roles, content : Contents]
      BY ElementOfSeq DEF Talk
  <2>2. QED
      BY <2>1 DEF Talk
<1>2. ASSUME NEW i \in 1..Len(h)
      PROVE  /\ M[i].role = h[i].role /\ M[i].content = Parts(h[i]) /\ M[i] \in [role : roles, content : Contents]
             /\ \A j \in DOMAIN M[i].content : ToSet(M[i].content[j].text) \cap (PiiWords \cup custom) = {}
  <2>1. h[i].content \in Contents /\ h[i].role \in roles
      BY <1>1
  <2>2. /\ DOMAIN h[i].content = 1..Len(h[i].content) /\ Len(h[i].content) \in Nat
        /\ \A j \in 1..Len(h[i].content) : h[i].content[j].text \in Wordings
    <3>1. \A j \in 1..Len(h[i].content) : h[i].content[j] \in [text : Wordings]
        BY <2>1, ElementOfSeq DEF Contents
    <3>2. QED
        BY <2>1, <3>1 DEF Contents
  <2>3. \A j \in 1..Len(h[i].content) :
          /\ MaskedPart(h[i], j) \in [text : Wordings] /\ MaskedPart(h[i], j).text = MaskPii(h[i].content[j].text, custom)
          /\ ToSet(MaskedPart(h[i], j).text) \cap (PiiWords \cup custom) = {}
      BY <2>2, MaskedIsClean
  <2>4. M[i] = [h[i] EXCEPT !.content = Parts(h[i])]
      BY <1>1 DEF MaskMessages
  <2> HIDE DEF MaskedPart, M
  <2>5. Parts(h[i]) = [j \in 1..Len(h[i].content) |-> MaskedPart(h[i], j)]
      BY <2>2
  <2>6. Parts(h[i]) \in Contents
      BY <2>2, <2>3, <2>5 DEF Contents
  <2>7. \A j \in DOMAIN Parts(h[i]) : ToSet(Parts(h[i])[j].text) \cap (PiiWords \cup custom) = {}
      BY <2>3, <2>5
  <2> HIDE DEF Parts
  <2>8. M[i].role = h[i].role /\ M[i].content = Parts(h[i])
      BY <1>1, <2>4
  <2>9. M[i] \in [role : roles, content : Contents]
      BY <1>1, <2>4, <2>6
  <2>10. QED
      BY <2>7, <2>8, <2>9
<1>3. M \in Talk(roles) /\ DOMAIN M = 1..Len(h)
  <2>1. DOMAIN M = 1..Len(h) /\ M = [i \in 1..Len(h) |-> M[i]]
      BY <1>1 DEF MaskMessages
  <2> HIDE DEF M
  <2> DEFINE R == [role : roles, content : Contents]
  <2>2. \A i \in 1..Len(h) : M[i] \in R
      BY <1>2
  <2> HIDE DEF R
  <2>3. M \in Seq(R)
      BY <1>1, <2>1, <2>2
  <2>4. QED
      BY <2>1, <2>3 DEF Talk, R
<1> HIDE DEF M, Parts, MaskedPart
<1>4. ASSUME NEW i \in Heard(M) PROVE ToSet(ExtractText(M[i].content)) \cap (PiiWords \cup custom) = {}
  <2>1. i \in 1..Len(h)
      BY <1>3 DEF Heard
  <2>2. M[i].content \in Contents
      BY <1>2, <2>1
  <2>3. \A k \in DOMAIN ExtractText(M[i].content) :
           \E j \in DOMAIN M[i].content : ExtractText(M[i].content)[k] \in ToSet(M[i].content[j].text)
      BY <2>2, ExtractHolds
  <2>4. \A j \in DOMAIN M[i].content : ToSet(M[i].content[j].text) \cap (PiiWords \cup custom) = {}
      BY <1>2, <2>1
  <2>5. QED
      BY <2>3, <2>4 DEF ToSet
<1>5. ToSet(Untrusted(M)) \subseteq UNION {ToSet(ExtractText(M[i].content)) : i \in Heard(M)}
    BY <1>3, UntrustedHolds
<1>6. QED
    BY <1>4, <1>5 DEF M

\* outputGuardrail.js, logger.js: for any turn, settings and answer nothing is delivered or kept that the rules
\* or the masks forbid, if no rule looks for the very word that masks put in.
THEOREM DeliveredAlwaysFit ==
    ASSUME NEW apps, NEW roles, NEW tools, NEW keys, NEW q \in TurnsOf(apps, roles, tools, keys), NEW s, NEW a,
           q.way = "chat" => ~q.stream, Answers(a), NEW named, FitSettings(s, named),
           exchange = [at |-> "client", q |-> q, s |-> s, a |-> a, done |-> Reply(q, s, a)]
    PROVE  DeliveredIsFit
<1> DEFINE done == Reply(q, s, a)
           told == Understood(done.reply)
           rec == done.record
           pii == PiiWords \cup s.custom
           text == Delivery(TextOf(q, a), s)
<1>1. told = Gist(q, s, a) /\ rec = RecordOf(q, s, a)
  <2>1. q.way \in {"bound", "chain", "chat"} /\ q.stream \in BOOLEAN
      BY DEF TurnsOf
  <2>2. ToldRight(q, s, a, done)
      BY <2>1, Replied DEF FitSettings
  <2>3. QED
      BY <2>2 DEF ToldRight
<1>2. DeliveredIsFit <=>
        /\ told.error = None =>
             /\ s.guard => \A r \in ToSet(s.rules) :
                  r.pattern # None /\ r.app \in {"*", q.app} => ~FoundIn(r.pattern, told.text)
             /\ s.mask => ToSet(told.text) \cap pii = {}
        /\ s.maskKept /\ rec.kept # Unkept =>
             /\ ToSet(rec.kept.text) \cap pii = {}
             /\ ToSet(Untrusted(rec.kept.messages)) \cap pii = {}
        /\ (told.error = "guardrail_violation") = (rec.status = "blocked")
        /\ rec.status # "success" => rec.kept = Unkept
    BY DEF DeliveredIsFit
<1> HIDE DEF told, rec, done
<1>3. "provider_error" # None /\ "guardrail_violation" # None
    BY NoneIsNoCode DEF Codes
<1>4. \A status, provider, alias, usage, entry :
        /\ Note(status, provider, alias, usage, entry).status = status
        /\ Note(status, provider, alias, usage, entry).kept = entry
    BY DEF Note
<1>5. CASE a.failed
  <2>1. told.error = "provider_error" /\ rec.status = "failure" /\ rec.kept = Unkept
      BY <1>1, <1>4, <1>5 DEF Gist, RecordOf
  <2>2. QED
      BY <1>2, <1>3, <2>1
<1>6. CASE ~a.failed /\ Withheld(q, s, a)
  <2>1. told.error = "guardrail_violation" /\ rec.status = "blocked" /\ rec.kept = Unkept
      BY <1>1, <1>4, <1>6 DEF Gist, RecordOf
  <2>2. QED
      BY <1>2, <1>3, <2>1
<1>7. CASE ~a.failed /\ ~Withheld(q, s, a)
  <2>1. told.error = None /\ told.text = text /\ rec.status = "success"
        /\ rec.kept = PayloadFields(q.history, Spoke(a), s)
    <3> HIDE DEF text
    <3>1. Gist(q, s, a) = [error |-> None, text |-> text, calls |-> CallsOf(q, a), finish |-> EndOf(q, a),
                           in |-> a.in, out |-> a.out]
        BY <1>7 DEF Gist, text
    <3>2. RecordOf(q, s, a) = Note("success", ByOf(q, a), AliasOf(q, a), UsageOf(a, TotalOf(a)),
                                PayloadFields(q.history, Spoke(a), s))
        BY <1>7 DEF RecordOf
    <3>3. QED
        BY <1>1, <1>4, <3>1, <3>2
  <2>2. Spoke(a) \in Wordings /\ TextOf(q, a) \in Wordings
      BY <1>7, TextsAre DEF FitSettings
  <2>3. ASSUME s.guard, NEW r \in ToSet(s.rules), r.pattern # None, r.app \in {"*", q.app}
        PROVE  ~FoundIn(r.pattern, text)
    <3>1. s.rules \in Seq(TextRules(named))
        BY DEF FitSettings
    <3>2. ~FoundIn(r.pattern, TextOf(q, a))
      <4>1. ~Check(TextOf(q, a), s.rules, q.app)
          BY <1>7, <2>3 DEF Withheld, Forbids
      <4>2. Check(TextOf(q, a), s.rules, q.app) <=>
               \E x \in ToSet(s.rules) : InForce(x, q.app) /\ FoundIn(x.pattern, TextOf(q, a))
          BY <2>2, <3>1, CheckMeans
      <4>3. QED
          BY <2>3, <4>1, <4>2 DEF InForce
    <3>3. r.pattern \in Wordings /\ "[REDACTED]" \notin ToSet(r.pattern) /\ "[REDACTED]" \notin s.custom
      <4>1. r \in TextRules(named)
          BY <2>3, <3>1 DEF ToSet
      <4>2. QED
          BY <2>3, <4>1 DEF TextRules, FitSettings
    <3>4. CASE s.mask
      <4>1. text = MaskPii(TextOf(q, a), s.custom)
          BY <3>4 DEF Delivery
      <4> HIDE DEF text
      <4>2. QED
          BY <2>2, <3>2, <3>3, <4>1, MaskedFinds
    <3>5. CASE ~s.mask
        BY <3>2, <3>5 DEF Delivery
    <3>6. QED
        BY <3>4, <3>5
  <2>4. ASSUME s.mask PROVE ToSet(text) \cap pii = {}
    <3>1. text = MaskPii(TextOf(q, a), s.custom)
        BY <2>4 DEF Delivery
    <3> HIDE DEF text
    <3>2. QED
        BY <2>2, <3>1, MaskedIsClean DEF FitSettings
  <2>5. ASSUME s.maskKept, rec.kept # Unkept
        PROVE  ToSet(rec.kept.text) \cap pii = {} /\ ToSet(Untrusted(rec.kept.messages)) \cap pii = {}
    <3>1. rec.kept.text = MaskPii(Spoke(a), s.custom) /\ rec.kept.messages = MaskMessages(q.history, s.custom)
        BY <2>1, <2>5 DEF PayloadFields
    <3>2. q.history \in Talk(roles)
        BY DEF TurnsOf
    <3>3. QED
        BY <2>2, <3>1, <3>2, MaskedIsClean, KeptIsClean DEF FitSettings
  <2> HIDE DEF pii, text
  <2>6. "guardrail_violation" # told.error /\ rec.status # "blocked"
      BY <1>3, <2>1
  <2>7. QED
      BY <1>2, <2>1, <2>3, <2>4, <2>5, <2>6
<1>8. QED
    BY <1>5, <1>6, <1>7

\* handler.js, openaiCompat.js: for any turn, settings and answer the record is of the provider that answered.
THEOREM RecordAlwaysOfTheReply ==
    ASSUME NEW q, NEW s, NEW a, q.way \in {"bound", "chain", "chat"}, q.stream \in BOOLEAN,
           q.way = "chat" => ~q.stream, Answers(a), "[REDACTED]" \notin s.custom,
           exchange = [at |-> "client", q |-> q, s |-> s, a |-> a, done |-> Reply(q, s, a)]
    PROVE  RecordIsOfTheReply
<1> DEFINE done == Reply(q, s, a)
           rec == done.record
<1>1. ToldRight(q, s, a, done)
    BY Replied
<1>2. RecordIsOfTheReply <=>
        (done.reply.form = "body" =>
           /\ rec.status = "success" /\ rec.provider = done.by
           /\ rec.alias # None => rec.alias = q.served.alias /\ done.by = q.served.provider
           /\ rec.usage.in = done.reply.body.usage.in /\ rec.usage.out = done.reply.body.usage.out
           /\ q.way = "chat" => done.heading = done.by)
    BY DEF RecordIsOfTheReply
<1> HIDE DEF done
<1>3. SUFFICES ASSUME done.reply.form = "body"
               PROVE  /\ rec.status = "success" /\ rec.provider = done.by
                      /\ rec.alias # None => rec.alias = q.served.alias /\ done.by = q.served.provider
                      /\ rec.usage.in = done.reply.body.usage.in /\ rec.usage.out = done.reply.body.usage.out
                      /\ q.way = "chat" => done.heading = done.by
    BY <1>2
<1>4. /\ ~a.failed /\ ~Withheld(q, s, a) /\ done.by = ByOf(q, a)
      /\ done.reply.body.usage.in = a.in /\ done.reply.body.usage.out = a.out
      /\ q.way = "chat" => done.heading = done.by
    BY <1>1, <1>3 DEF ToldRight
<1>5. rec = Note("success", ByOf(q, a), AliasOf(q, a), UsageOf(a, TotalOf(a)), Kept(q, s, a))
    BY <1>1, <1>4 DEF ToldRight, RecordOf, Kept
<1>6. /\ rec.status = "success" /\ rec.provider = ByOf(q, a) /\ rec.alias = AliasOf(q, a)
      /\ rec.usage = UsageOf(a, TotalOf(a))
  <2>1. a.in \in Int /\ a.out \in Int /\ a.total \in Int
      BY <1>4 DEF Answers
  <2>2. rec.usage = Counted(UsageOf(a, TotalOf(a)))
      BY <1>5 DEF Note
  <2>3. rec.usage = UsageOf(a, TotalOf(a))
      BY <2>1, <2>2, CountedAlike
  <2>4. QED
      BY <1>5, <2>3 DEF Note
<1>7. rec.usage.in = a.in /\ rec.usage.out = a.out
    BY <1>6 DEF UsageOf
<1>8. AliasOf(q, a) # None => AliasOf(q, a) = q.served.alias /\ ByOf(q, a) = q.served.provider
    BY DEF AliasOf, ByOf, ServedAlias
<1>9. QED
    BY <1>4, <1>6, <1>7, <1>8

\* The exchanges there are.
Speakers == {"user", "system", "assistant", "tool"}
Named == {"*", "a", "b"}
AtADoor(door, q, s) == [at |-> "door", door |-> door, q |-> q, s |-> s, met |-> AtDoor(door, q, s)]
AtAProvider(q) ==
    [at |-> "provider", q |-> q,
     tokens |-> TokensSent(q.tokens, q.guardrail, "decided", q.served, q.ceiling),
     told |-> TranslateToolCalls(q.calls), turn |-> ToLcMessages(TurnOf(TranslateToolCalls(q.calls)))]
AtAClient(q, s, a) == [at |-> "client", q |-> q, s |-> s, a |-> a, done |-> Reply(q, s, a)]

RepliesReached ==
    \/ exchange = NoExchange
    \/ \E door \in Doors, q \in Knocks, s \in DoorSettings : exchange = AtADoor(door, q, s)
    \/ \E q \in Wants : exchange = AtAProvider(q)
    \/ \E q \in Turns, s \in Settings, a \in Results :
          (q.way = "chat" => ~q.stream) /\ exchange = AtAClient(q, s, a)

RepliesSpec == RepliesInit /\ [][RepliesNext]_exchange

LEMMA RepliesAlwaysReached == RepliesSpec => []RepliesReached
<1>1. RepliesInit => RepliesReached
    BY DEF RepliesInit, RepliesReached
<1>2. RepliesReached /\ [RepliesNext]_exchange => RepliesReached'
  <2>1. SUFFICES ASSUME RepliesReached, [RepliesNext]_exchange PROVE RepliesReached'
      OBVIOUS
  <2>2. ASSUME NEW door \in {"chat", "completions"}, NEW q \in Knocks, NEW s \in DoorSettings, Knock(door, q, s)
        PROVE  RepliesReached'
    <3>1. exchange' = AtADoor(door, q, s) /\ door \in Doors
        BY <2>2 DEF Knock, AtADoor, Doors
    <3>2. QED
        BY <3>1 DEF RepliesReached
  <2>3. ASSUME NEW q \in Wants, Order(q) PROVE RepliesReached'
    <3>1. exchange' = AtAProvider(q)
        BY <2>3 DEF Order, AtAProvider, TurnOf, ToolsOf
    <3>2. QED
        BY <3>1 DEF RepliesReached
  <2>4. ASSUME NEW q \in Turns, NEW s \in Settings, NEW a \in Results, Deliver(q, s, a) PROVE RepliesReached'
    <3>1. exchange' = AtAClient(q, s, a) /\ (q.way = "chat" => ~q.stream)
        BY <2>4 DEF Deliver, AtAClient
    <3>2. QED
        BY <3>1 DEF RepliesReached
  <2>5. ASSUME Part PROVE RepliesReached'
      BY <2>5 DEF Part, RepliesReached
  <2>6. ASSUME UNCHANGED exchange PROVE RepliesReached'
      BY <2>1, <2>6 DEF RepliesReached
  <2>7. QED
      BY <2>1, <2>2, <2>3, <2>4, <2>5, <2>6 DEF RepliesNext
<1>3. QED
    BY <1>1, <1>2, PTL DEF RepliesSpec

\* The samples are what requests, settings and answers may be.
LEMMA SampleTexts ==
    /\ \A w \in {"ignore", "rules", "well", "secret", "phone"} : w \in Words /\ <<w>> \in Wordings
    /\ <<>> \in Wordings /\ <<"ignore", "rules">> \in Wordings /\ <<"well", "phone", "secret">> \in Wordings
    /\ <<"phone", "well">> \in Wordings
<1>1. \A w \in {"ignore", "rules", "well", "secret", "phone"} : w \in Words
    BY RepliesAssumption DEF RepliesAssumption
<1>2. \A w \in Words : <<w>> \in Wordings
    BY DEF Wordings
<1>3. \A v, w \in Words : <<v, w>> \in Wordings
    BY DEF Wordings
<1>4. \A u, v, w \in Words : <<u, v, w>> \in Wordings
    BY DEF Wordings
<1>5. <<>> \in Wordings
    BY DEF Wordings
<1>6. QED
    BY <1>1, <1>2, <1>3, <1>4, <1>5

LEMMA SampleSayings ==
    ASSUME NEW role \in Speakers, NEW text \in Wordings
    PROVE  Says(role, text) \in [role : Speakers, content : Contents]
<1>1. <<[text |-> text]>> \in Contents
    BY DEF Contents
<1>2. QED
    BY <1>1 DEF Says

LEMMA SampleTalk == \A l \in Lists : l \in Talk(Speakers)
<1> DEFINE R == [role : Speakers, content : Contents]
<1>1. /\ Says("user", <<"ignore", "rules">>) \in R /\ Says("system", <<"ignore", "rules">>) \in R
      /\ Says("user", <<"ignore">>) \in R /\ Says("assistant", <<"well">>) \in R /\ Says("tool", <<"rules">>) \in R
      /\ Says("assistant", <<"secret">>) \in R /\ Says("tool", <<"secret">>) \in R
  <2>1. "user" \in Speakers /\ "system" \in Speakers /\ "assistant" \in Speakers /\ "tool" \in Speakers
      BY DEF Speakers
  <2>2. /\ <<"ignore">> \in Wordings /\ <<"rules">> \in Wordings /\ <<"well">> \in Wordings
        /\ <<"secret">> \in Wordings /\ <<"ignore", "rules">> \in Wordings
      BY SampleTexts
  <2> HIDE DEF R
  <2>3. \A role \in Speakers, text \in Wordings : Says(role, text) \in R
      BY SampleSayings DEF R
  <2>4. QED
      BY <2>1, <2>2, <2>3
<1> HIDE DEF R
<1>2. <<>> \in Seq(R) /\ (\A x \in R : <<x>> \in Seq(R)) /\ (\A x, y \in R : <<x, y>> \in Seq(R))
      /\ (\A x, y, z \in R : <<x, y, z>> \in Seq(R))
    OBVIOUS
<1>3. \A l \in Lists : l \in Seq(R)
    BY <1>1, <1>2 DEF Lists
<1>4. QED
    BY <1>3 DEF Talk, R

LEMMA SampleMessages == Messages \subseteq Sent(Speakers)
<1>1. [kind |-> "other"] \in [kind : {"other"}]
    OBVIOUS
<1>2. [kind |-> "text", text |-> <<"ignore", "rules">>] \in [kind : {"text"}, text : Wordings]
    BY SampleTexts
<1>3. \A l \in Lists : [kind |-> "list", list |-> l] \in [kind : {"list"}, list : Talk(Speakers)]
    BY SampleTalk
<1>4. \A m \in Messages : \/ m = [kind |-> "other"] \/ m = [kind |-> "text", text |-> <<"ignore", "rules">>]
                          \/ \E l \in Lists : m = [kind |-> "list", list |-> l]
    BY DEF Messages
<1>5. QED
    BY <1>1, <1>2, <1>3, <1>4 DEF Sent

LEMMA SampleRules ==
    /\ RuleLists \subseteq Seq(TextRules(Named))
    /\ \A rules \in RuleLists : \A r \in ToSet(rules) : r.pattern # None => "[REDACTED]" \notin ToSet(r.pattern)
<1> DEFINE R == TextRules(Named)
           secret == <<"secret">>
<1>1. secret \in Wordings \ {<<>>}
  <2>1. secret \in Wordings /\ Len(secret) = 1 /\ Len(<<>>) = 0
      BY SampleTexts
  <2> HIDE DEF secret
  <2>2. QED
      BY <2>1
<1>2. "[REDACTED]" \notin ToSet(secret)
    BY DEF ToSet
<1> HIDE DEF secret
<1>3. RuleFor("*", None) \in R /\ RuleFor("b", secret) \in R /\ RuleFor("a", secret) \in R
    BY <1>1 DEF RuleFor, TextRules, Named
<1>4. /\ RuleFor("*", None).pattern = None /\ RuleFor("b", secret).pattern = secret
      /\ RuleFor("a", secret).pattern = secret
    BY DEF RuleFor
<1>5. RuleLists = {<<>>, <<RuleFor("*", None), RuleFor("b", secret)>>, <<RuleFor("a", secret)>>}
    BY DEF RuleLists, secret
<1> HIDE DEF R
<1>6. \A rules \in RuleLists : rules \in Seq(R)
  <2> DEFINE x == RuleFor("*", None)
             y == RuleFor("b", secret)
             z == RuleFor("a", secret)
  <2>1. x \in R /\ y \in R /\ z \in R
      BY <1>3
  <2> HIDE DEF x, y, z
  <2>2. <<>> \in Seq(R) /\ <<x, y>> \in Seq(R) /\ <<z>> \in Seq(R)
      BY <2>1
  <2>3. QED
      BY <1>5, <2>2 DEF x, y, z
<1>7. \A rules \in RuleLists : \A r \in ToSet(rules) : r.pattern = None \/ r.pattern = secret
  <2> DEFINE x == RuleFor("*", None)
             y == RuleFor("b", secret)
             z == RuleFor("a", secret)
  <2> HIDE DEF x, y, z
  <2>1. ToSet(<<>>) = {} /\ ToSet(<<x, y>>) = {x, y} /\ ToSet(<<z>>) = {z}
      BY DEF ToSet
  <2>2. QED
      BY <1>4, <1>5, <2>1 DEF x, y, z
<1>8. QED
    BY <1>2, <1>6, <1>7 DEF R

LEMMA SampleCalls == \A calls \in CallLists : ApartCalls(calls)
<1> DEFINE x == ACall(<<"own", "x">>, ArgsObject("v"))
           y == ACall(None, ArgsText("malformed"))
           z == ACall(None, NoArgs)
           w == ACall(None, ArgsText("v"))
<1>1. x.id = <<"own", "x">> /\ y.id = None /\ z.id = None /\ w.id = None
    BY DEF ACall
<1>2. <<"own", "x">>[1] = "own"
    OBVIOUS
<1>3. \A calls \in CallLists : calls = <<>> \/ calls = <<x, y>> \/ calls = <<z, w>>
    BY DEF CallLists
<1> HIDE DEF x, y, z, w
<1>4. ApartCalls(<<>>)
    BY DEF ApartCalls
<1>5. ApartCalls(<<x, y>>)
  <2> DEFINE c == <<x, y>>
  <2>1. Len(c) = 2 /\ DOMAIN c = 1..2 /\ 1..2 = {1, 2} /\ c[1] = x /\ c[2] = y
      OBVIOUS
  <2> HIDE DEF c
  <2>2. \A i \in DOMAIN c : c[i].id # None => i = 1 /\ c[i].id[1] = "own"
      BY <1>1, <1>2, <2>1
  <2>3. QED
      BY <2>1, <2>2 DEF ApartCalls, c
<1>6. ApartCalls(<<z, w>>)
  <2> DEFINE c == <<z, w>>
  <2>1. Len(c) = 2 /\ DOMAIN c = 1..2 /\ 1..2 = {1, 2} /\ c[1] = z /\ c[2] = w
      OBVIOUS
  <2> HIDE DEF c
  <2>2. \A i \in DOMAIN c : c[i].id = None
      BY <1>1, <2>1
  <2>3. QED
      BY <2>1, <2>2 DEF ApartCalls, c
<1>7. QED
    BY <1>3, <1>4, <1>5, <1>6

LEMMA SampleWants ==
    ASSUME NEW q \in Wants
    PROVE  q.tokens \in KnownLimits /\ q.guardrail \in KnownLimits /\ q.ceiling[q.served] \in KnownLimits /\ ApartCalls(q.calls)
<1>1. Limits \subseteq KnownLimits
    BY DEF Limits, KnownLimits
<1>2. /\ q.tokens \in Limits /\ q.guardrail \in Limits /\ q.served \in {"decided", "light"}
      /\ q.ceiling \in [{"decided", "light"} -> Limits] /\ q.calls \in CallLists
    BY DEF Wants
<1>3. q.ceiling[q.served] \in Limits
    BY <1>2
<1>4. QED
    BY <1>1, <1>2, <1>3, SampleCalls

LEMMA SampleTurns ==
    Turns \subseteq TurnsOf({"a"}, Speakers, {<<>>, <<"f">>}, [provider : {"p"}, alias : {None, "team"}])
<1> DEFINE said == Says("user", <<"phone", "well">>)
<1>1. said \in [role : Speakers, content : Contents]
    BY SampleSayings, SampleTexts DEF Speakers
<1>2. Histories = {<<said>>}
    BY DEF Histories
<1> HIDE DEF said
<1>3. Histories \subseteq Talk(Speakers)
    BY <1>1, <1>2 DEF Talk
<1>4. QED
    BY <1>3 DEF Turns, TurnsOf

LEMMA SampleSettings == \A s \in Settings : FitSettings(s, Named)
<1>1. SUFFICES ASSUME NEW s \in Settings PROVE FitSettings(s, Named)
    OBVIOUS
<1>2. s.custom = {"well"} /\ s.rules \in RuleLists
    BY DEF Settings
<1>3. QED
    BY <1>2, SampleRules DEF FitSettings

LEMMA SampleAnswers == \A a \in Results : Answers(a)
<1>1. SUFFICES ASSUME NEW a \in Results PROVE Answers(a)
    OBVIOUS
<1> DEFINE texts == {<<[text |-> t]>> : t \in Spoken}
<1>2. \A t \in texts : t \in Contents
  <2>1. \A t \in Spoken : t \in Wordings
      BY SampleTexts DEF Spoken
  <2>2. \A t \in Wordings : <<[text |-> t]>> \in Contents
      BY DEF Contents
  <2>3. QED
      BY <2>1, <2>2
<1> HIDE DEF texts
<1>3. CASE a = [failed |-> TRUE]
  <2>1. a.failed = TRUE
      BY <1>3
  <2>2. QED
      BY <2>1 DEF Answers
<1>4. CASE a # [failed |-> TRUE]
  <2>1. a \in [failed : {FALSE}, content : texts, calls : CallLists, provider : {"p", "q"}, in : {2}, out : {1},
               total : {0, 4}, stop : {None, "max_tokens"}]
      BY <1>4 DEF Results, texts
  <2>2. /\ a.failed = FALSE /\ a.content \in texts /\ a.calls \in CallLists /\ a.in = 2 /\ a.out = 1
        /\ a.total \in {0, 4}
      BY <2>1
  <2>3. Len(a.calls) \in Nat /\ DOMAIN a.calls = 1..Len(a.calls)
      BY <2>2, SampleCalls DEF ApartCalls
  <2>4. a.failed \in BOOLEAN
      BY <2>2
  <2>5. a.content \in Contents /\ a.in \in Int /\ a.out \in Int /\ a.total \in Int
      BY <1>2, <2>2
  <2>6. QED
      BY <2>3, <2>4, <2>5 DEF Answers
<1>5. QED
    BY <1>3, <1>4

\* What each property is about.
LEMMA NotUnderWay ==
    /\ exchange.at # "door" => DoorsAgree /\ InjectionIsFound
    /\ exchange.at # "provider" => TokensAreClamped /\ ToolTurnsClose
    /\ exchange.at # "client" => StreamsTellTheSame /\ DeliveredIsFit /\ RecordIsOfTheReply
BY DEF DoorsAgree, InjectionIsFound, TokensAreClamped, ToolTurnsClose, StreamsTellTheSame, DeliveredIsFit,
       RecordIsOfTheReply

LEMMA ReachedIsSound == RepliesReached => RepliesAreSound
<1>1. ASSUME exchange = NoExchange PROVE RepliesAreSound
  <2>1. exchange.at = "none"
      BY <1>1 DEF NoExchange
  <2>2. QED
      BY <2>1, NotUnderWay DEF RepliesAreSound
<1>2. ASSUME NEW door \in Doors, NEW q \in Knocks, NEW s \in DoorSettings, exchange = AtADoor(door, q, s)
      PROVE  RepliesAreSound
  <2>1. exchange = [at |-> "door", door |-> door, q |-> q, s |-> s, met |-> AtDoor(door, q, s)]
      BY <1>2 DEF AtADoor
  <2>2. exchange.at = "door"
      BY <2>1
  <2>3. DoorsAgree
      BY <2>1, DoorsAlwaysAgree
  <2>4. q.messages \in Sent(Speakers) /\ s.injectionRules \in Seq(TextRules(Named))
    <3>1. q.messages \in Messages /\ s.injectionRules \in RuleLists
        BY DEF Knocks, DoorSettings
    <3>2. QED
        BY <3>1, SampleMessages, SampleRules
  <2>5. InjectionIsFound
      BY <2>1, <2>4, InjectionAlwaysFound
  <2>6. QED
      BY <2>2, <2>3, <2>5, NotUnderWay DEF RepliesAreSound
<1>3. ASSUME NEW q \in Wants, exchange = AtAProvider(q) PROVE RepliesAreSound
  <2>1. /\ exchange.at = "provider" /\ exchange.q = q
        /\ exchange.tokens = TokensSent(q.tokens, q.guardrail, "decided", q.served, q.ceiling)
        /\ exchange.told = TranslateToolCalls(q.calls)
        /\ exchange.turn = ToLcMessages(TurnOf(TranslateToolCalls(q.calls)))
      BY <1>3 DEF AtAProvider
  <2>2. q.tokens \in KnownLimits /\ q.guardrail \in KnownLimits /\ q.ceiling[q.served] \in KnownLimits /\ ApartCalls(q.calls)
      BY SampleWants
  <2>3. TokensAreClamped
      BY <2>1, <2>2, TokensAlwaysClamped
  <2>4. ToolTurnsClose
      BY <2>1, <2>2, ToolTurnsAlwaysClose
  <2>5. QED
      BY <2>1, <2>3, <2>4, NotUnderWay DEF RepliesAreSound
<1>4. ASSUME NEW q \in Turns, NEW s \in Settings, NEW a \in Results, q.way = "chat" => ~q.stream,
             exchange = AtAClient(q, s, a)
      PROVE  RepliesAreSound
  <2>1. exchange = [at |-> "client", q |-> q, s |-> s, a |-> a, done |-> Reply(q, s, a)]
      BY <1>4 DEF AtAClient
  <2>2. exchange.at = "client"
      BY <2>1
  <2> DEFINE keys == [provider : {"p"}, alias : {None, "team"}]
             tools == {<<>>, <<"f">>}
             apps == {"a"}
  <2>3. q \in TurnsOf(apps, Speakers, tools, keys) /\ FitSettings(s, Named) /\ Answers(a)
      BY SampleTurns, SampleSettings, SampleAnswers
  <2> HIDE DEF keys, tools, apps
  <2>4. "[REDACTED]" \notin s.custom
      BY <2>3 DEF FitSettings
  <2>5. q.way \in {"bound", "chain", "chat"} /\ q.stream \in BOOLEAN
      BY <2>3 DEF TurnsOf
  <2>6. StreamsTellTheSame
      BY <1>4, <2>1, <2>3, <2>4, StreamsAlwaysTellTheSame
  <2>7. DeliveredIsFit
      BY <1>4, <2>1, <2>3, DeliveredAlwaysFit
  <2>8. RecordIsOfTheReply
      BY <1>4, <2>1, <2>3, <2>4, <2>5, RecordAlwaysOfTheReply
  <2>9. QED
      BY <2>2, <2>6, <2>7, <2>8, NotUnderWay DEF RepliesAreSound
<1>5. QED
    BY <1>1, <1>2, <1>3, <1>4 DEF RepliesReached

\* openaiCompat.js, handler.js and the files they call: whatever exchange is under way, both doors
\* treat it alike, and the client and the record are told what is fit and the same in both forms.
THEOREM RepliesAlwaysSound == RepliesSpec => []RepliesAreSound
<1>1. QED
    BY RepliesAlwaysReached, ReachedIsSound, PTL

-----------------------------------------------------------------------------
(* All of them together. *)

\* A step of the whole is a step of one component, which the others do not see.
LEMMA OneMoves ==
    ASSUME [GatewayNext]_AllVars
    PROVE  /\ [RoutingNext]_RoutingVars /\ [Next]_vars /\ [CacheNext]_CacheVars
           /\ [ConfigNext]_ConfigVars /\ [RateNext]_RateVars /\ [SignInNext]_SignInVars
           /\ [PolicyNext]_PolicyVars /\ [ClassifierNext]_ClassifierVars
           /\ [InternalNext]_InternalVars /\ [ScoresNext]_ScoreVars /\ [RepliesNext]_exchange
<1>1. \/ RoutingNext \/ UNCHANGED RoutingVars
    BY DEF GatewayNext, AllVars
<1>2. \/ Next \/ UNCHANGED vars
    BY DEF GatewayNext, AllVars
<1>3. \/ CacheNext \/ UNCHANGED CacheVars
    BY DEF GatewayNext, AllVars
<1>4. \/ ConfigNext \/ UNCHANGED ConfigVars
    BY DEF GatewayNext, AllVars
<1>5. \/ RateNext \/ UNCHANGED RateVars
    BY DEF GatewayNext, AllVars
<1>6. \/ SignInNext \/ UNCHANGED SignInVars
    BY DEF GatewayNext, AllVars
<1>7. \/ PolicyNext \/ UNCHANGED PolicyVars
    BY DEF GatewayNext, AllVars
<1>8. \/ ClassifierNext \/ UNCHANGED ClassifierVars
    BY DEF GatewayNext, AllVars
<1>9. \/ InternalNext \/ UNCHANGED InternalVars
    BY DEF GatewayNext, AllVars
<1>10. \/ ScoresNext \/ UNCHANGED ScoreVars
    BY DEF GatewayNext, AllVars
<1>11. \/ RepliesNext \/ UNCHANGED exchange
    BY DEF GatewayNext, AllVars
<1>12. QED
    BY <1>1, <1>2, <1>3, <1>4, <1>5, <1>6, <1>7, <1>8, <1>9, <1>10, <1>11

\* What is proved of each component holds of all of them side by side.
LEMMA GatewayImplies ==
    GatewaySpec => /\ RoutingSpec /\ Spec /\ CacheSpec /\ ConfigSpec /\ RateSpec /\ SignInSpec
                   /\ PolicySpec /\ ClassifierSpec /\ InternalSpec /\ ScoresSpec /\ RepliesSpec
<1>1. GatewayInit => /\ RoutingInit /\ Init /\ CacheInit /\ ConfigInit /\ RateInit /\ SignInInit
                     /\ PolicyInit /\ ClassifierInit /\ InternalInit /\ ScoresInit
                     /\ RepliesInit
    BY DEF GatewayInit
<1>2. [GatewayNext]_AllVars => /\ [RoutingNext]_RoutingVars /\ [Next]_vars /\ [CacheNext]_CacheVars
                               /\ [ConfigNext]_ConfigVars /\ [RateNext]_RateVars /\ [SignInNext]_SignInVars
                               /\ [PolicyNext]_PolicyVars /\ [ClassifierNext]_ClassifierVars
                               /\ [InternalNext]_InternalVars /\ [ScoresNext]_ScoreVars
                               /\ [RepliesNext]_exchange
    BY OneMoves
<1>3. QED
    BY <1>1, <1>2, PTL DEF GatewaySpec, RoutingSpec, Spec, CacheSpec, ConfigSpec, RateSpec, SignInSpec,
                           PolicySpec, ClassifierSpec, InternalSpec, ScoresSpec, RepliesSpec

\* Pool, routing, configuration and rate limits keep to the states the code can be in,
\* for any deployment.
THEOREM GatewayTypeCorrect == GatewaySpec => []GatewayTypeOK
<1>1. Spec => []TypeOK
    BY TypeCorrect
<1>2. QED
    BY <1>1, GatewayImplies, RoutingTypeCorrect, ConfigTypeCorrect, RateTypeCorrect, PTL DEF GatewayTypeOK

\* The properties of the components hold of all of them side by side, for any deployment.
THEOREM GatewayAlwaysSafe ==
    GatewaySpec => /\ [](/\ NeverUndercounted /\ TrialsAreForTheRecovering /\ RecordIsOfTheAnswer
                         /\ CachesAreSound /\ StalenessBounded /\ LimitsHold /\ AdministratorsRule
                         /\ HelpersAreExact)
                   /\ ClaimsAreSpaced /\ RoutingIsGoverned /\ GeneratedIsBest
<1>1. Spec => []NeverUndercounted /\ []TrialsAreForTheRecovering /\ ClaimsAreSpaced
    BY NeverUndercountedAlways, TrialsCorrect, ClaimsSpaced, PTL
<1>2. RoutingSpec => []RecordIsOfTheAnswer /\ RoutingIsGoverned
    BY RecordAlwaysOfTheAnswer, GatewayKeepsItsPromise, PTL
<1>3. PolicySpec => []PickIsWarranted /\ GeneratedIsBest
    BY PickAlwaysWarranted, GeneratedAlwaysBest, PTL
<1>4. QED
    BY <1>1, <1>2, <1>3, GatewayImplies, CachesAlwaysSound, StalenessAlwaysBounded, LimitsAlwaysHold,
       AdministratorsAlwaysRule, AlwaysClassifiedRightly, ScoresAlwaysHold, CallsAlwaysAccounted,
       RepliesAlwaysSound, PTL DEF HelpersAreExact
=============================================================================
