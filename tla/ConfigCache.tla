----------------------------- MODULE ConfigCache -----------------------------
(* The read-through caches of configuration, with their times: the Settings  *)
(* document (5 s), the guardrail policy and the AI policy derived from it      *)
(* (5 s each, on top), the enabled rules (5 s) and the configuration of an      *)
(* application (30 s, bounded). One of them, the subject, is looked at.         *)
(* src/server/src: models/Settings.js, routing/policy.js, routing/aiPolicy.js, *)
(* routing/ruleEngine.js, gateway/handler.js, api/routes/appConfigs.js,         *)
(* api/routes/governance.js, api/routes/policy.js, api/routes/rules.js.         *)
EXTENDS Deployment

CONSTANTS Lookups,      \* requests that read the configuration
          Lifetime,     \* the five seconds, in units of time
          AppLifetime,  \* the thirty seconds
          QueryTime,    \* bound on the time a query takes
          ConfigEdits   \* bound on the edits

ASSUME ConfigAssumption ==
    Lifetime \in Nat /\ AppLifetime \in Nat /\ QueryTime \in Nat /\ ConfigEdits \in Nat

VARIABLES subject,    \* which configuration is looked at
          written,    \* its stored value: the number of the edit that wrote it
          slot,       \* its cache in each process
          settings,   \* the cached Settings document, where the subject derives from it
          lookup,     \* reads under way
          edit,       \* the edit under way
          edited      \* edits begun

ConfigVars == <<subject, written, slot, settings, lookup, edit, edited>>

Derived == {"guardrail", "ai"}          \* read from the Settings document
Direct == {"settings", "rules", "app"}  \* read from the store

\* A rule list is used while its age is at most its lifetime, the others while it is less.
LifeOf(s) == IF s = "app" THEN AppLifetime ELSE IF s = "rules" THEN Lifetime + 1 ELSE Lifetime

Blank == [v |-> None, left |-> 0, wrong |-> 0]
NoLookup == [pc |-> "idle", at |-> None, v |-> None, wrong |-> 0, left |-> 0]
NoEdit == [pc |-> "idle", at |-> None, v |-> None]
NoAnswer == ConfigEdits + 1               \* what a failed query of an application leaves

ConfigInit ==
    /\ subject \in Derived \cup Direct
    /\ written = 0
    /\ slot = [p \in Processes |-> Blank]
    /\ settings = [p \in Processes |-> Blank]
    /\ lookup = [r \in Lookups |-> NoLookup]
    /\ edit = NoEdit
    /\ edited = 0

\* An entry is of use until its time is over.
Usable(entry) == entry.v # None /\ entry.left > 0
CacheSlot(v, wrong, life) == [v |-> v, left |-> life, wrong |-> wrong]

\* What a read has of the source of the subject: the cached document, or nothing.
HasDocument(p) == subject \in Derived /\ Usable(settings[p])

-----------------------------------------------------------------------------
(* Reads. *)

\* Mutant: a hit renews the entry.
FromCache_Renews(r, p) ==
    /\ lookup[r] = NoLookup /\ Usable(slot[p])
    /\ slot' = [slot EXCEPT ![p].left = LifeOf(subject)]
    /\ UNCHANGED <<subject, written, settings, lookup, edit, edited>>

FromCache(r, p) ==
    /\ lookup[r] = NoLookup /\ Usable(slot[p])
    /\ UNCHANGED ConfigVars

\* The derived caches copy what the cached Settings document holds.
FromDocument(r, p) ==
    /\ lookup[r] = NoLookup /\ ~Usable(slot[p]) /\ HasDocument(p)
    /\ slot' = [slot EXCEPT ![p] = CacheSlot(settings[p].v, settings[p].wrong, LifeOf(subject))]
    /\ UNCHANGED <<subject, written, settings, lookup, edit, edited>>

\* A query reads the store and its answer comes later.
Query(r, p) ==
    /\ lookup[r] = NoLookup /\ ~Usable(slot[p]) /\ ~HasDocument(p)
    /\ lookup' = [lookup EXCEPT ![r] = [pc |-> "query", at |-> p, v |-> written, wrong |-> 0, left |-> QueryTime]]
    /\ UNCHANGED <<subject, written, slot, settings, edit, edited>>

\* Mutant: every cache lives as long as that of applications.
Fill_Longest(r) ==
    /\ lookup[r].pc = "query"
    /\ slot' = [slot EXCEPT ![lookup[r].at] = CacheSlot(lookup[r].v, lookup[r].wrong, AppLifetime)]
    /\ lookup' = [lookup EXCEPT ![r] = NoLookup]
    /\ UNCHANGED <<subject, written, settings, edit, edited>>

\* The answer fills the caches, whatever was invalidated since the question.
Fill(r) ==
    /\ lookup[r].pc = "query"
    /\ LET p == lookup[r].at
           entry(life) == CacheSlot(lookup[r].v, lookup[r].wrong, life)
       IN  /\ slot' = [slot EXCEPT ![p] = entry(LifeOf(subject))]
           /\ settings' = IF subject \in Derived
                          THEN [settings EXCEPT ![p] = entry(Lifetime)] ELSE settings
    /\ lookup' = [lookup EXCEPT ![r] = NoLookup]
    /\ UNCHANGED <<subject, written, edit, edited>>

\* A failed query throws, but for applications, where it is cached as an absence.
FillFails(r) ==
    /\ lookup[r].pc = "query"
    /\ slot' = IF subject = "app"
               THEN [slot EXCEPT ![lookup[r].at] = CacheSlot(NoAnswer, 0, AppLifetime)] ELSE slot
    /\ lookup' = [lookup EXCEPT ![r] = NoLookup]
    /\ UNCHANGED <<subject, written, settings, edit, edited>>

-----------------------------------------------------------------------------
(* Edits. *)

Coming == edited + 1   \* the value being written

\* The setters of policy.js and aiPolicy.js change the cached document in place before
\* it is saved, and read it first when none is cached.
Mutate(p) ==
    /\ edit = NoEdit /\ edited < ConfigEdits /\ subject \in Derived
    /\ settings' = [settings EXCEPT ![p] =
                      IF Usable(@) THEN [@ EXCEPT !.v = Coming, !.wrong = 0]
                      ELSE CacheSlot(Coming, 0, Lifetime)]
    /\ edit' = [pc |-> "save", at |-> p, v |-> Coming]
    /\ edited' = edited + 1
    /\ UNCHANGED <<subject, written, slot, lookup>>

\* The routes of rules, applications and governance write the store at once.
Write(p) ==
    /\ edit = NoEdit /\ edited < ConfigEdits /\ subject \in Direct
    /\ written' = Coming
    /\ edit' = [pc |-> "drop", at |-> p, v |-> Coming]
    /\ edited' = edited + 1
    /\ UNCHANGED <<subject, slot, settings, lookup>>

SaveSettings ==
    /\ edit.pc = "save"
    /\ written' = edit.v
    /\ edit' = [edit EXCEPT !.pc = "drop"]
    /\ UNCHANGED <<subject, slot, settings, lookup, edited>>

\* A save that fails leaves its value in the cached document.
SaveFails ==
    /\ edit.pc = "save"
    /\ edit' = NoEdit
    /\ UNCHANGED <<subject, written, slot, settings, lookup, edited>>

\* The process that edited drops its cache; setPolicy leaves the Settings document,
\* setAssignments drops both. Generating the policy of an application drops nothing.
Drop ==
    /\ edit.pc = "drop"
    /\ slot' \in {[slot EXCEPT ![edit.at] = Blank]} \cup (IF subject = "app" THEN {slot} ELSE {})
    /\ settings' = IF subject = "ai" THEN [settings EXCEPT ![edit.at] = Blank] ELSE settings
    /\ edit' = NoEdit
    /\ UNCHANGED <<subject, written, lookup, edited>>

-----------------------------------------------------------------------------
(* Time. *)

\* How long a value has not been the stored one, counted up to LongWrong.
LongWrong == 2 * Lifetime + AppLifetime + QueryTime
Longer(e) == IF e.v = written THEN 0 ELSE IF e.wrong < LongWrong THEN e.wrong + 1 ELSE LongWrong
Aged(e) == IF e.left <= 1 THEN Blank ELSE [e EXCEPT !.left = e.left - 1, !.wrong = Longer(e)]

Elapse ==
    /\ \A r \in Lookups : lookup[r].pc = "query" => lookup[r].left > 0
    /\ slot' = [p \in Processes |-> Aged(slot[p])]
    /\ settings' = [p \in Processes |-> Aged(settings[p])]
    /\ lookup' = [r \in Lookups |->
                    IF lookup[r].pc = "query"
                    THEN [lookup[r] EXCEPT !.left = @ - 1, !.wrong = Longer(lookup[r])]
                    ELSE lookup[r]]
    /\ UNCHANGED <<subject, written, edit, edited>>

ConfigNext ==
    \/ \E r \in Lookups, p \in Processes : FromCache(r, p) \/ FromDocument(r, p) \/ Query(r, p)
    \/ \E r \in Lookups : Fill(r) \/ FillFails(r)
    \/ \E p \in Processes : Mutate(p) \/ Write(p)
    \/ SaveSettings \/ SaveFails \/ Drop \/ Elapse

ConfigSpec == ConfigInit /\ [][ConfigNext]_ConfigVars

-----------------------------------------------------------------------------
(* Properties. *)

\* Caches hold a value that was once written, an unsaved one or an absence, for at
\* most its lifetime.
ConfigTypeOK ==
    /\ written \in 0..ConfigEdits /\ edited \in 0..ConfigEdits
    /\ \A p \in Processes :
          /\ slot[p].v = None \/ slot[p].v \in 0..NoAnswer
          /\ slot[p].left \in 0..LifeOf(subject) /\ settings[p].left \in 0..Lifetime

\* What a process serves was the stored value not longer ago than the query and the
\* lifetime, and for what derives from the Settings document two lifetimes: whether the
\* edit was made in another process, overtook a query, or was never saved
\* (Settings.js:153-161, policy.js:31-46, 51-62; ruleEngine.js:91-97; handler.js:52-58).
StalenessBounded ==
    \A p \in Processes :
        Usable(slot[p]) => slot[p].wrong < QueryTime + LifeOf(subject) + (IF subject \in Derived THEN Lifetime ELSE 0)
=============================================================================
