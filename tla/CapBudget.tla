------------------------------- MODULE CapBudget -------------------------------
(***************************************************************************)
(* Usage caps over several gateway processes: the check before a call      *)
(* (capEngine.enforcement, used by handler.js and openaiCompat.js), the    *)
(* record and the counter increments after it (logger.writeOrThrow,        *)
(* recordSpend, recordRequest), the administrator's edits (caps.js) and    *)
(* the realignment of the counters (reconcileFromAnalytics).               *)
(*                                                                         *)
(* The store (caps, counters, records) is shared; each process caches the  *)
(* list of enabled caps for CAPS_TTL_MS.  Time is not counted: a cached    *)
(* list may expire at any moment and a counter window may roll over at any *)
(* moment.  Money is a number of units; sums stop at Ceiling, which is     *)
(* above every value they are compared with.                               *)
(***************************************************************************)
EXTENDS Integers, FiniteSets, FiniteSetsExt

CONSTANTS
    Requests,     \* concurrent calls; each one can be used again
    Procs,        \* gateway processes
    CapIds,       \* caps that exist or may be created
    Plan,         \* cap -> what it is when created, see CapRecords
    Existing,     \* the caps that exist from the start
    Apps, Models, \* scopes a cap can name besides everything
    Kinds,        \* kinds of call: "chat" (enforced), "embedding", "internal"
    Light,        \* model -> pricing.suggestLightTarget, itself if none
    Fallbacks,    \* model -> models invokeWithFallback may serve instead
    Costs,        \* prices a call may have, zero for an unpriced model
    MaxCost,      \* the highest of them, at least one
    Ceiling,      \* bound: where the sums of money stop
    MaxWindow,    \* bound: calendar windows of each period
    Changes,      \* bound: the edits an administrator may make
    MaxEdits,     \* bound: how many edits
    Reconciling,  \* bound: whether counters are ever realigned
    Faulty        \* bound: whether writes fail and processes crash

Periods == {"day", "month"}
Metrics == {"spend", "requests"}
Actions == {"alert", "downgrade", "block"}
Windows == 1..MaxWindow
Keys == Periods \X Windows

\* A cap: mutable are limit, period and action, and whether it is enabled.
CapRecords ==
    [state : {"new", "on", "off", "deleted"}, dimension : {"global", "application", "model"},
     value : Apps \cup Models \cup {"all"}, metric : Metrics, action : Actions,
     limit : Nat \ {0}, period : Periods]

CapLists == [CapIds -> CapRecords]

ASSUME BudgetAssumption ==
    /\ IsFiniteSet(Requests)
    /\ Procs # {} /\ CapIds # {} /\ Apps # {} /\ Models # {}
    /\ Plan \in CapLists
    /\ Existing \subseteq CapIds
    /\ \A c \in CapIds : Plan[c].state = IF c \in Existing THEN "on" ELSE "new"
    /\ \A c \in CapIds \ Existing : Plan[c].metric = "spend"
    /\ Kinds \subseteq {"chat", "embedding", "internal"}
    /\ Light \in [Models -> Models]
    /\ Fallbacks \in [Models -> SUBSET Models]
    /\ MaxCost \in Nat \ {0}
    /\ Costs \subseteq 0..MaxCost
    /\ Ceiling \in Nat \ {0}
    /\ MaxWindow \in Nat \ {0}
    /\ Changes \subseteq [limit : Nat \ {0}, period : Periods, action : Actions]
    /\ MaxEdits \in Nat
    /\ Reconciling \in BOOLEAN
    /\ Faulty \in BOOLEAN

VARIABLES
    caps,      \* store: the cap documents
    spent,     \* store: cap -> window key -> CapSpend counter
    total,     \* store: cap -> window key -> sum of the records in its scope
    cache,     \* process -> cached list of enabled caps, while it is fresh
    now,       \* period -> its calendar window
    req,       \* call -> where its handler is
    look,      \* call -> use -> _activeCaps under way for that use
    rec,       \* the reconciliation under way
    edits      \* edits made so far

vars == <<caps, spent, total, cache, now, req, look, rec, edits>>

Uses == Metrics \cup {"enforce"}

-----------------------------------------------------------------------------
(* Scopes, windows and sums.                                                *)

\* _matches
Matches(cap, q) ==
    \/ cap.dimension = "global"
    \/ /\ q.kind # "internal"
       /\ \/ cap.dimension = "application" /\ cap.value = q.app
          \/ cap.dimension = "model" /\ cap.value = q.model

\* The enabled caps of a list that apply to a call.
Applying(list, q) == {c \in CapIds : list[c].state = "on" /\ Matches(list[c], q)}

\* A key names a period and one of its windows; the counter of a new key is 0.
WindowKey(cap, at) == <<cap.period, at[cap.period]>>

Plus(a, b) == IF a + b > Ceiling THEN Ceiling ELSE a + b

\* Mutant: a limit that has to be passed, not reached.
Over_Strict(cap, c) == spent[c][WindowKey(cap, now)] > cap.limit

\* spent >= cap.limit, with the counter of this moment.
Over(cap, c) == spent[c][WindowKey(cap, now)] >= cap.limit

Amount(metric, q) == IF metric = "spend" THEN q.cost ELSE 1

\* Which of recordSpend and recordRequest count a call.
Counts(metric, q) == IF metric = "spend" THEN q.cost > 0 ELSE q.kind # "internal"

-----------------------------------------------------------------------------
NoList == [c \in CapIds |-> [Plan[c] EXCEPT !.state = "new"]]
NotLooking == [st |-> "off", list |-> NoList]
Asking(uses) == [u \in Uses |-> [st |-> IF u \in uses THEN "ask" ELSE "off", list |-> NoList]]
Empty == [fresh |-> FALSE, list |-> NoList]
SomeProc == CHOOSE p \in Procs : TRUE
AnApp == CHOOSE a \in Apps : TRUE
AModel == CHOOSE m \in Models : TRUE

Idle == [pc |-> "idle", proc |-> SomeProc, kind |-> "chat", app |-> AnApp, model |-> AModel,
         list |-> NoList, left |-> {}, hit |-> FALSE, cost |-> 0, owed |-> {}, over |-> {}]

Resting == [st |-> "idle", proc |-> SomeProc, list |-> NoList, left |-> {},
            at |-> [p \in Periods |-> 1], cap |-> CHOOSE c \in CapIds : TRUE, value |-> 0,
            quiet |-> FALSE]

Init ==
    /\ caps = Plan
    /\ spent = [c \in CapIds |-> [k \in Keys |-> 0]]
    /\ total = [c \in CapIds |-> [k \in Keys |-> 0]]
    /\ cache = [p \in Procs |-> Empty]
    /\ now = [p \in Periods |-> 1]
    /\ req = [r \in Requests |-> Idle]
    /\ look = [r \in Requests |-> Asking({})]
    /\ rec = Resting
    /\ edits = 0

-----------------------------------------------------------------------------
(* _activeCaps: the cached list while it is fresh, otherwise a find whose   *)
(* answer refreshes the cache when it arrives, whatever happened since.     *)

\* What the handler does once it has the list: enforcement goes through the
\* caps one by one; the two counts send all their increments at once.
Use(r, u, list) ==
    LET q == req[r]
        mine == {c \in Applying(list, q) : Plan[c].metric = u}
    IN  IF u = "enforce"
        THEN req' = [req EXCEPT ![r] = [@ EXCEPT !.pc = "check", !.list = list,
                                                 !.left = Applying(list, q)]]
        ELSE req' = [req EXCEPT ![r] = [@ EXCEPT
                        !.owed = q.owed \cup {<<c, WindowKey(list[c], now)>> : c \in mine}]]

Cached(r, u) ==
    LET p == req[r].proc
    IN  /\ look[r][u].st = "ask"
        /\ cache[p].fresh
        /\ look' = [look EXCEPT ![r][u] = NotLooking]
        /\ Use(r, u, cache[p].list)
        /\ UNCHANGED <<caps, spent, total, cache, now, rec, edits>>

Find(r, u) ==
    /\ look[r][u].st = "ask"
    /\ ~cache[req[r].proc].fresh
    /\ look' = [look EXCEPT ![r][u] = [st |-> "find", list |-> caps]]
    /\ UNCHANGED <<caps, spent, total, cache, now, req, rec, edits>>

Found(r, u) ==
    /\ look[r][u].st = "find"
    /\ cache' = [cache EXCEPT ![req[r].proc] = [fresh |-> TRUE, list |-> look[r][u].list]]
    /\ look' = [look EXCEPT ![r][u] = NotLooking]
    /\ Use(r, u, look[r][u].list)
    /\ UNCHANGED <<caps, spent, total, now, rec, edits>>

\* Mutant: a cached list that is kept for ever.
Expire_Never(p) == FALSE /\ UNCHANGED vars

\* CAPS_TTL_MS has passed.
Expire(p) ==
    /\ cache[p].fresh
    /\ cache' = [cache EXCEPT ![p] = Empty]
    /\ UNCHANGED <<caps, spent, total, now, req, look, rec, edits>>

-----------------------------------------------------------------------------
(* One call: handleChat, the OpenAI-compatible handler, handleEmbeddings,   *)
(* internalComplete.                                                        *)

\* The block caps that are over their limit in their window of this moment.
Breached == {c \in CapIds : /\ caps[c].state = "on"
                            /\ caps[c].action = "block"
                            /\ Over(caps[c], c)}

\* Only the two chat endpoints enforce.  "over" is history: the caps that were
\* breached on arrival and have not been given room since.
Arrive(r) ==
    /\ req[r].pc = "idle"
    /\ \E p \in Procs, kind \in Kinds, a \in Apps, m \in Models :
          /\ req' = [req EXCEPT ![r] = [Idle EXCEPT
                        !.pc = IF kind = "chat" THEN "look" ELSE "call",
                        !.proc = p, !.kind = kind, !.app = a, !.model = m, !.over = Breached]]
          /\ look' = [look EXCEPT ![r] =
                        Asking(IF kind = "chat" THEN {"enforce"} ELSE {})]
    /\ UNCHANGED <<caps, spent, total, cache, now, rec, edits>>

\* Mutant: the first breached cap decides.
CheckCap_FirstHit(r) ==
    /\ req[r].pc = "check"
    /\ \E c \in req[r].left :
          LET cap == req[r].list[c]
              rest == req[r].left \ {c}
          IN  req' = [req EXCEPT ![r] =
                        IF ~Over(cap, c) THEN [@ EXCEPT !.left = rest]
                        ELSE IF cap.action = "block" THEN Idle
                        ELSE [@ EXCEPT !.left = {}, !.hit = TRUE]]
    /\ UNCHANGED <<caps, spent, total, cache, now, look, rec, edits>>

\* One turn of the loop of enforcement: the counter is read afresh; block
\* rejects the call, every other action asks for the light model.
CheckCap(r) ==
    /\ req[r].pc = "check"
    /\ \E c \in req[r].left :
          LET cap == req[r].list[c]
              rest == req[r].left \ {c}
          IN  req' = [req EXCEPT ![r] =
                        IF ~Over(cap, c) THEN [@ EXCEPT !.left = rest]
                        ELSE IF cap.action = "block" THEN Idle
                        ELSE [@ EXCEPT !.left = rest, !.hit = TRUE]]
    /\ UNCHANGED <<caps, spent, total, cache, now, look, rec, edits>>

\* The end of the loop.  The light target is skipped when the application's
\* governance refuses it.
Proceed(r) ==
    /\ req[r].pc = "check" /\ req[r].left = {}
    /\ \E m \in IF req[r].hit THEN {req[r].model, Light[req[r].model]} ELSE {req[r].model} :
          req' = [req EXCEPT ![r] = [@ EXCEPT !.pc = "call", !.model = m, !.hit = FALSE,
                                              !.list = NoList]]
    /\ UNCHANGED <<caps, spent, total, cache, now, look, rec, edits>>

\* The call succeeds, on a fallback model perhaps.  The client has its answer.
Answer(r) ==
    /\ req[r].pc = "call"
    /\ \E m \in {req[r].model} \cup IF req[r].kind = "chat" THEN Fallbacks[req[r].model] ELSE {},
          cost \in Costs :
          req' = [req EXCEPT ![r] = [@ EXCEPT !.pc = "log", !.model = m, !.cost = cost]]
    /\ UNCHANGED <<caps, spent, total, cache, now, look, rec, edits>>

\* The call fails, or the output guardrail withholds its answer: the record
\* written then counts for no cap.
Uncounted(r) ==
    /\ req[r].pc = "call"
    /\ req' = [req EXCEPT ![r] = Idle]
    /\ UNCHANGED <<caps, spent, total, cache, now, look, rec, edits>>

\* RequestRecord.create has succeeded: analytics sees the call from here on,
\* the counters only after the increments that are started next.
Record(r) ==
    LET q == req[r]
        counted == {metric \in Metrics : Counts(metric, q)}
    IN  /\ q.pc = "log"
        /\ total' = [c \in CapIds |-> [k \in Keys |->
                IF /\ k[2] = now[k[1]]
                   /\ Matches(Plan[c], q) /\ Plan[c].metric \in counted
                THEN Plus(total[c][k], Amount(Plan[c].metric, q))
                ELSE total[c][k]]]
        /\ req' = [req EXCEPT ![r] = [@ EXCEPT !.pc = "count"]]
        /\ look' = [look EXCEPT ![r] = Asking(counted)]
        /\ rec' = [rec EXCEPT !.quiet = FALSE]
        /\ UNCHANGED <<caps, spent, cache, now, edits>>

\* Mutant: a counter that is written, not incremented.
Charge_Overwrites(r) ==
    /\ \E c \in CapIds, k \in Keys :
          /\ <<c, k>> \in req[r].owed
          /\ spent' = [spent EXCEPT ![c][k] =
                         Plus(0, Amount(Plan[c].metric, req[r]))]
          /\ req' = [req EXCEPT ![r] = [@ EXCEPT !.owed = req[r].owed \ {<<c, k>>}]]
    /\ UNCHANGED <<caps, total, cache, now, look, rec, edits>>

\* Mutant: an increment with the wrong sign.
Charge_Subtracts(r) ==
    /\ \E c \in CapIds, k \in Keys :
          /\ <<c, k>> \in req[r].owed
          /\ spent' = [spent EXCEPT ![c][k] = spent[c][k] - Amount(Plan[c].metric, req[r])]
          /\ req' = [req EXCEPT ![r] = [@ EXCEPT !.owed = req[r].owed \ {<<c, k>>}]]
    /\ UNCHANGED <<caps, total, cache, now, look, rec, edits>>

\* One $inc of _bump reaches the store.
Charge(r) ==
    /\ \E c \in CapIds, k \in Keys :
          /\ <<c, k>> \in req[r].owed
          /\ spent' = [spent EXCEPT ![c][k] =
                         Plus(spent[c][k], Amount(Plan[c].metric, req[r]))]
          /\ req' = [req EXCEPT ![r] = [@ EXCEPT !.owed = req[r].owed \ {<<c, k>>}]]
    /\ UNCHANGED <<caps, total, cache, now, look, rec, edits>>

Finish(r) ==
    /\ req[r].pc = "count" /\ req[r].owed = {}
    /\ \A u \in Metrics : look[r][u].st = "off"
    /\ req' = [req EXCEPT ![r] = Idle]
    /\ UNCHANGED <<caps, spent, total, cache, now, look, rec, edits>>

-----------------------------------------------------------------------------
(* Failures: errors that are logged and dropped, and crashes.               *)

\* RequestRecord.create throws; write() swallows the error.
RecordLost(r) ==
    /\ Faulty /\ req[r].pc = "log"
    /\ req' = [req EXCEPT ![r] = Idle]
    /\ UNCHANGED <<caps, spent, total, cache, now, look, rec, edits>>

\* A $inc throws; _bump swallows the error.
ChargeLost(r) ==
    /\ Faulty
    /\ \E c \in CapIds, k \in Keys :
          /\ <<c, k>> \in req[r].owed
          /\ req' = [req EXCEPT ![r] = [@ EXCEPT !.owed = req[r].owed \ {<<c, k>>}]]
    /\ UNCHANGED <<caps, spent, total, cache, now, look, rec, edits>>

\* A process dies and starts again: what it had under way is gone.
Crash(p) ==
    /\ Faulty
    /\ req' = [r \in Requests |-> IF req[r].proc = p THEN Idle ELSE req[r]]
    /\ look' = [r \in Requests |-> IF req[r].proc = p THEN Asking({}) ELSE look[r]]
    /\ cache' = [cache EXCEPT ![p] = Empty]
    /\ rec' = IF rec.proc = p THEN Resting ELSE rec
    /\ UNCHANGED <<caps, spent, total, now, edits>>

-----------------------------------------------------------------------------
(* The calendar and the administrator.                                      *)

\* What gives a cap room again, or changes it, ends the history of "over".
Forget(room) == req' = [r \in Requests |-> [req[r] EXCEPT !.over = req[r].over \ room]]

\* Midnight or the first of a month; a period that no cap has is left out.
NextWindow(period) ==
    /\ now[period] < MaxWindow
    /\ \E c \in CapIds : caps[c].period = period
    /\ now' = [now EXCEPT ![period] = @ + 1]
    /\ Forget({c \in CapIds : caps[c].period = period})
    /\ UNCHANGED <<caps, spent, total, cache, look, rec, edits>>

\* A write of the cap's document.  invalidate() follows in the process that did
\* it, at once or, if other handlers run before its answer, as an Expire.
Edit(p, c, cap) ==
    /\ edits < MaxEdits
    /\ edits' = edits + 1
    /\ caps' = [caps EXCEPT ![c] = cap]
    /\ cache' \in {cache, [cache EXCEPT ![p] = Empty]}
    /\ Forget({c})
    /\ UNCHANGED <<spent, total, now, look, rec>>

Create(p, c) ==
    /\ caps[c].state = "new"
    /\ Edit(p, c, [caps[c] EXCEPT !.state = "on"])

Patch(p, c) ==
    /\ caps[c].state \in {"on", "off"}
    /\ \E to \in {"on", "off"}, ch \in Changes :
          Edit(p, c, [caps[c] EXCEPT !.state = to, !.limit = ch.limit,
                                     !.period = ch.period, !.action = ch.action])

Delete(p, c) ==
    /\ caps[c].state \in {"on", "off"}
    /\ Edit(p, c, [caps[c] EXCEPT !.state = "deleted"])

-----------------------------------------------------------------------------
(* POST /caps/reconcile: for every enabled spend cap, analytics.spend over   *)
(* the rolling window, then a write of the counter of the calendar window.  *)

Sum(c, period, w) == IF w \in Windows THEN total[c][<<period, w>>] ELSE 0

\* analytics.spend for a cap that began to be aligned in window n.  The rolling day
\* holds all of the calendar day so far and part of the day before; a rolling month of
\* 30 days may lack the first day of a calendar month.
Analytics(c, period, n) ==
    {Plus(before, Plus(Sum(c, period, n) - missing, Sum(c, period, n + 1))) :
        before \in 0..Sum(c, period, n - 1),
        missing \in IF period = "month" THEN 0..Sum(c, period, n) ELSE {0}}

\* "quiet" is history: no call was between its record and its last increment since
\* the reconciliation began.
Quiet == \A r \in Requests : req[r].pc # "count"

StartReconcile(p) ==
    /\ Reconciling /\ rec.st = "idle"
    /\ rec' = [Resting EXCEPT !.st = "read", !.proc = p, !.list = caps, !.at = now,
                              !.left = {c \in CapIds : caps[c].state = "on"
                                                        /\ Plan[c].metric = "spend"},
                              !.quiet = Quiet]
    /\ UNCHANGED <<caps, spent, total, cache, now, req, look, edits>>

ReadTotal ==
    /\ rec.st = "read"
    /\ \E c \in rec.left :
          \E value \in Analytics(c, rec.list[c].period, rec.at[rec.list[c].period]) :
             rec' = [rec EXCEPT !.st = "write", !.cap = c, !.value = value]
    /\ UNCHANGED <<caps, spent, total, cache, now, req, look, edits>>

\* Mutant: a reconciliation that adds to the counter.
WriteCounter_Adds ==
    /\ rec.st = "write"
    /\ spent' = [spent EXCEPT ![rec.cap][WindowKey(rec.list[rec.cap], rec.at)] =
                   Plus(spent[rec.cap][WindowKey(rec.list[rec.cap], rec.at)], rec.value)]
    /\ rec' = [rec EXCEPT !.st = "read", !.left = rec.left \ {rec.cap}]
    /\ Forget({rec.cap})
    /\ UNCHANGED <<caps, total, cache, now, look, edits>>

WriteCounter ==
    /\ rec.st = "write"
    /\ spent' = [spent EXCEPT ![rec.cap][WindowKey(rec.list[rec.cap], rec.at)] = rec.value]
    /\ rec' = [rec EXCEPT !.st = "read", !.left = rec.left \ {rec.cap}]
    /\ Forget({rec.cap})
    /\ UNCHANGED <<caps, total, cache, now, look, edits>>

EndReconcile ==
    /\ rec.st = "read" /\ rec.left = {}
    /\ cache' = [cache EXCEPT ![rec.proc] = Empty]
    /\ rec' = Resting
    /\ UNCHANGED <<caps, spent, total, now, req, look, edits>>

-----------------------------------------------------------------------------
Handle(r) ==
    \/ \E u \in Uses : Cached(r, u) \/ Find(r, u) \/ Found(r, u)
    \/ CheckCap(r) \/ Proceed(r) \/ Answer(r) \/ Uncounted(r)
    \/ Record(r) \/ Charge(r) \/ Finish(r)

Next ==
    \/ \E r \in Requests : Arrive(r) \/ Handle(r) \/ RecordLost(r) \/ ChargeLost(r)
    \/ \E p \in Procs : Expire(p) \/ Crash(p) \/ StartReconcile(p)
    \/ \E p \in Procs, c \in CapIds : Create(p, c) \/ Patch(p, c) \/ Delete(p, c)
    \/ \E period \in Periods : NextWindow(period)
    \/ ReadTotal \/ WriteCounter \/ EndReconcile

Spec == Init /\ [][Next]_vars

\* Every await of a handler is answered, and a cached list expires.
Fairness ==
    /\ \A r \in Requests : WF_vars(Handle(r))
    /\ \A p \in Procs : WF_vars(Expire(p))

LiveSpec == Spec /\ Fairness

-----------------------------------------------------------------------------
(* Properties.                                                              *)

CallStates ==
    [pc : {"idle", "look", "check", "call", "log", "count"}, proc : Procs,
     kind : {"chat", "embedding", "internal"}, app : Apps, model : Models,
     list : CapLists, left : SUBSET CapIds, hit : BOOLEAN, cost : 0..MaxCost,
     owed : SUBSET (CapIds \X Keys), over : SUBSET CapIds]

Lookups == [st : {"off", "ask", "find"}, list : CapLists]

Reconciliations ==
    [st : {"idle", "read", "write"}, proc : Procs, list : CapLists, left : SUBSET CapIds,
     at : [Periods -> Windows], cap : CapIds, value : 0..Ceiling, quiet : BOOLEAN]

\* The documents, the caches and the calls are well formed, and no counter is
\* ever negative.
TypeOK ==
    /\ caps \in CapLists
    /\ spent \in [CapIds -> [Keys -> 0..Ceiling]]
    /\ total \in [CapIds -> [Keys -> 0..Ceiling]]
    /\ cache \in [Procs -> [fresh : BOOLEAN, list : CapLists]]
    /\ now \in [Periods -> Windows]
    /\ req \in [Requests -> CallStates]
    /\ look \in [Requests -> [Uses -> Lookups]]
    /\ rec \in Reconciliations
    /\ edits \in 0..MaxEdits

\* capEngine.js:3-5, recordSpend and recordRequest count each call once: what
\* the records of a cap add up to is what its counters hold plus the increments
\* that are still on their way, however calls interleave and windows roll over.
Owing(c, r) ==
    LET metric == Plan[c].metric
    IN  IF /\ req[r].pc = "count" /\ Counts(metric, req[r]) /\ Matches(Plan[c], req[r])
           /\ look[r][metric].st # "off" \/ \E k \in Keys : <<c, k>> \in req[r].owed
        THEN Amount(metric, req[r])
        ELSE 0

InAllWindows(sums, c) == SumFunction([w \in Windows |-> sums[c][<<Plan[c].period, w>>]])
OnTheWay(c) == SumFunction([r \in Requests |-> Owing(c, r)])

LedgerExact ==
    \A c \in Existing :
       InAllWindows(total, c) < Ceiling
       => InAllWindows(total, c) = InAllWindows(spent, c) + OnTheWay(c)

\* enforcement lets a call pass only below the limit, so the counter of a
\* block cap ends at most one price per concurrent call above the last value
\* that is allowed.  A cap on a model is not of this kind: a downgrade or a
\* fallback moves calls into its scope after the check.
OvershootBounded ==
    \A c \in Existing, k \in Keys :
       caps[c].action = "block" /\ caps[c].dimension # "model"
       => spent[c][k] <= caps[c].limit - 1 + MaxCost * Cardinality(Requests)

\* enforcement, "the strictest enforcement: block > downgrade > null": a call
\* that arrives when a block cap of its scope is over the limit is never sent,
\* whichever other caps are breached and however old the cached list is.
BreachedOnArrivalIsRejected ==
    [][\A r \in Requests :
          req[r].pc = "check" /\ req'[r].pc = "call"
          => \A c \in req[r].over : ~Matches(Plan[c], req[r])]_vars

\* reconcileFromAnalytics, when no call was being counted while it ran, leaves in
\* the counter of a day all that was recorded that day, and in no counter more than
\* was recorded in its window and the one before: "exact" up to that part.
Fits(c, k, value) ==
    /\ value <= total[c][k] + Sum(c, k[1], k[2] - 1)
    /\ k[1] = "day" => total[c][k] <= value

Aligned == WindowKey(rec.list[rec.cap], rec.at)

QuietReconcileExact ==
    [][rec.st = "write" /\ rec'.st = "read" /\ rec.quiet
       => Fits(rec.cap, Aligned, spent'[rec.cap][Aligned])]_vars

\* A block cap that is over its limit for good ends all calls of its scope in
\* every process, those that cached the list before the cap was enabled
\* included.
BreachStops ==
    \A c \in CapIds :
       <>[](c \in Breached)
       => <>[][\A r \in Requests : req[r].pc = "check" /\ req'[r].pc = "call"
                                   => ~Matches(Plan[c], req[r])]_vars

\* Nothing is recorded in a window to come, nor, while a reconciliation is quiet,
\* after the windows it aligns; what it is about to write is what it read.
QuietRead ==
    /\ \A c \in CapIds, k \in Keys : k[2] > now[k[1]] => total[c][k] = 0
    /\ rec.st # "idle" /\ rec.quiet
       => \A c \in CapIds, k \in Keys : k[2] > rec.at[k[1]] => total[c][k] = 0
    /\ rec.st = "write" /\ rec.quiet => Fits(rec.cap, Aligned, rec.value)

-----------------------------------------------------------------------------
(* What makes the two safety properties inductive, while no cap is edited    *)
(* and no counter is realigned.                                             *)

Undisturbed == MaxEdits = 0 /\ ~Reconciling

\* Every list anyone holds is the list in the store, and each lookup and each
\* increment belongs to its stage of the call.
ListsCurrent ==
    /\ caps = Plan
    /\ rec.st = "idle"
    /\ \A p \in Procs : cache[p].fresh => cache[p].list = Plan
    /\ \A r \in Requests :
          /\ req[r].pc = "check" => req[r].list = Plan
          /\ req[r].owed # {} => req[r].pc = "count"
          /\ look[r]["enforce"].st # "off" => req[r].pc = "look"
          /\ \A u \in Metrics : look[r][u].st # "off" => req[r].pc = "count"
          /\ \A u \in Uses : look[r][u].st = "find" => look[r][u].list = Plan

\* A cap a call found breached on arrival is still breached, and the call has
\* still to meet it in the loop of enforcement.
OverStays ==
    \A r \in Requests : \A c \in req[r].over :
       /\ Plan[c].state = "on" /\ Plan[c].action = "block"
       /\ Over(Plan[c], c)
       /\ req[r].pc = "check" /\ Matches(Plan[c], req[r]) => c \in req[r].left

\* Increments go to the window of their cap's own period, never a future one;
\* they are sent once, after the lookup that found the cap.
OwedOnce ==
    \A r \in Requests, c \in CapIds, k \in Keys :
       <<c, k>> \in req[r].owed
       => /\ k[1] = Plan[c].period /\ k[2] <= now[k[1]]
          /\ Matches(Plan[c], req[r])
          /\ look[r][Plan[c].metric].st = "off"

\* Counters of other periods and of future windows have not been touched.
UnusedAreZero ==
    \A c \in CapIds, k \in Keys :
       k[1] # Plan[c].period \/ k[2] > now[k[1]] => spent[c][k] = 0

\* The calls that have passed cap c and may still be counted under key k.
Committed(c, k) ==
    {r \in Requests :
        LET open == k[1] = Plan[c].period /\ k[2] >= now[k[1]]
        IN  /\ Matches(Plan[c], req[r])
            /\ \/ req[r].pc = "check" /\ c \notin req[r].left /\ open
               \/ req[r].pc \in {"call", "log"} /\ open
               \/ req[r].pc = "count" /\ look[r][Plan[c].metric].st # "off" /\ open
               \/ <<c, k>> \in req[r].owed}

\* A block cap that enforcement meets in every call it counts.
Enforced(c) ==
    c \in Existing /\ Plan[c].action = "block" /\ Plan[c].dimension # "model"

\* The counter plus the highest price of every committed call.
ReserveHolds ==
    \A c \in CapIds, k \in Keys :
       Enforced(c) =>
       spent[c][k] + MaxCost * Cardinality(Committed(c, k))
          <= Plan[c].limit - 1 + MaxCost * Cardinality(Requests)
=============================================================================
