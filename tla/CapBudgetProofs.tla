--------------------------- MODULE CapBudgetProofs ---------------------------
(***************************************************************************)
(* Proofs about CapBudget, for every set of calls, processes and caps.     *)
(***************************************************************************)
EXTENDS CapBudget, FiniteSums, TLAPS

-----------------------------------------------------------------------------
(* Types.                                                                   *)

LEMMA SumsStayBelow ==
    ASSUME NEW a \in Nat, NEW b \in Nat
    PROVE  /\ Plus(a, b) \in 0..Ceiling /\ Plus(a, b) \in Nat
           /\ Plus(a, b) <= a + b
           /\ a <= Ceiling => a <= Plus(a, b)
BY BudgetAssumption DEF BudgetAssumption, Plus

LEMMA ListsTyped ==
    /\ NoList \in CapLists
    /\ Plan \in CapLists
    /\ \A uses : Asking(uses) \in [Uses -> Lookups]
    /\ NotLooking \in Lookups
<1>1. Plan \in CapLists
    BY BudgetAssumption DEF BudgetAssumption
<1>2. NoList \in CapLists
    BY <1>1 DEF NoList, CapLists, CapRecords
<1>3. QED
    BY <1>1, <1>2 DEF Asking, NotLooking, Lookups

LEMMA StartTyped ==
    /\ Idle \in CallStates
    /\ Resting \in Reconciliations
    /\ SomeProc \in Procs
    /\ Empty \in [fresh : BOOLEAN, list : CapLists]
<1>1. SomeProc \in Procs /\ AnApp \in Apps /\ AModel \in Models
    BY BudgetAssumption DEF BudgetAssumption, SomeProc, AnApp, AModel
<1>2. (CHOOSE c \in CapIds : TRUE) \in CapIds
    BY BudgetAssumption DEF BudgetAssumption
<1>3. 0 \in 0..Ceiling /\ 0 \in 0..MaxCost /\ 1 \in Windows
    BY BudgetAssumption DEF BudgetAssumption, Windows
<1>4. Idle \in CallStates
    BY <1>1, <1>3, ListsTyped DEF Idle, CallStates
<1>5. Resting \in Reconciliations
    BY <1>1, <1>2, <1>3, ListsTyped DEF Resting, Reconciliations
<1>6. QED
    BY <1>1, <1>4, <1>5, ListsTyped DEF Empty

LEMMA InitTypeOK == Init => TypeOK
<1>1. 0 \in 0..Ceiling /\ 1 \in Windows /\ 0 \in 0..MaxEdits
    BY BudgetAssumption DEF BudgetAssumption, Windows
<1>2. QED
    BY <1>1, ListsTyped, StartTyped DEF Init, TypeOK

LEMMA KeysTyped ==
    ASSUME NEW list \in CapLists, NEW c \in CapIds, NEW at \in [Periods -> Windows]
    PROVE  WindowKey(list[c], at) \in Keys
BY DEF CapLists, CapRecords, WindowKey, Keys

\* What a handler does with the list of caps keeps its state well formed.
LEMMA UseTyped ==
    ASSUME TypeOK, NEW r \in Requests, NEW u \in Uses, NEW list \in CapLists, Use(r, u, list)
    PROVE  req' \in [Requests -> CallStates]
<1> DEFINE q == req[r]
           mine == {c \in Applying(list, q) : Plan[c].metric = u}
<1>1. q \in CallStates /\ now \in [Periods -> Windows]
    BY DEF TypeOK
<1>2. Applying(list, q) \in SUBSET CapIds
    BY DEF Applying
<1>3. CASE u = "enforce"
    <2>1. [q EXCEPT !.pc = "check", !.list = list, !.left = Applying(list, q)] \in CallStates
        BY <1>1, <1>2 DEF CallStates
    <2>2. QED
        BY <1>3, <2>1 DEF Use, TypeOK
<1>4. CASE u # "enforce"
    <2>1. {<<c, WindowKey(list[c], now)>> : c \in mine} \in SUBSET (CapIds \X Keys)
        BY <1>1, <1>2, KeysTyped
    <2>2. [q EXCEPT !.owed = q.owed \cup {<<c, WindowKey(list[c], now)>> : c \in mine}]
          \in CallStates
        BY <1>1, <2>1 DEF CallStates
    <2>3. QED
        BY <1>4, <2>2 DEF Use, TypeOK
<1>5. QED
    BY <1>3, <1>4

LEMMA LookingTyped ==
    ASSUME TypeOK, NEW r \in Requests, NEW u \in Uses,
           Cached(r, u) \/ Find(r, u) \/ Found(r, u)
    PROVE  TypeOK'
<1>1. /\ req[r].proc \in Procs
      /\ look[r][u] \in Lookups
      /\ cache[req[r].proc].list \in CapLists
    BY DEF TypeOK, CallStates
<1>2. CASE Cached(r, u)
    <2>1. req' \in [Requests -> CallStates]
        BY <1>1, <1>2, UseTyped DEF Cached
    <2>2. look' \in [Requests -> [Uses -> Lookups]]
        BY <1>2, ListsTyped DEF Cached, TypeOK
    <2>3. QED
        BY <1>2, <2>1, <2>2 DEF Cached, TypeOK
<1>3. CASE Find(r, u)
    <2>1. [st |-> "find", list |-> caps] \in Lookups
        BY DEF TypeOK, Lookups
    <2>2. QED
        BY <1>3, <2>1 DEF Find, TypeOK
<1>4. CASE Found(r, u)
    <2>1. look[r][u].list \in CapLists
        BY <1>1 DEF Lookups
    <2>2. req' \in [Requests -> CallStates]
        BY <1>4, <2>1, UseTyped DEF Found
    <2>3. look' \in [Requests -> [Uses -> Lookups]]
        BY <1>4, ListsTyped DEF Found, TypeOK
    <2>4. cache' \in [Procs -> [fresh : BOOLEAN, list : CapLists]]
        BY <1>1, <1>4, <2>1 DEF Found, TypeOK
    <2>5. QED
        BY <1>4, <2>2, <2>3, <2>4 DEF Found, TypeOK
<1>5. QED
    BY <1>2, <1>3, <1>4

LEMMA CallTyped ==
    ASSUME TypeOK, NEW r \in Requests,
           \/ Arrive(r) \/ CheckCap(r) \/ Proceed(r) \/ Answer(r) \/ Uncounted(r)
           \/ Record(r) \/ Charge(r) \/ Finish(r) \/ RecordLost(r) \/ ChargeLost(r)
    PROVE  TypeOK'
<1> DEFINE q == req[r]
<1>1. q \in CallStates /\ req \in [Requests -> CallStates]
    BY DEF TypeOK
<1>2. CASE Arrive(r)
    <2>1. PICK p \in Procs, kind \in Kinds, a \in Apps, m \in Models :
            /\ req' = [req EXCEPT ![r] = [Idle EXCEPT
                        !.pc = IF kind = "chat" THEN "look" ELSE "call",
                        !.proc = p, !.kind = kind, !.app = a, !.model = m, !.over = Breached]]
            /\ look' = [look EXCEPT ![r] =
                        Asking(IF kind = "chat" THEN {"enforce"} ELSE {})]
        BY <1>2 DEF Arrive
    <2>2. Breached \in SUBSET CapIds /\ kind \in {"chat", "embedding", "internal"}
        BY BudgetAssumption DEF BudgetAssumption, Breached
    <2>3. [Idle EXCEPT !.pc = IF kind = "chat" THEN "look" ELSE "call",
                       !.proc = p, !.kind = kind, !.app = a, !.model = m, !.over = Breached]
          \in CallStates
        BY <2>2, StartTyped DEF CallStates
    <2>4. req' \in [Requests -> CallStates]
        BY <1>1, <2>1, <2>3
    <2>5. look' \in [Requests -> [Uses -> Lookups]]
        BY <2>1, ListsTyped DEF TypeOK
    <2>6. QED
        BY <1>2, <2>4, <2>5 DEF Arrive, TypeOK
<1>3. CASE CheckCap(r)
    <2>1. PICK c \in q.left :
            req' = [req EXCEPT ![r] =
                        IF ~Over(q.list[c], c) THEN [@ EXCEPT !.left = q.left \ {c}]
                        ELSE IF q.list[c].action = "block" THEN Idle
                        ELSE [@ EXCEPT !.left = q.left \ {c}, !.hit = TRUE]]
        BY <1>3 DEF CheckCap
    <2>2. /\ [q EXCEPT !.left = q.left \ {c}] \in CallStates
          /\ [q EXCEPT !.left = q.left \ {c}, !.hit = TRUE] \in CallStates
        BY <1>1 DEF CallStates
    <2>3. req' \in [Requests -> CallStates]
        BY <1>1, <2>1, <2>2, StartTyped
    <2>4. QED
        BY <1>3, <2>3 DEF CheckCap, TypeOK
<1>4. CASE Proceed(r)
    <2>1. q.model \in Models /\ Light[q.model] \in Models
        BY <1>1, BudgetAssumption DEF BudgetAssumption, CallStates
    <2>2. \A m \in Models : [q EXCEPT !.pc = "call", !.model = m, !.hit = FALSE, !.list = NoList]
                            \in CallStates
        BY <1>1, ListsTyped DEF CallStates
    <2>3. PICK m \in Models :
            req' = [req EXCEPT ![r] = [@ EXCEPT !.pc = "call", !.model = m, !.hit = FALSE,
                                                !.list = NoList]]
        BY <1>4, <2>1 DEF Proceed
    <2>4. req' \in [Requests -> CallStates]
        BY <1>1, <2>2, <2>3
    <2>5. QED
        BY <1>4, <2>4 DEF Proceed, TypeOK
<1>5. CASE Answer(r)
    <2>1. q.model \in Models /\ Fallbacks[q.model] \subseteq Models /\ Costs \subseteq 0..MaxCost
        BY <1>1, BudgetAssumption DEF BudgetAssumption, CallStates
    <2>2. \A m \in Models, cost \in 0..MaxCost :
             [q EXCEPT !.pc = "log", !.model = m, !.cost = cost] \in CallStates
        BY <1>1 DEF CallStates
    <2>3. PICK m \in Models, cost \in 0..MaxCost :
            req' = [req EXCEPT ![r] = [@ EXCEPT !.pc = "log", !.model = m, !.cost = cost]]
        BY <1>5, <2>1 DEF Answer
    <2>4. req' \in [Requests -> CallStates]
        BY <1>1, <2>2, <2>3
    <2>5. QED
        BY <1>5, <2>4 DEF Answer, TypeOK
<1>6. CASE Uncounted(r) \/ Finish(r) \/ RecordLost(r)
    <2>1. req' \in [Requests -> CallStates]
        BY <1>1, <1>6, StartTyped DEF Uncounted, Finish, RecordLost
    <2>2. QED
        BY <1>6, <2>1 DEF Uncounted, Finish, RecordLost, TypeOK
<1>7. CASE Record(r)
    <2> DEFINE counted == {metric \in Metrics : Counts(metric, q)}
               Sees(c, k) == /\ k[2] = now[k[1]]
                             /\ Matches(Plan[c], q) /\ Plan[c].metric \in counted
    <2>1. \A c \in CapIds : Amount(Plan[c].metric, q) \in Nat
        BY <1>1, BudgetAssumption DEF BudgetAssumption, Amount, CallStates
    <2>2. \A c \in CapIds, k \in Keys :
             total[c][k] \in Nat /\ total[c][k] \in 0..Ceiling
        BY DEF TypeOK
    <2>3. \A c \in CapIds, k \in Keys :
             (IF Sees(c, k) THEN Plus(total[c][k], Amount(Plan[c].metric, q)) ELSE total[c][k])
             \in 0..Ceiling
        BY <2>1, <2>2, SumsStayBelow
    <2>4. total' \in [CapIds -> [Keys -> 0..Ceiling]]
        BY <1>7, <2>3 DEF Record
    <2>5. [q EXCEPT !.pc = "count"] \in CallStates
        BY <1>1 DEF CallStates
    <2>6. req' \in [Requests -> CallStates]
        BY <1>1, <1>7, <2>5 DEF Record
    <2>7. look' \in [Requests -> [Uses -> Lookups]]
        BY <1>7, ListsTyped DEF Record, TypeOK
    <2>8. rec' \in Reconciliations
        BY <1>7 DEF Record, TypeOK, Reconciliations
    <2>9. QED
        BY <1>7, <2>4, <2>6, <2>7, <2>8 DEF Record, TypeOK
<1>8. CASE Charge(r)
    <2>1. PICK c \in CapIds, k \in Keys :
            /\ spent' = [spent EXCEPT ![c][k] = Plus(spent[c][k], Amount(Plan[c].metric, q))]
            /\ req' = [req EXCEPT ![r] = [@ EXCEPT !.owed = q.owed \ {<<c, k>>}]]
        BY <1>8 DEF Charge
    <2>2. Amount(Plan[c].metric, q) \in Nat /\ spent[c][k] \in Nat
        BY <1>1, BudgetAssumption DEF BudgetAssumption, Amount, CallStates, TypeOK
    <2>3. spent' \in [CapIds -> [Keys -> 0..Ceiling]]
        BY <2>1, <2>2, SumsStayBelow DEF TypeOK
    <2>4. [q EXCEPT !.owed = q.owed \ {<<c, k>>}] \in CallStates
        BY <1>1 DEF CallStates
    <2>5. req' \in [Requests -> CallStates]
        BY <1>1, <2>1, <2>4
    <2>6. QED
        BY <1>8, <2>3, <2>5 DEF Charge, TypeOK
<1>9. CASE ChargeLost(r)
    <2>1. \A ck : [q EXCEPT !.owed = q.owed \ {ck}] \in CallStates
        BY <1>1 DEF CallStates
    <2>2. req' \in [Requests -> CallStates]
        BY <1>1, <1>9, <2>1 DEF ChargeLost
    <2>3. QED
        BY <1>9, <2>2 DEF ChargeLost, TypeOK
<1>10. QED
    BY <1>2, <1>3, <1>4, <1>5, <1>6, <1>7, <1>8, <1>9

LEMMA ForgetTyped ==
    ASSUME TypeOK, NEW STATE room, Forget(room)
    PROVE  req' \in [Requests -> CallStates]
<1>1. ASSUME NEW r \in Requests
      PROVE  [req[r] EXCEPT !.over = req[r].over \ room] \in CallStates
    <2>1. req[r] \in CallStates
        BY DEF TypeOK
    <2>2. req[r].over \ room \in SUBSET CapIds
        BY <2>1 DEF CallStates
    <2>3. QED
        BY <2>1, <2>2 DEF CallStates
<1>2. QED
    BY <1>1 DEF Forget

LEMMA EditTyped ==
    ASSUME TypeOK, NEW p \in Procs, NEW c \in CapIds, NEW cap \in CapRecords, Edit(p, c, cap)
    PROVE  TypeOK'
<1>1. req' \in [Requests -> CallStates]
    BY ForgetTyped DEF Edit
<1>2. caps' \in CapLists
    BY DEF Edit, TypeOK, CapLists
<1>3. cache' \in [Procs -> [fresh : BOOLEAN, list : CapLists]]
    BY StartTyped DEF Edit, TypeOK
<1>4. edits' \in 0..MaxEdits
    BY BudgetAssumption DEF BudgetAssumption, Edit, TypeOK
<1>5. QED
    BY <1>1, <1>2, <1>3, <1>4 DEF Edit, TypeOK

LEMMA OthersTyped ==
    ASSUME TypeOK,
           \/ \E p \in Procs : Expire(p) \/ Crash(p)
           \/ \E p \in Procs, c \in CapIds : Create(p, c) \/ Patch(p, c) \/ Delete(p, c)
           \/ \E period \in Periods : NextWindow(period)
    PROVE  TypeOK'
<1>0. \A c \in CapIds : caps[c] \in CapRecords
    BY DEF TypeOK, CapLists
<1>1. ASSUME NEW p \in Procs, Expire(p)
      PROVE  TypeOK'
    BY <1>1, StartTyped DEF Expire, TypeOK
<1>2. ASSUME NEW p \in Procs, Crash(p)
      PROVE  TypeOK'
    <2>1. req' \in [Requests -> CallStates]
        BY <1>2, StartTyped DEF Crash, TypeOK
    <2>2. look' \in [Requests -> [Uses -> Lookups]]
        BY <1>2, ListsTyped DEF Crash, TypeOK
    <2>3. rec' \in Reconciliations
        BY <1>2, StartTyped DEF Crash, TypeOK
    <2>4. cache' \in [Procs -> [fresh : BOOLEAN, list : CapLists]]
        BY <1>2, StartTyped DEF Crash, TypeOK
    <2>5. QED
        BY <1>2, <2>1, <2>2, <2>3, <2>4 DEF Crash, TypeOK
<1>3. ASSUME NEW p \in Procs, NEW c \in CapIds, Create(p, c)
      PROVE  TypeOK'
    <2>1. [caps[c] EXCEPT !.state = "on"] \in CapRecords
        BY <1>0 DEF CapRecords
    <2>2. PICK cap \in CapRecords : cap = [caps[c] EXCEPT !.state = "on"]
        BY <2>1
    <2>3. Edit(p, c, cap)
        BY <1>3, <2>2 DEF Create, Edit
    <2>4. QED
        BY <2>3, EditTyped
<1>4. ASSUME NEW p \in Procs, NEW c \in CapIds, Delete(p, c)
      PROVE  TypeOK'
    <2>1. [caps[c] EXCEPT !.state = "deleted"] \in CapRecords
        BY <1>0 DEF CapRecords
    <2>2. PICK cap \in CapRecords : cap = [caps[c] EXCEPT !.state = "deleted"]
        BY <2>1
    <2>3. Edit(p, c, cap)
        BY <1>4, <2>2 DEF Delete, Edit
    <2>4. QED
        BY <2>3, EditTyped
<1>5. ASSUME NEW p \in Procs, NEW c \in CapIds, Patch(p, c)
      PROVE  TypeOK'
    <2>1. PICK to \in {"on", "off"}, ch \in Changes :
            Edit(p, c, [caps[c] EXCEPT !.state = to, !.limit = ch.limit,
                                       !.period = ch.period, !.action = ch.action])
        BY <1>5 DEF Patch
    <2>2. /\ ch.limit \in Nat \ {0}
          /\ ch.period \in Periods
          /\ ch.action \in Actions
        BY BudgetAssumption DEF BudgetAssumption
    <2>3. [caps[c] EXCEPT !.state = to, !.limit = ch.limit,
                          !.period = ch.period, !.action = ch.action] \in CapRecords
        BY <1>0, <2>2 DEF CapRecords
    <2>4. PICK cap \in CapRecords :
            cap = [caps[c] EXCEPT !.state = to, !.limit = ch.limit,
                                  !.period = ch.period, !.action = ch.action]
        BY <2>3
    <2>5. Edit(p, c, cap)
        BY <2>1, <2>4 DEF Edit
    <2>6. QED
        BY <2>5, EditTyped
<1>6. ASSUME NEW period \in Periods, NextWindow(period)
      PROVE  TypeOK'
    <2>1. req' \in [Requests -> CallStates]
        BY <1>6, ForgetTyped DEF NextWindow
    <2>2. now' \in [Periods -> Windows]
        BY <1>6, BudgetAssumption DEF BudgetAssumption, NextWindow, TypeOK, Windows
    <2>3. QED
        BY <1>6, <2>1, <2>2 DEF NextWindow, TypeOK
<1>7. QED
    BY <1>1, <1>2, <1>3, <1>4, <1>5, <1>6

\* What was recorded in a window, and what analytics answers, are sums.
LEMMA SumTyped ==
    ASSUME TypeOK, NEW c \in CapIds, NEW period \in Periods
    PROVE  \A w : Sum(c, period, w) \in 0..Ceiling
<1>1. \A w \in Windows : total[c][<<period, w>>] \in 0..Ceiling
    BY DEF TypeOK, Keys
<1>2. 0 \in 0..Ceiling
    BY BudgetAssumption DEF BudgetAssumption
<1>3. QED
    BY <1>1, <1>2 DEF Sum

LEMMA AnswersTyped ==
    ASSUME TypeOK, NEW c \in CapIds, NEW period \in Periods, NEW n \in Windows,
           NEW value \in Analytics(c, period, n)
    PROVE  value \in 0..Ceiling
<1>1. PICK before \in 0..Sum(c, period, n - 1),
           missing \in IF period = "month" THEN 0..Sum(c, period, n) ELSE {0} :
        value = Plus(before, Plus(Sum(c, period, n) - missing, Sum(c, period, n + 1)))
    BY DEF Analytics
<1>2. PICK all \in Nat, later \in Nat, past \in Nat :
        all = Sum(c, period, n) /\ later = Sum(c, period, n + 1) /\ past = Sum(c, period, n - 1)
    BY SumTyped
<1>3. before \in Nat /\ all - missing \in Nat
    BY <1>1, <1>2
<1>4. Plus(all - missing, later) \in Nat
    BY <1>3, SumsStayBelow
<1>5. QED
    BY <1>1, <1>2, <1>3, <1>4, SumsStayBelow

LEMMA ReconcileTyped ==
    ASSUME TypeOK,
           (\E p \in Procs : StartReconcile(p)) \/ ReadTotal \/ WriteCounter \/ EndReconcile
    PROVE  TypeOK'
<1>1. ASSUME NEW p \in Procs, StartReconcile(p)
      PROVE  TypeOK'
    <2>1. Quiet \in BOOLEAN
        BY DEF Quiet
    <2>2. rec' \in Reconciliations
        BY <1>1, <2>1, StartTyped DEF StartReconcile, TypeOK, Reconciliations
    <2>3. QED
        BY <1>1, <2>2 DEF StartReconcile, TypeOK
<1>2. CASE ReadTotal
    <2>1. PICK c \in rec.left :
            \E value \in Analytics(c, rec.list[c].period, rec.at[rec.list[c].period]) :
               rec' = [rec EXCEPT !.st = "write", !.cap = c, !.value = value]
        BY <1>2 DEF ReadTotal
    <2>2. PICK period \in Periods : period = rec.list[c].period
        BY DEF TypeOK, Reconciliations, CapLists, CapRecords
    <2>3. PICK n \in Windows : n = rec.at[period]
        BY DEF TypeOK, Reconciliations
    <2>4. PICK value \in Analytics(c, period, n) :
            rec' = [rec EXCEPT !.st = "write", !.cap = c, !.value = value]
        BY <2>1, <2>2, <2>3
    <2>5. c \in CapIds
        BY DEF TypeOK, Reconciliations
    <2>6. value \in 0..Ceiling
        BY <2>5, AnswersTyped
    <2>7. rec' \in Reconciliations
        BY <2>4, <2>5, <2>6 DEF TypeOK, Reconciliations
    <2>8. QED
        BY <1>2, <2>7 DEF ReadTotal, TypeOK
<1>3. CASE WriteCounter
    <2>1. /\ rec.cap \in CapIds /\ rec.value \in 0..Ceiling
          /\ WindowKey(rec.list[rec.cap], rec.at) \in Keys
        BY KeysTyped DEF TypeOK, Reconciliations
    <2>2. spent' \in [CapIds -> [Keys -> 0..Ceiling]]
        BY <1>3, <2>1 DEF WriteCounter, TypeOK
    <2>3. rec' \in Reconciliations
        BY <1>3 DEF WriteCounter, TypeOK, Reconciliations
    <2>4. req' \in [Requests -> CallStates]
        BY <1>3, ForgetTyped DEF WriteCounter
    <2>5. QED
        BY <1>3, <2>2, <2>3, <2>4 DEF WriteCounter, TypeOK
<1>4. CASE EndReconcile
    BY <1>4, StartTyped DEF EndReconcile, TypeOK
<1>5. QED
    BY <1>1, <1>2, <1>3, <1>4

\* One step of the specification, by the lemma that covers it.
LEMMA StepTypeOK == TypeOK /\ [Next]_vars => TypeOK'
<1> SUFFICES ASSUME TypeOK, [Next]_vars
             PROVE  TypeOK'
    OBVIOUS
<1>1. ASSUME NEW r \in Requests, Handle(r)
      PROVE  TypeOK'
    BY <1>1, LookingTyped, CallTyped DEF Handle
<1>2. ASSUME NEW r \in Requests, Arrive(r) \/ RecordLost(r) \/ ChargeLost(r)
      PROVE  TypeOK'
    BY <1>2, CallTyped
<1>3. CASE UNCHANGED vars
    BY <1>3 DEF vars, TypeOK
<1>4. QED
    BY <1>1, <1>2, <1>3, OthersTyped, ReconcileTyped DEF Next

\* Documents, caches, calls and counters are well formed in every reachable
\* state, whatever fails and whatever administrators do.
THEOREM TypeCorrect == Spec => []TypeOK
<1>1. QED
    BY InitTypeOK, StepTypeOK, PTL DEF Spec

-----------------------------------------------------------------------------
(* The realignment of the counters.                                         *)

\* Only a record changes the totals, and it ends the quiet of a reconciliation.
LEMMA TotalsMove ==
    ASSUME TypeOK, [Next]_vars
    PROVE  \/ UNCHANGED <<total, now, rec>>
           \/ /\ now' = now /\ rec' = [rec EXCEPT !.quiet = FALSE]
              /\ \A c \in CapIds, k \in Keys : k[2] > now[k[1]] => total'[c][k] = total[c][k]
           \/ UNCHANGED <<total, rec>> /\ \E period \in Periods : NextWindow(period)
           \/ UNCHANGED <<total, now>> /\ rec' = Resting
           \/ UNCHANGED <<total, now>> /\ \E p \in Procs : StartReconcile(p)
           \/ UNCHANGED <<total, now>> /\ (ReadTotal \/ WriteCounter)
<1>1. ASSUME NEW r \in Requests, Record(r)
      PROVE  /\ now' = now /\ rec' = [rec EXCEPT !.quiet = FALSE]
             /\ \A c \in CapIds, k \in Keys : k[2] > now[k[1]] => total'[c][k] = total[c][k]
  <2>1. \A k \in Keys : k[2] \in Int /\ now[k[1]] \in Int
      BY DEF Keys, Windows, TypeOK
  <2>2. \A k \in Keys : k[2] > now[k[1]] => k[2] # now[k[1]]
      BY <2>1
  <2>3. QED
      BY <1>1, <2>2 DEF Record
<1>2. ASSUME NEW r \in Requests, Arrive(r) \/ RecordLost(r) \/ ChargeLost(r)
      PROVE  UNCHANGED <<total, now, rec>>
  <2>1. Arrive(r) => UNCHANGED <<total, now, rec>>
      BY Zenon DEF Arrive
  <2>2. RecordLost(r) => UNCHANGED <<total, now, rec>>
      BY Zenon DEF RecordLost
  <2>3. ChargeLost(r) => UNCHANGED <<total, now, rec>>
      BY Zenon DEF ChargeLost
  <2>4. QED
      BY <1>2, <2>1, <2>2, <2>3
<1>3. ASSUME NEW r \in Requests, Handle(r), ~Record(r)
      PROVE  UNCHANGED <<total, now, rec>>
  <2>1. ASSUME NEW u \in Uses, Cached(r, u) \/ Find(r, u) \/ Found(r, u)
        PROVE  UNCHANGED <<total, now, rec>>
      BY <2>1 DEF Cached, Find, Found
  <2>2. CheckCap(r) => UNCHANGED <<total, now, rec>>
      BY Zenon DEF CheckCap
  <2>3. Proceed(r) => UNCHANGED <<total, now, rec>>
      BY Zenon DEF Proceed
  <2>4. Answer(r) => UNCHANGED <<total, now, rec>>
      BY Zenon DEF Answer
  <2>5. Uncounted(r) \/ Finish(r) => UNCHANGED <<total, now, rec>>
      BY Zenon DEF Uncounted, Finish
  <2>6. Charge(r) => UNCHANGED <<total, now, rec>>
      BY Zenon DEF Charge
  <2>7. QED
      BY <1>3, <2>1, <2>2, <2>3, <2>4, <2>5, <2>6 DEF Handle
<1>4. ASSUME NEW p \in Procs, Expire(p)
      PROVE  UNCHANGED <<total, now, rec>>
    BY <1>4 DEF Expire
<1>5. ASSUME NEW p \in Procs, Crash(p)
      PROVE  UNCHANGED <<total, now>> /\ (rec' = rec \/ rec' = Resting)
    BY <1>5, Zenon DEF Crash
<1>6. ASSUME NEW p \in Procs, NEW c \in CapIds, Create(p, c) \/ Patch(p, c) \/ Delete(p, c)
      PROVE  UNCHANGED <<total, now, rec>>
  <2>1. \A cap : Edit(p, c, cap) => UNCHANGED <<total, now, rec>>
      BY Zenon DEF Edit
  <2>2. Create(p, c) => UNCHANGED <<total, now, rec>>
      BY <2>1, Zenon DEF Create
  <2>3. Delete(p, c) => UNCHANGED <<total, now, rec>>
      BY <2>1, Zenon DEF Delete
  <2>4. Patch(p, c) => UNCHANGED <<total, now, rec>>
      BY <2>1, Zenon DEF Patch
  <2>5. QED
      BY <1>6, <2>2, <2>3, <2>4
<1>7. ASSUME NEW p \in Procs, StartReconcile(p)
      PROVE  UNCHANGED <<total, now>>
    BY <1>7 DEF StartReconcile
<1>8. ASSUME NEW period \in Periods, NextWindow(period)
      PROVE  UNCHANGED <<total, rec>>
    BY <1>8 DEF NextWindow
<1>9. ReadTotal \/ WriteCounter => UNCHANGED <<total, now>>
    BY Zenon DEF ReadTotal, WriteCounter
<1>10. EndReconcile => UNCHANGED <<total, now>> /\ rec' = Resting
    BY DEF EndReconcile
<1>11. UNCHANGED vars => UNCHANGED <<total, now, rec>>
    BY DEF vars
<1>12. QED
    BY <1>1, <1>2, <1>3, <1>4, <1>5, <1>6, <1>7, <1>8, <1>9, <1>10, <1>11 DEF Next

\* What an answer of analytics comes to: the part of the window before, the window
\* without its missing first day, and the window after it.
LEMMA ReadBounds ==
    ASSUME NEW before \in Nat, NEW past \in Nat, before <= past,
           NEW all \in 0..Ceiling, NEW missing \in Nat, missing <= all
    PROVE  /\ Plus(before, Plus(all - missing, 0)) <= all + past
           /\ missing = 0 => all <= Plus(before, Plus(all - missing, 0))
BY BudgetAssumption DEF Plus, BudgetAssumption

\* A reconciliation reads what has been recorded by then.
LEMMA ReadIsRight ==
    ASSUME TypeOK, QuietRead, ReadTotal, rec.quiet
    PROVE  /\ rec'.quiet = rec.quiet /\ rec'.at = rec.at
           /\ Fits(rec'.cap, WindowKey(rec'.list[rec'.cap], rec'.at), rec'.value)
<1>1. PICK c \in rec.left :
        \E value \in Analytics(c, rec.list[c].period, rec.at[rec.list[c].period]) :
           rec' = [rec EXCEPT !.st = "write", !.cap = c, !.value = value]
    BY DEF ReadTotal
<1>2. PICK period \in Periods : period = rec.list[c].period
    BY DEF TypeOK, Reconciliations, CapLists, CapRecords
<1>3. PICK n \in Windows : n = rec.at[period]
    BY DEF TypeOK, Reconciliations
<1>4. c \in CapIds /\ <<period, n>> \in Keys
    BY DEF TypeOK, Reconciliations, Keys
<1>5. PICK value \in Analytics(c, period, n) :
        rec' = [rec EXCEPT !.st = "write", !.cap = c, !.value = value]
    BY <1>1, <1>2, <1>3
<1>6. PICK before \in 0..Sum(c, period, n - 1),
           missing \in IF period = "month" THEN 0..Sum(c, period, n) ELSE {0} :
        value = Plus(before, Plus(Sum(c, period, n) - missing, Sum(c, period, n + 1)))
    BY DEF Analytics
<1>7. Sum(c, period, n) = total[c][<<period, n>>]
    BY DEF Sum
<1>8. Sum(c, period, n + 1) = 0
  <2>1. rec.st # "idle" /\ rec.quiet
      BY <1>5 DEF ReadTotal, TypeOK, Reconciliations
  <2>2. CASE n + 1 \in Windows
    <3>1. <<period, n + 1>> \in Keys /\ <<period, n + 1>>[2] > rec.at[<<period, n + 1>>[1]]
        BY <1>3, <2>2 DEF Keys, Windows
    <3>2. total[c][<<period, n + 1>>] = 0
        BY <1>4, <2>1, <3>1 DEF QuietRead
    <3>3. QED
        BY <2>2, <3>2 DEF Sum
  <2>3. QED
      BY <2>2 DEF Sum
<1>9. PICK all \in 0..Ceiling, past \in 0..Ceiling :
        all = Sum(c, period, n) /\ past = Sum(c, period, n - 1)
    BY <1>4, SumTyped
<1>10. missing \in 0..all /\ (period = "day" => missing = 0)
    BY <1>6, <1>9
<1>11. rec'.value = Plus(before, Plus(all - missing, 0)) /\ rec'.cap = c /\ rec'.quiet = rec.quiet
       /\ rec'.list = rec.list /\ rec'.at = rec.at
    BY <1>5, <1>6, <1>8, <1>9 DEF TypeOK, Reconciliations
<1>12. /\ rec'.value <= all + past
       /\ period = "day" => all <= rec'.value
  <2>1. before \in Nat /\ past \in Nat /\ before <= past /\ missing \in Nat /\ missing <= all
      BY <1>6, <1>9, <1>10
  <2>2. QED
      BY <1>10, <1>11, <2>1, ReadBounds
<1>13. WindowKey(rec'.list[c], rec'.at) = <<period, n>>
    BY <1>2, <1>3, <1>11 DEF WindowKey
<1>14. QED
    BY <1>7, <1>9, <1>11, <1>12, <1>13 DEF Fits

LEMMA QuietStays ==
    ASSUME TypeOK, QuietRead, [Next]_vars
    PROVE  QuietRead'
<1> USE DEF QuietRead
<1>1. CASE UNCHANGED <<total, now, rec>>
    BY <1>1 DEF Sum, Fits, Aligned, WindowKey
<1>2. CASE /\ now' = now /\ rec' = [rec EXCEPT !.quiet = FALSE]
           /\ \A c \in CapIds, k \in Keys : k[2] > now[k[1]] => total'[c][k] = total[c][k]
  <2>1. ~rec'.quiet
      BY <1>2 DEF TypeOK, Reconciliations
  <2>2. QED
      BY <1>2, <2>1
<1>3. CASE UNCHANGED <<total, rec>> /\ \E period \in Periods : NextWindow(period)
  <2>1. \A p \in Periods : now[p] \in Int /\ now'[p] \in Int /\ now[p] <= now'[p]
      BY <1>3 DEF NextWindow, TypeOK, Windows
  <2>2. \A k \in Keys : k[2] \in Int /\ k[1] \in Periods
      BY DEF Keys, Windows
  <2>3. \A k \in Keys : k[2] > now'[k[1]] => k[2] > now[k[1]]
      BY <2>1, <2>2
  <2>4. QED
      BY <1>3, <2>3 DEF Sum, Fits, Aligned, WindowKey
<1>4. CASE UNCHANGED <<total, now>> /\ rec' = Resting
  <2>1. rec'.st = "idle"
      BY <1>4 DEF Resting
  <2>2. QED
      BY <1>4, <2>1
<1>5. CASE UNCHANGED <<total, now>> /\ \E p \in Procs : StartReconcile(p)
  <2>1. rec'.st = "read" /\ rec'.at = now
      BY <1>5 DEF StartReconcile, Resting
  <2>2. QED
      BY <1>5, <2>1
<1>6. CASE UNCHANGED <<total, now>> /\ ReadTotal
  <2>1. rec'.quiet = rec.quiet /\ rec'.at = rec.at /\ rec.st = "read"
      BY <1>6 DEF ReadTotal, TypeOK, Reconciliations
  <2>2. rec.quiet => Fits(rec'.cap, WindowKey(rec'.list[rec'.cap], rec'.at), rec'.value)
      BY <1>6, ReadIsRight
  <2>3. \A c, k, value : Fits(c, k, value) => Fits(c, k, value)'
      BY <1>6 DEF Fits, Sum
  <2>4. rec.quiet => Fits(rec.cap, Aligned, rec.value)'
      BY <2>2, <2>3 DEF Aligned, WindowKey
  <2>5. QED
      BY <1>6, <2>1, <2>4
<1>7. CASE UNCHANGED <<total, now>> /\ WriteCounter
  <2>1. rec'.st = "read" /\ rec'.quiet = rec.quiet /\ rec'.at = rec.at /\ rec.st = "write"
      BY <1>7 DEF WriteCounter, TypeOK, Reconciliations
  <2>2. QED
      BY <1>7, <2>1
<1>8. QED
    BY <1>1, <1>2, <1>3, <1>4, <1>5, <1>6, <1>7, TotalsMove

LEMMA QuietWrite ==
    ASSUME TypeOK, QuietRead, [Next]_vars, rec.st = "write", rec'.st = "read", rec.quiet
    PROVE  Fits(rec.cap, Aligned, spent'[rec.cap][Aligned])
<1>1. WriteCounter
  <2>1. ~UNCHANGED <<total, now, rec>> /\ rec' # [rec EXCEPT !.quiet = FALSE] /\ rec' # rec
      BY DEF TypeOK, Reconciliations
  <2>2. rec' # Resting /\ ~ReadTotal /\ \A p \in Procs : ~StartReconcile(p)
      BY DEF Resting, ReadTotal, StartReconcile
  <2>3. QED
      BY <2>1, <2>2, TotalsMove
<1>2. PICK c \in CapIds, k \in Keys : c = rec.cap /\ k = Aligned
    BY KeysTyped DEF TypeOK, Reconciliations, Aligned
<1>3. spent' = [spent EXCEPT ![c][k] = rec.value]
    BY <1>1, <1>2 DEF WriteCounter, Aligned
<1>4. spent'[c][k] = rec.value
    BY <1>3 DEF TypeOK
<1>5. QED
    BY <1>2, <1>4 DEF QuietRead

\* Whatever caps are edited, windows roll over and processes crash: a realignment
\* during which no call is counted leaves the day's total in a counter of a day, and
\* never more than the window and the one before it hold.
THEOREM QuietAlwaysExact == Spec => QuietReconcileExact
<1>1. Init => QuietRead
  <2>1. ASSUME Init
        PROVE  rec.st = "idle" /\ \A c \in CapIds, k \in Keys : total[c][k] = 0
      BY <2>1 DEF Init, Resting
  <2>2. QED
      BY <2>1 DEF QuietRead
<1>2. TypeOK /\ QuietRead /\ [Next]_vars
      => [rec.st = "write" /\ rec'.st = "read" /\ rec.quiet
          => Fits(rec.cap, Aligned, spent'[rec.cap][Aligned])]_vars
    BY QuietWrite
<1>3. TypeOK /\ QuietRead /\ [Next]_vars => QuietRead'
    BY QuietStays
<1>4. QED
    BY <1>1, <1>2, <1>3, InitTypeOK, StepTypeOK, PTL DEF Spec, QuietReconcileExact

-----------------------------------------------------------------------------
(* While no cap is edited and no counter is realigned.                      *)

\* Steps of a call and the steps of the process and the calendar are all there is.
LEMMA StepsLeft ==
    ASSUME Undisturbed, TypeOK, rec.st = "idle", Next
    PROVE  \/ \E r \in Requests : Arrive(r) \/ Handle(r) \/ RecordLost(r) \/ ChargeLost(r)
           \/ \E p \in Procs : Expire(p) \/ Crash(p)
           \/ \E period \in Periods : NextWindow(period)
<1>1. edits = 0
    BY DEF Undisturbed, TypeOK
<1>2. \A p \in Procs, c \in CapIds : ~Create(p, c) /\ ~Patch(p, c) /\ ~Delete(p, c)
    BY <1>1 DEF Undisturbed, Create, Patch, Delete, Edit
<1>3. \A p \in Procs : ~StartReconcile(p)
    BY DEF Undisturbed, StartReconcile
<1>4. ~ReadTotal /\ ~WriteCounter /\ ~EndReconcile
    BY DEF ReadTotal, WriteCounter, EndReconcile
<1>5. QED
    BY <1>2, <1>3, <1>4 DEF Next

\* The list that a lookup hands to the handler is the one in the store.
LEMMA ListInUse ==
    ASSUME TypeOK, ListsCurrent, NEW r \in Requests, NEW u \in Uses, Cached(r, u) \/ Found(r, u)
    PROVE  /\ Use(r, u, Plan)
           /\ look[r][u].st # "off"
           /\ look' = [look EXCEPT ![r][u] = NotLooking]
           /\ UNCHANGED <<caps, spent, total, now, rec>>
           /\ \A p \in Procs : cache'[p].fresh => cache'[p].list = Plan
<1>1. req[r].proc \in Procs
    BY DEF TypeOK, CallStates
<1>2. CASE Cached(r, u)
    <2>1. cache[req[r].proc].list = Plan
        BY <1>1, <1>2 DEF Cached, ListsCurrent
    <2>2. QED
        BY <1>2, <2>1 DEF Cached, ListsCurrent
<1>3. CASE Found(r, u)
    <2>1. look[r][u].list = Plan
        BY <1>3 DEF Found, ListsCurrent
    <2>2. QED
        BY <1>3, <2>1 DEF Found, ListsCurrent, TypeOK
<1>4. QED
    BY <1>2, <1>3

\* The state of the call after it has been handed the list.
LEMMA AfterUse ==
    ASSUME TypeOK, NEW r \in Requests, NEW u \in Uses, Use(r, u, Plan)
    PROVE  /\ \A s \in Requests \ {r} : req'[s] = req[s]
           /\ req'[r].kind = req[r].kind /\ req'[r].app = req[r].app
           /\ req'[r].model = req[r].model /\ req'[r].over = req[r].over
           /\ u = "enforce" =>
                /\ req'[r].pc = "check" /\ req'[r].list = Plan /\ req'[r].owed = req[r].owed
                /\ req'[r].left = Applying(Plan, req[r])
           /\ u # "enforce" =>
                /\ req'[r].pc = req[r].pc /\ req'[r].list = req[r].list
                /\ req'[r].left = req[r].left
                /\ req'[r].owed = req[r].owed \cup
                      {<<c, WindowKey(Plan[c], now)>> :
                         c \in {d \in Applying(Plan, req[r]) : Plan[d].metric = u}}
<1> DEFINE q == req[r]
           new == q.owed \cup {<<c, WindowKey(Plan[c], now)>> :
                                  c \in {d \in Applying(Plan, q) : Plan[d].metric = u}}
<1>1. q \in CallStates /\ req \in [Requests -> CallStates]
    BY DEF TypeOK
<1>2. CASE u = "enforce"
    <2>1. req' = [req EXCEPT ![r] = [q EXCEPT !.pc = "check", !.list = Plan,
                                              !.left = Applying(Plan, q)]]
        BY <1>2 DEF Use
    <2>2. QED
        BY <1>1, <1>2, <2>1 DEF CallStates
<1>3. CASE u # "enforce"
    <2>1. req' = [req EXCEPT ![r] = [q EXCEPT !.owed = new]]
        BY <1>3 DEF Use
    <2> HIDE DEF new
    <2>2. /\ \A s \in Requests \ {r} : req'[s] = req[s]
          /\ req'[r] = [q EXCEPT !.owed = new]
        BY <1>1, <2>1
    <2>3. /\ req'[r].kind = q.kind /\ req'[r].app = q.app /\ req'[r].model = q.model
          /\ req'[r].over = q.over /\ req'[r].pc = q.pc /\ req'[r].list = q.list
          /\ req'[r].left = q.left /\ req'[r].owed = new
        BY <1>1, <2>2 DEF CallStates
    <2>4. QED
        BY <1>3, <2>2, <2>3 DEF new
<1>4. QED
    BY <1>2, <1>3

LEMMA AskingStates ==
    ASSUME NEW uses, NEW u \in Uses
    PROVE  /\ Asking(uses)[u].st = IF u \in uses THEN "ask" ELSE "off"
           /\ Asking(uses)[u].list = NoList
BY DEF Asking

LEMMA InitLists == Init => ListsCurrent
BY AskingStates DEF Init, ListsCurrent, Resting, Empty, Idle, Uses, Metrics

LEMMA StepLists ==
    ASSUME Undisturbed, TypeOK, ListsCurrent, [Next]_vars
    PROVE  ListsCurrent'
<1> DEFINE Fine(r) ==
            /\ req[r].pc = "check" => req[r].list = Plan
            /\ req[r].owed # {} => req[r].pc = "count"
            /\ look[r]["enforce"].st # "off" => req[r].pc = "look"
            /\ \A u \in Metrics : look[r][u].st # "off" => req[r].pc = "count"
            /\ \A u \in Uses : look[r][u].st = "find" => look[r][u].list = Plan
<1>a. \A r \in Requests : Fine(r)
    BY DEF ListsCurrent
<1>b. /\ Idle.pc = "idle" /\ Idle.owed = {}
      /\ req \in [Requests -> CallStates] /\ look \in [Requests -> [Uses -> Lookups]]
      /\ \A r \in Requests : req[r] \in CallStates
    BY DEF Idle, TypeOK
<1>1. CASE UNCHANGED vars
    BY <1>1 DEF vars, ListsCurrent
<1>2. ASSUME NEW r \in Requests, NEW u \in Uses, Cached(r, u) \/ Found(r, u)
      PROVE  ListsCurrent'
    <2>1. /\ look[r][u].st # "off"
          /\ look' = [look EXCEPT ![r][u] = NotLooking]
          /\ UNCHANGED <<caps, rec>>
          /\ \A p \in Procs : cache'[p].fresh => cache'[p].list = Plan
          /\ Use(r, u, Plan)
        BY <1>2, ListInUse
    <2>2. \A s \in Requests \ {r} : Fine(s)'
        BY <1>a, <1>b, <2>1, AfterUse
    <2>3. /\ \A v \in Uses \ {u} : look'[r][v] = look[r][v]
          /\ look'[r][u].st = "off"
        BY <1>b, <2>1 DEF NotLooking
    <2>4. CASE u = "enforce"
        <3>1. req[r].pc = "look" /\ req[r].owed = {}
            BY <1>a, <2>1, <2>4
        <3>2. req'[r].pc = "check" /\ req'[r].list = Plan /\ req'[r].owed = {}
            BY <1>b, <2>1, <2>4, <3>1, AfterUse
        <3>3. \A v \in Metrics : look'[r][v].st = "off"
            BY <1>a, <2>3, <2>4, <3>1 DEF Uses, Metrics
        <3>4. Fine(r)'
            BY <1>a, <2>3, <2>4, <3>2, <3>3
        <3>5. QED
            BY <2>1, <2>2, <3>4 DEF ListsCurrent
    <2>5. CASE u # "enforce"
        <3>1. req[r].pc = "count"
            BY <1>a, <2>1, <2>5 DEF Uses
        <3>2. req'[r].pc = "count"
            BY <1>b, <2>1, <2>5, <3>1, AfterUse
        <3>3. Fine(r)'
            BY <1>a, <2>3, <2>5, <3>1, <3>2 DEF Uses
        <3>4. QED
            BY <2>1, <2>2, <3>3 DEF ListsCurrent
    <2>6. QED
        BY <2>4, <2>5
<1>3. ASSUME NEW r \in Requests, NEW u \in Uses, Find(r, u)
      PROVE  ListsCurrent'
    <2>1. caps = Plan /\ look[r][u].st = "ask"
        BY <1>3 DEF Find, ListsCurrent
    <2>2. /\ \A s \in Requests \ {r} : look'[s] = look[s]
          /\ \A v \in Uses \ {u} : look'[r][v] = look[r][v]
          /\ look'[r][u].list = Plan
          /\ UNCHANGED req
        BY <1>b, <1>3, <2>1 DEF Find
    <2>3. \A s \in Requests : Fine(s)'
        BY <1>a, <2>1, <2>2 DEF Uses
    <2>4. QED
        BY <1>3, <2>3 DEF Find, ListsCurrent
<1>4. ASSUME NEW r \in Requests, Arrive(r)
      PROVE  ListsCurrent'
    <2>1. PICK kind \in Kinds :
            /\ req'[r].pc = (IF kind = "chat" THEN "look" ELSE "call")
            /\ req'[r].owed = {}
            /\ look'[r] = Asking(IF kind = "chat" THEN {"enforce"} ELSE {})
            /\ \A s \in Requests \ {r} : req'[s] = req[s] /\ look'[s] = look[s]
        BY <1>b, <1>4 DEF Arrive, Idle
    <2>2. Fine(r)'
        BY <2>1, AskingStates DEF Uses, Metrics
    <2>3. \A s \in Requests : Fine(s)'
        BY <1>a, <2>1, <2>2
    <2>4. QED
        BY <1>4, <2>3 DEF Arrive, ListsCurrent
<1>5. ASSUME NEW r \in Requests, Uncounted(r) \/ Finish(r) \/ RecordLost(r) \/ CheckCap(r)
      PROVE  ListsCurrent'
    <2>1. req \in [Requests -> CallStates] /\ req[r] \in CallStates
        BY <1>b
    <2>2. UNCHANGED <<caps, cache, rec, look>>
        BY <1>5 DEF Uncounted, Finish, RecordLost, CheckCap
    <2>3. req[r].pc \in {"call", "count", "log", "check"}
        BY <1>5 DEF Uncounted, Finish, RecordLost, CheckCap
    <2>4. /\ look[r]["enforce"].st = "off"
          /\ \A u \in Metrics : look[r][u].st = "off"
        <3>1. CASE req[r].pc = "count"
            <4>1. Finish(r)
                BY <1>5, <3>1 DEF Uncounted, Finish, RecordLost, CheckCap
            <4>2. QED
                BY <1>a, <3>1, <4>1 DEF Finish
        <3>2. CASE req[r].pc # "count"
            BY <1>a, <2>3, <3>2
        <3>3. QED
            BY <3>1, <3>2
    <2>5. CASE Uncounted(r) \/ Finish(r) \/ RecordLost(r)
        <3>1. req' = [req EXCEPT ![r] = Idle]
            BY <2>5 DEF Uncounted, Finish, RecordLost
        <3>2. req'[r] = Idle /\ \A s \in Requests \ {r} : req'[s] = req[s]
            BY <2>1, <3>1
        <3>3. \A s \in Requests : Fine(s)'
            BY <1>a, <1>b, <2>2, <2>4, <3>2 DEF Uses
        <3>4. QED
            BY <2>2, <3>3 DEF ListsCurrent
    <2>6. CASE CheckCap(r)
        <3>1. PICK c \in req[r].left :
                req' = [req EXCEPT ![r] =
                    IF ~Over(req[r].list[c], c) THEN [@ EXCEPT !.left = req[r].left \ {c}]
                    ELSE IF req[r].list[c].action = "block" THEN Idle
                    ELSE [@ EXCEPT !.left = req[r].left \ {c}, !.hit = TRUE]]
            BY <2>6 DEF CheckCap
        <3>2. \A s \in Requests \ {r} : req'[s] = req[s]
            BY <2>1, <3>1
        <3>3. req'[r] = Idle \/ (/\ req'[r].pc = req[r].pc /\ req'[r].list = req[r].list
                                 /\ req'[r].owed = req[r].owed)
            BY <2>1, <3>1 DEF CallStates
        <3>4. \A s \in Requests : Fine(s)'
            BY <1>a, <1>b, <2>2, <2>4, <3>2, <3>3 DEF Uses
        <3>5. QED
            BY <2>2, <3>4 DEF ListsCurrent
    <2>7. QED
        BY <1>5, <2>5, <2>6
<1>6. ASSUME NEW r \in Requests, Proceed(r) \/ Answer(r)
      PROVE  ListsCurrent'
    <2>1. req \in [Requests -> CallStates] /\ req[r] \in CallStates
        BY <1>b
    <2>2. UNCHANGED <<caps, cache, rec, look>> /\ req[r].pc \in {"check", "call"}
        BY <1>6 DEF Proceed, Answer
    <2>3. /\ \A s \in Requests \ {r} : req'[s] = req[s]
          /\ req'[r].pc \in {"call", "log"} /\ req'[r].owed = req[r].owed
        <3>1. CASE Proceed(r)
            <4>1. PICK m : req' = [req EXCEPT ![r] = [@ EXCEPT !.pc = "call", !.model = m,
                                                            !.hit = FALSE, !.list = NoList]]
                BY <3>1 DEF Proceed
            <4>2. QED
                BY <2>1, <4>1 DEF CallStates
        <3>2. CASE Answer(r)
            <4>1. PICK m, cost : req' = [req EXCEPT ![r] = [@ EXCEPT !.pc = "log", !.model = m,
                                                                   !.cost = cost]]
                BY <3>2 DEF Answer
            <4>2. QED
                BY <2>1, <4>1 DEF CallStates
        <3>3. QED
            BY <1>6, <3>1, <3>2
    <2>4. \A s \in Requests : Fine(s)'
        BY <1>a, <2>2, <2>3 DEF Uses
    <2>5. QED
        BY <2>2, <2>4 DEF ListsCurrent
<1>7. ASSUME NEW r \in Requests, Record(r)
      PROVE  ListsCurrent'
    <2>1. /\ \A s \in Requests \ {r} : req'[s] = req[s] /\ look'[s] = look[s]
          /\ UNCHANGED <<caps, cache>> /\ rec'.st = rec.st
          /\ req'[r].pc = "count"
          /\ look'[r] = Asking({metric \in Metrics : Counts(metric, req[r])})
        BY <1>b, <1>7 DEF Record, TypeOK, CallStates, Reconciliations
    <2>2. Fine(r)'
        BY <2>1, AskingStates DEF Uses, Metrics
    <2>3. \A s \in Requests : Fine(s)'
        BY <1>a, <2>1, <2>2
    <2>4. QED
        BY <2>1, <2>3 DEF ListsCurrent
<1>8. ASSUME NEW r \in Requests, Charge(r) \/ ChargeLost(r)
      PROVE  ListsCurrent'
    <2>1. PICK c \in CapIds, k \in Keys :
            /\ <<c, k>> \in req[r].owed
            /\ req' = [req EXCEPT ![r] = [req[r] EXCEPT !.owed = req[r].owed \ {<<c, k>>}]]
        BY <1>8 DEF Charge, ChargeLost
    <2>2. UNCHANGED <<caps, cache, rec, look>>
        BY <1>8 DEF Charge, ChargeLost
    <2>3. \A s \in Requests \ {r} : req'[s] = req[s]
        BY <1>b, <2>1
    <2>4. /\ req'[r].pc = req[r].pc /\ req'[r].list = req[r].list
          /\ req[r].owed # {}
        BY <1>b, <2>1 DEF CallStates
    <2>5. \A s \in Requests : Fine(s)'
        BY <1>a, <2>2, <2>3, <2>4
    <2>6. QED
        BY <2>2, <2>5 DEF ListsCurrent
<1>9. ASSUME NEW p \in Procs, Expire(p) \/ Crash(p)
      PROVE  ListsCurrent'
    <2>1. \A s \in Requests :
            \/ req'[s] = req[s] /\ look'[s] = look[s]
            \/ req'[s] = Idle /\ look'[s] = Asking({})
        BY <1>b, <1>9 DEF Expire, Crash
    <2>2. \A s \in Requests : Fine(s)'
        BY <1>a, <1>b, <2>1, AskingStates DEF Uses, Metrics
    <2>3. /\ UNCHANGED caps
          /\ rec' = rec \/ rec' = Resting
          /\ \A q \in Procs : cache'[q] = cache[q] \/ cache'[q] = Empty
        BY <1>9 DEF Expire, Crash, TypeOK
    <2>4. QED
        BY <2>2, <2>3 DEF ListsCurrent, Resting, Empty
<1>10. ASSUME NEW period \in Periods, NextWindow(period)
      PROVE  ListsCurrent'
    <2>1. \A s \in Requests :
            /\ req'[s].pc = req[s].pc /\ req'[s].list = req[s].list
            /\ req'[s].owed = req[s].owed /\ look'[s] = look[s]
        BY <1>b, <1>10 DEF NextWindow, Forget, CallStates
    <2>2. \A s \in Requests : Fine(s)'
        BY <1>a, <2>1
    <2>3. QED
        BY <1>10, <2>2 DEF NextWindow, ListsCurrent
<1>11. QED
    <2>1. CASE Next
        BY <2>1, <1>2, <1>3, <1>4, <1>5, <1>6, <1>7, <1>8, <1>9, <1>10, StepsLeft
           DEF Handle, ListsCurrent
    <2>2. QED
        BY <1>1, <2>1

\* The effect of an increment, whether it arrives or is lost.
LEMMA AfterCharge ==
    ASSUME TypeOK, NEW r \in Requests, Charge(r) \/ ChargeLost(r)
    PROVE  /\ \A s \in Requests \ {r} : req'[s] = req[s]
           /\ req'[r].pc = req[r].pc /\ req'[r].left = req[r].left
           /\ req'[r].kind = req[r].kind /\ req'[r].app = req[r].app
           /\ req'[r].model = req[r].model /\ req'[r].over = req[r].over
           /\ req'[r].cost = req[r].cost
           /\ UNCHANGED <<caps, now, look>>
           /\ \E c \in CapIds, k \in Keys :
                /\ <<c, k>> \in req[r].owed
                /\ req'[r].owed = req[r].owed \ {<<c, k>>}
                /\ \A d \in CapIds, j \in Keys :
                     IF d = c /\ j = k
                     THEN /\ spent[d][j] <= spent'[d][j]
                          /\ spent'[d][j] <= spent[d][j] + Amount(Plan[c].metric, req[r])
                     ELSE spent'[d][j] = spent[d][j]
<1>1. PICK c \in CapIds, k \in Keys :
        /\ <<c, k>> \in req[r].owed
        /\ \/ spent' = [spent EXCEPT ![c][k] = Plus(spent[c][k], Amount(Plan[c].metric, req[r]))]
           \/ spent' = spent
        /\ req' = [req EXCEPT ![r] = [req[r] EXCEPT !.owed = req[r].owed \ {<<c, k>>}]]
    BY DEF Charge, ChargeLost
<1>2. req \in [Requests -> CallStates] /\ req[r] \in CallStates
    BY DEF TypeOK
<1>3. /\ \A s \in Requests \ {r} : req'[s] = req[s]
      /\ req'[r].pc = req[r].pc /\ req'[r].left = req[r].left
      /\ req'[r].kind = req[r].kind /\ req'[r].app = req[r].app
      /\ req'[r].model = req[r].model /\ req'[r].over = req[r].over
      /\ req'[r].cost = req[r].cost
      /\ req'[r].owed = req[r].owed \ {<<c, k>>}
    BY <1>1, <1>2 DEF CallStates
<1>4. UNCHANGED <<caps, now, look>>
    BY DEF Charge, ChargeLost
<1> DEFINE amount == Amount(Plan[c].metric, req[r])
<1>5. amount \in Nat
    BY <1>2, BudgetAssumption DEF BudgetAssumption, Amount, CallStates
<1>6. spent \in [CapIds -> [Keys -> 0..Ceiling]] /\ spent[c][k] \in 0..Ceiling
    BY DEF TypeOK
<1>7. /\ spent[c][k] <= Plus(spent[c][k], amount)
      /\ Plus(spent[c][k], amount) <= spent[c][k] + amount
    <2> HIDE DEF amount
    <2>1. spent[c][k] \in Nat /\ spent[c][k] <= Ceiling
        BY <1>6, BudgetAssumption DEF BudgetAssumption
    <2>2. QED
        BY <1>5, <2>1, SumsStayBelow
<1>8. /\ spent[c][k] <= spent[c][k] + amount
      /\ spent[c][k] <= spent[c][k]
    BY <1>5, <1>6
<1>9. \A d \in CapIds, j \in Keys :
        IF d = c /\ j = k
        THEN spent[d][j] <= spent'[d][j] /\ spent'[d][j] <= spent[d][j] + amount
        ELSE spent'[d][j] = spent[d][j]
    <2> HIDE DEF amount
    <2>1. CASE spent' = spent
        BY <1>8, <2>1
    <2>2. CASE spent' = [spent EXCEPT ![c][k] = Plus(spent[c][k], amount)]
        BY <1>6, <1>7, <2>2
    <2>3. QED
        BY <1>1, <2>1, <2>2 DEF amount
<1>10. QED
    BY <1>1, <1>3, <1>4, <1>9

\* A turn of the loop of enforcement.
LEMMA AfterCheck ==
    ASSUME TypeOK, ListsCurrent, NEW r \in Requests, CheckCap(r)
    PROVE  /\ req[r].pc = "check"
           /\ \A s \in Requests \ {r} : req'[s] = req[s]
           /\ UNCHANGED <<spent, now, look>>
           /\ \/ req'[r] = Idle
              \/ /\ req'[r].pc = "check" /\ req'[r].owed = req[r].owed
                 /\ req'[r].kind = req[r].kind /\ req'[r].app = req[r].app
                 /\ req'[r].model = req[r].model /\ req'[r].over = req[r].over
                 /\ \E c \in req[r].left :
                      /\ req'[r].left = req[r].left \ {c}
                      /\ Plan[c].action = "block" => ~Over(Plan[c], c)
<1>1. req[r].pc = "check" /\ req[r].list = Plan
    BY DEF CheckCap, ListsCurrent
<1>2. PICK c \in req[r].left :
        req' = [req EXCEPT ![r] =
            IF ~Over(Plan[c], c) THEN [req[r] EXCEPT !.left = req[r].left \ {c}]
            ELSE IF Plan[c].action = "block" THEN Idle
            ELSE [req[r] EXCEPT !.left = req[r].left \ {c}, !.hit = TRUE]]
    BY <1>1 DEF CheckCap
<1>3. req \in [Requests -> CallStates] /\ req[r] \in CallStates
    BY DEF TypeOK
<1>4. /\ \A s \in Requests \ {r} : req'[s] = req[s]
      /\ req'[r] = IF ~Over(Plan[c], c) THEN [req[r] EXCEPT !.left = req[r].left \ {c}]
                   ELSE IF Plan[c].action = "block" THEN Idle
                   ELSE [req[r] EXCEPT !.left = req[r].left \ {c}, !.hit = TRUE]
    BY <1>2, <1>3
<1>5. UNCHANGED <<spent, now, look>>
    BY DEF CheckCap
<1>6. CASE ~Over(Plan[c], c) \/ Plan[c].action # "block"
    <2>1. \/ req'[r] = [req[r] EXCEPT !.left = req[r].left \ {c}]
          \/ req'[r] = [req[r] EXCEPT !.left = req[r].left \ {c}, !.hit = TRUE]
        BY <1>4, <1>6
    <2>2. /\ req'[r].pc = req[r].pc /\ req'[r].owed = req[r].owed
          /\ req'[r].kind = req[r].kind /\ req'[r].app = req[r].app
          /\ req'[r].model = req[r].model /\ req'[r].over = req[r].over
          /\ req'[r].left = req[r].left \ {c}
        BY <1>3, <2>1 DEF CallStates
    <2>3. QED
        BY <1>1, <1>4, <1>5, <1>6, <2>2
<1>7. CASE Over(Plan[c], c) /\ Plan[c].action = "block"
    BY <1>1, <1>4, <1>5, <1>7
<1>8. QED
    BY <1>6, <1>7

\* The steps of a call between its check and its count.
LEMMA AfterMove ==
    ASSUME TypeOK, NEW r \in Requests, Proceed(r) \/ Answer(r)
    PROVE  /\ \A s \in Requests \ {r} : req'[s] = req[s]
           /\ UNCHANGED <<spent, now, look>>
           /\ req'[r].owed = req[r].owed /\ req'[r].over = req[r].over
           /\ req'[r].kind = req[r].kind /\ req'[r].app = req[r].app
           /\ Proceed(r) => req[r].pc = "check" /\ req[r].left = {} /\ req'[r].pc = "call"
           /\ Answer(r) => req[r].pc = "call" /\ req'[r].pc = "log"
<1>1. req \in [Requests -> CallStates] /\ req[r] \in CallStates
    BY DEF TypeOK
<1>2. UNCHANGED <<spent, now, look>>
    BY DEF Proceed, Answer
<1>3. CASE Proceed(r)
    <2>1. PICK m : req' = [req EXCEPT ![r] = [@ EXCEPT !.pc = "call", !.model = m,
                                                    !.hit = FALSE, !.list = NoList]]
        BY <1>3 DEF Proceed
    <2>2. ~Answer(r) /\ req[r].pc = "check" /\ req[r].left = {}
        BY <1>3 DEF Proceed, Answer
    <2>3. QED
        BY <1>1, <1>2, <2>1, <2>2 DEF CallStates
<1>4. CASE Answer(r)
    <2>1. PICK m, cost : req' = [req EXCEPT ![r] = [@ EXCEPT !.pc = "log", !.model = m,
                                                           !.cost = cost]]
        BY <1>4 DEF Answer
    <2>2. ~Proceed(r) /\ req[r].pc = "call"
        BY <1>4 DEF Proceed, Answer
    <2>3. QED
        BY <1>1, <1>2, <2>1, <2>2 DEF CallStates
<1>5. QED
    BY <1>3, <1>4

\* A call that is abandoned.
LEMMA AfterDrop ==
    ASSUME TypeOK, NEW r \in Requests, Uncounted(r) \/ Finish(r) \/ RecordLost(r)
    PROVE  /\ \A s \in Requests \ {r} : req'[s] = req[s]
           /\ req'[r] = Idle
           /\ UNCHANGED <<spent, now, look>>
<1>1. req \in [Requests -> CallStates]
    BY DEF TypeOK
<1>2. req' = [req EXCEPT ![r] = Idle] /\ UNCHANGED <<spent, now, look>>
    BY DEF Uncounted, Finish, RecordLost
<1>3. QED
    BY <1>1, <1>2

\* A call whose record has been written.
LEMMA AfterRecord ==
    ASSUME TypeOK, NEW r \in Requests, Record(r)
    PROVE  /\ req[r].pc = "log" /\ req'[r].pc = "count"
           /\ \A s \in Requests \ {r} : req'[s] = req[s] /\ look'[s] = look[s]
           /\ req'[r].owed = req[r].owed /\ req'[r].over = req[r].over
           /\ req'[r].kind = req[r].kind /\ req'[r].app = req[r].app
           /\ req'[r].model = req[r].model
           /\ UNCHANGED <<spent, now>>
BY DEF Record, TypeOK, CallStates

\* Matches looks at no more of a call than who makes it and for which model.
LEMMA SameScope ==
    ASSUME NEW cap, NEW a, NEW b, a.kind = b.kind, a.app = b.app, a.model = b.model
    PROVE  Matches(cap, a) <=> Matches(cap, b)
BY DEF Matches

LEMMA InitOver == Init => OverStays
BY DEF Init, OverStays, Idle

\* A cap that was breached when a call arrived stays breached while the counter
\* only grows, so the call meets it in the loop of enforcement and is rejected.
LEMMA StepOver ==
    ASSUME Undisturbed, TypeOK, ListsCurrent, OverStays, [Next]_vars
    PROVE  OverStays'
<1> DEFINE Held(r) ==
            \A c \in req[r].over :
               /\ Plan[c].state = "on" /\ Plan[c].action = "block"
               /\ Over(Plan[c], c)
               /\ req[r].pc = "check" /\ Matches(Plan[c], req[r]) => c \in req[r].left
<1>a. \A r \in Requests : Held(r)
    BY DEF OverStays
<1>b. /\ req \in [Requests -> CallStates] /\ caps = Plan
      /\ \A r \in Requests : req[r] \in CallStates /\ req[r].over \subseteq CapIds
      /\ Plan \in CapLists
    BY BudgetAssumption DEF TypeOK, CallStates, ListsCurrent, BudgetAssumption
<1>c. Idle.pc = "idle" /\ Idle.over = {}
    BY DEF Idle
<1>1. CASE UNCHANGED vars
    BY <1>a, <1>1 DEF vars, OverStays, Over, WindowKey
<1>2. ASSUME NEW r \in Requests, NEW u \in Uses, Cached(r, u) \/ Found(r, u)
      PROVE  OverStays'
    <2>1. Use(r, u, Plan) /\ UNCHANGED <<spent, now>> /\ look[r][u].st # "off"
        BY <1>2, ListInUse
    <2>2. \A c : Over(Plan[c], c)' <=> Over(Plan[c], c)
        BY <2>1 DEF Over, WindowKey
    <2>3. \A s \in Requests \ {r} : Held(s)'
        BY <1>a, <2>1, <2>2, AfterUse
    <2>4. \A c : Matches(Plan[c], req[r])' <=> Matches(Plan[c], req[r])
        BY <2>1, AfterUse DEF Matches
    <2>5. CASE u = "enforce"
        <3>1. req'[r].left = Applying(Plan, req[r]) /\ req'[r].over = req[r].over
            BY <2>1, <2>5, AfterUse
        <3>2. \A c \in req[r].over : Matches(Plan[c], req[r]) => c \in req'[r].left
            BY <1>a, <1>b, <3>1 DEF Applying
        <3>3. Held(r)'
            BY <1>a, <2>2, <2>4, <3>1, <3>2
        <3>4. QED
            BY <2>3, <3>3 DEF OverStays
    <2>6. CASE u # "enforce"
        <3>1. /\ req'[r].left = req[r].left /\ req'[r].over = req[r].over
              /\ req'[r].pc = req[r].pc
            BY <2>1, <2>6, AfterUse
        <3>2. Held(r)'
            BY <1>a, <2>2, <2>4, <3>1
        <3>3. QED
            BY <2>3, <3>2 DEF OverStays
    <2>7. QED
        BY <2>5, <2>6
<1>3. CASE UNCHANGED <<req, spent, now>>
    BY <1>a, <1>3 DEF OverStays, Over, WindowKey
<1>4. ASSUME NEW r \in Requests, Arrive(r)
      PROVE  OverStays'
    <2>1. \A s \in Requests \ {r} : req'[s] = req[s]
        BY <1>b, <1>4 DEF Arrive
    <2>2. req'[r].pc # "check" /\ req'[r].over = Breached
        BY <1>b, <1>4 DEF Arrive, Idle
    <2>3. UNCHANGED <<spent, now>>
        BY <1>4 DEF Arrive
    <2>4. \A c : Over(Plan[c], c)' <=> Over(Plan[c], c)
        BY <2>3 DEF Over, WindowKey
    <2>5. Held(r)'
        BY <1>b, <2>2, <2>4 DEF Breached
    <2>6. QED
        BY <1>a, <2>1, <2>4, <2>5 DEF OverStays
<1>5. ASSUME NEW r \in Requests, CheckCap(r)
      PROVE  OverStays'
    <2>1. /\ \A s \in Requests \ {r} : req'[s] = req[s]
          /\ UNCHANGED <<spent, now>>
        BY <1>5, AfterCheck
    <2>2. \A c : Over(Plan[c], c)' <=> Over(Plan[c], c)
        BY <2>1 DEF Over, WindowKey
    <2>3. CASE req'[r] = Idle
        BY <1>a, <1>c, <2>1, <2>2, <2>3 DEF OverStays
    <2>4. CASE req'[r] # Idle
        <3>1. PICK c \in req[r].left :
                /\ req'[r].left = req[r].left \ {c}
                /\ Plan[c].action = "block" => ~Over(Plan[c], c)
            BY <1>5, <2>4, AfterCheck
        <3>2. /\ req[r].pc = "check" /\ req'[r].over = req[r].over
              /\ req'[r].kind = req[r].kind /\ req'[r].app = req[r].app
              /\ req'[r].model = req[r].model
            BY <1>5, <2>4, AfterCheck
        <3>3. \A d : Matches(Plan[d], req[r])' <=> Matches(Plan[d], req[r])
            BY <3>2 DEF Matches
        <3>4. c \notin req[r].over
            BY <1>a, <3>1
        <3>5. Held(r)'
            BY <1>a, <2>2, <3>1, <3>2, <3>3, <3>4
        <3>6. QED
            BY <1>a, <2>1, <2>2, <3>5 DEF OverStays
    <2>5. QED
        BY <2>3, <2>4
<1>6. ASSUME NEW r \in Requests,
             Proceed(r) \/ Answer(r) \/ Record(r) \/ Uncounted(r) \/ Finish(r) \/ RecordLost(r)
      PROVE  OverStays'
    <2>1. /\ \A s \in Requests \ {r} : req'[s] = req[s]
          /\ UNCHANGED <<spent, now>>
          /\ req'[r].pc # "check" /\ req'[r].over \subseteq req[r].over
        BY <1>6, <1>c, AfterMove, AfterRecord, AfterDrop
    <2>2. \A c : Over(Plan[c], c)' <=> Over(Plan[c], c)
        BY <2>1 DEF Over, WindowKey
    <2>3. QED
        BY <1>a, <2>1, <2>2 DEF OverStays
<1>7. ASSUME NEW r \in Requests, Charge(r) \/ ChargeLost(r)
      PROVE  OverStays'
    <2>1. /\ \A s \in Requests \ {r} : req'[s] = req[s]
          /\ req'[r].pc = req[r].pc /\ req'[r].left = req[r].left
          /\ req'[r].over = req[r].over
          /\ now' = now
        BY <1>7, AfterCharge
    <2>2. \A d \in CapIds, j \in Keys : spent[d][j] <= spent'[d][j]
        <3>1. \A d \in CapIds, j \in Keys : spent[d][j] \in 0..Ceiling
            BY DEF TypeOK
        <3>2. \A d \in CapIds, j \in Keys : spent[d][j] <= spent[d][j]
            BY <3>1
        <3>3. QED
            BY <1>7, <3>2, AfterCharge
    <2>3. \A c \in CapIds : Over(Plan[c], c) => Over(Plan[c], c)'
        <3> SUFFICES ASSUME NEW c \in CapIds, Over(Plan[c], c)
                     PROVE  Over(Plan[c], c)'
            OBVIOUS
        <3> DEFINE key == WindowKey(Plan[c], now)
        <3>1. key \in Keys /\ WindowKey(Plan[c], now)' = key
            BY <1>b, <2>1, KeysTyped DEF TypeOK, WindowKey
        <3>2. Plan[c].limit \in Nat
            BY <1>b DEF CapLists, CapRecords
        <3> HIDE DEF key
        <3>3. /\ spent[c][key] \in 0..Ceiling /\ spent'[c][key] \in 0..Ceiling
            <4>1. TypeOK'
                BY StepTypeOK
            <4>2. QED
                BY <3>1, <4>1 DEF TypeOK
        <3>4. spent[c][key] <= spent'[c][key]
            BY <2>2, <3>1
        <3>5. spent[c][key] >= Plan[c].limit
            BY DEF Over, key
        <3>6. spent'[c][key] >= Plan[c].limit
            BY <3>2, <3>3, <3>4, <3>5
        <3>7. QED
            BY <3>1, <3>6 DEF Over
    <2>4. \A c : Matches(Plan[c], req[r])' <=> Matches(Plan[c], req[r])
        BY <1>7, AfterCharge DEF Matches
    <2>5. Held(r)'
        BY <1>a, <1>b, <2>1, <2>3, <2>4
    <2>6. QED
        BY <1>a, <1>b, <2>1, <2>3, <2>5 DEF OverStays
<1>8. ASSUME NEW p \in Procs, Crash(p)
      PROVE  OverStays'
    <2>1. /\ \A s \in Requests : req'[s] = req[s] \/ req'[s] = Idle
          /\ UNCHANGED <<spent, now>>
        BY <1>8 DEF Crash
    <2>2. \A c : Over(Plan[c], c)' <=> Over(Plan[c], c)
        BY <2>1 DEF Over, WindowKey
    <2>3. QED
        BY <1>a, <1>c, <2>1, <2>2 DEF OverStays
<1>9. ASSUME NEW period \in Periods, NextWindow(period)
      PROVE  OverStays'
    <2> DEFINE room == {c \in CapIds : Plan[c].period = period}
    <2>1. /\ req' = [r \in Requests |-> [req[r] EXCEPT !.over = req[r].over \ room]]
          /\ spent' = spent
        BY <1>b, <1>9 DEF NextWindow, Forget
    <2>2. \A r \in Requests :
            /\ req'[r].pc = req[r].pc /\ req'[r].left = req[r].left
            /\ req'[r].kind = req[r].kind /\ req'[r].app = req[r].app
            /\ req'[r].model = req[r].model
            /\ req'[r].over = req[r].over \ room
        BY <1>b, <2>1 DEF CallStates
    <2>3. \A r \in Requests : \A c : Matches(Plan[c], req[r])' <=> Matches(Plan[c], req[r])
        BY <2>2 DEF Matches
    <2>4. \A c \in CapIds \ room : WindowKey(Plan[c], now)' = WindowKey(Plan[c], now)
        <3>1. now' = [now EXCEPT ![period] = now[period] + 1] /\ now \in [Periods -> Windows]
            BY <1>9 DEF NextWindow, TypeOK
        <3>2. \A c \in CapIds \ room : Plan[c].period \in Periods \ {period}
            BY <1>b DEF CapLists, CapRecords
        <3>3. QED
            BY <3>1, <3>2 DEF WindowKey
    <2>5. \A c \in CapIds \ room : Over(Plan[c], c)' <=> Over(Plan[c], c)
        BY <2>1, <2>4 DEF Over
    <2> HIDE DEF room
    <2>6. QED
        BY <1>a, <1>b, <2>2, <2>3, <2>5 DEF OverStays
<1>10. QED
    <2>1. CASE Next
        <3>1. \A p \in Procs : Expire(p) => UNCHANGED <<req, spent, now>>
            BY DEF Expire
        <3>2. \A r \in Requests, u \in Uses : Find(r, u) => UNCHANGED <<req, spent, now>>
            BY DEF Find
        <3>3. rec.st = "idle"
            BY DEF ListsCurrent
        <3>4. QED
            BY <2>1, <3>1, <3>2, <3>3, <1>2, <1>3, <1>4, <1>5, <1>6, <1>7, <1>8, <1>9, StepsLeft
               DEF Handle
    <2>2. QED
        BY <1>1, <2>1

\* Leaving the loop of enforcement is the only way from the check to the call.
LEMMA OnlyProceedCalls ==
    ASSUME Undisturbed, TypeOK, ListsCurrent, [Next]_vars,
           NEW r \in Requests, req[r].pc = "check", req'[r].pc = "call"
    PROVE  req[r].left = {}
<1>1. Next
    BY DEF vars
<1>2. rec.st = "idle" /\ req \in [Requests -> CallStates]
    BY DEF ListsCurrent, TypeOK
<1>3. Idle.pc = "idle"
    BY DEF Idle
<1>4. ASSUME NEW s \in Requests, NEW u \in Uses, Cached(s, u) \/ Found(s, u)
      PROVE  FALSE
    <2>1. Use(s, u, Plan)
        BY <1>4, ListInUse
    <2>2. req'[s].pc = "check" \/ req'[s].pc = req[s].pc
        BY <2>1, AfterUse
    <2>3. \A t \in Requests \ {s} : req'[t] = req[t]
        BY <2>1, AfterUse
    <2>4. QED
        BY <2>2, <2>3
<1>5. ASSUME NEW s \in Requests,
             Uncounted(s) \/ Finish(s) \/ RecordLost(s) \/ CheckCap(s) \/ Answer(s)
                \/ Record(s) \/ Charge(s) \/ ChargeLost(s)
      PROVE  FALSE
    BY <1>3, <1>5, AfterDrop, AfterCheck, AfterMove, AfterRecord, AfterCharge
<1>6. ASSUME NEW s \in Requests, Arrive(s)
      PROVE  FALSE
    <2>1. req[s].pc = "idle" /\ \A t \in Requests \ {s} : req'[t] = req[t]
        BY <1>2, <1>6 DEF Arrive
    <2>2. QED
        BY <2>1
<1>7. ASSUME NEW p \in Procs, Expire(p) \/ Crash(p)
      PROVE  FALSE
    BY <1>3, <1>7 DEF Expire, Crash
<1>8. ASSUME NEW period \in Periods, NextWindow(period)
      PROVE  FALSE
    <2>1. req[r] \in CallStates
        BY <1>2
    <2>2. req'[r].pc = req[r].pc
        BY <1>8, <2>1 DEF NextWindow, Forget, CallStates
    <2>3. QED
        BY <2>2
<1>9. ASSUME NEW s \in Requests, NEW u \in Uses, Find(s, u)
      PROVE  FALSE
    BY <1>9 DEF Find
<1>10. PICK s \in Requests : Proceed(s)
    BY <1>1, <1>2, <1>4, <1>5, <1>6, <1>7, <1>8, <1>9, StepsLeft DEF Handle
<1>11. QED
    BY <1>10, AfterMove

\* While caps are not edited and counters not realigned, a call that arrives
\* when a block cap of its scope is over its limit is never sent to a provider:
\* any number of processes, calls and caps, with calls in flight, lists cached
\* at any time, windows rolling over, writes lost and processes crashing.
THEOREM BreachedRejected ==
    ASSUME Undisturbed
    PROVE  Spec => BreachedOnArrivalIsRejected
<1> DEFINE Good == TypeOK /\ ListsCurrent /\ OverStays
<1>1. Init => Good
    BY InitTypeOK, InitLists, InitOver
<1>2. Good /\ [Next]_vars => Good'
    BY StepTypeOK, StepLists, StepOver
<1>3. Good /\ [Next]_vars
      => [\A r \in Requests :
             req[r].pc = "check" /\ req'[r].pc = "call"
             => \A c \in req[r].over : ~Matches(Plan[c], req[r])]_vars
    <2> SUFFICES ASSUME Good, [Next]_vars,
                        NEW r \in Requests, req[r].pc = "check", req'[r].pc = "call",
                        NEW c \in req[r].over
                 PROVE  ~Matches(Plan[c], req[r])
        OBVIOUS
    <2>1. req[r].left = {}
        BY OnlyProceedCalls
    <2>2. QED
        BY <2>1 DEF OverStays
<1>4. QED
    BY <1>1, <1>2, <1>3, PTL DEF Spec, BreachedOnArrivalIsRejected

-----------------------------------------------------------------------------
(* How far a counter may overshoot.                                         *)

LEMMA InitOwed == Init => OwedOnce
BY DEF Init, OwedOnce, Idle

\* A call owes one increment for each cap it was found to count for.
LEMMA StepOwed ==
    ASSUME Undisturbed, TypeOK, ListsCurrent, OwedOnce, [Next]_vars
    PROVE  OwedOnce'
<1> DEFINE Due(r) ==
            \A c \in CapIds, k \in Keys :
               <<c, k>> \in req[r].owed
               => /\ k[1] = Plan[c].period /\ k[2] <= now[k[1]]
                  /\ Matches(Plan[c], req[r])
                  /\ look[r][Plan[c].metric].st = "off"
<1>a. \A r \in Requests : Due(r)
    BY DEF OwedOnce
<1>b. /\ req \in [Requests -> CallStates] /\ look \in [Requests -> [Uses -> Lookups]]
      /\ \A r \in Requests : req[r] \in CallStates
      /\ \A r \in Requests : req[r].owed # {} => req[r].pc = "count"
      /\ now \in [Periods -> Windows] /\ Plan \in CapLists
    BY BudgetAssumption DEF TypeOK, ListsCurrent, BudgetAssumption
<1>c. Idle.owed = {}
    BY DEF Idle
<1>d. \A c \in CapIds : Plan[c].metric \in Metrics /\ Plan[c].metric # "enforce"
    BY <1>b DEF CapLists, CapRecords, Metrics
<1>1. CASE UNCHANGED <<req, look, now>>
    BY <1>1, <1>a DEF OwedOnce
<1>2. ASSUME NEW r \in Requests, NEW u \in Uses, Cached(r, u) \/ Found(r, u)
      PROVE  OwedOnce'
    <2>1. /\ Use(r, u, Plan) /\ UNCHANGED now /\ look[r][u].st # "off"
          /\ look' = [look EXCEPT ![r][u] = NotLooking]
        BY <1>2, ListInUse
    <2>2. /\ \A s \in Requests \ {r} : req'[s] = req[s] /\ look'[s] = look[s]
          /\ \A v \in Uses : v = u \/ look'[r][v] = look[r][v]
          /\ look'[r][u].st = "off"
        BY <1>b, <2>1, AfterUse DEF NotLooking
    <2>3. \A c : Matches(Plan[c], req[r])' <=> Matches(Plan[c], req[r])
        BY <2>1, AfterUse DEF Matches
    <2>4. ASSUME NEW c \in CapIds, NEW k \in Keys, <<c, k>> \in req'[r].owed
          PROVE  /\ k[1] = Plan[c].period /\ k[2] <= now[k[1]]
                 /\ Matches(Plan[c], req[r])
                 /\ look'[r][Plan[c].metric].st = "off"
        <3>1. CASE <<c, k>> \in req[r].owed
            BY <1>a, <1>d, <2>2, <3>1 DEF Uses
        <3>2. CASE <<c, k>> \notin req[r].owed
            <4>1. PICK d \in {e \in Applying(Plan, req[r]) : Plan[e].metric = u} :
                    <<c, k>> = <<d, WindowKey(Plan[d], now)>>
                BY <2>1, <2>4, <3>2, AfterUse
            <4>2. c = d /\ k = WindowKey(Plan[c], now)
                BY <4>1
            <4>3. k[1] = Plan[c].period /\ k[2] = now[k[1]]
                BY <4>2 DEF WindowKey
            <4>4. k[2] <= now[k[1]]
                BY <1>b, <4>3 DEF Keys, Windows
            <4>5. QED
                BY <2>2, <4>1, <4>2, <4>3, <4>4 DEF Applying
        <3>3. QED
            BY <3>1, <3>2
    <2>5. Due(r)'
        BY <2>1, <2>3, <2>4
    <2>6. QED
        BY <1>a, <2>1, <2>2, <2>5 DEF OwedOnce
<1>3. ASSUME NEW r \in Requests, NEW u \in Uses, Find(r, u)
      PROVE  OwedOnce'
    <2>1. /\ UNCHANGED <<req, now>> /\ look[r][u].st # "off"
          /\ \A s \in Requests, v \in Uses : <<s, v>> = <<r, u>> \/ look'[s][v] = look[s][v]
        BY <1>b, <1>3 DEF Find
    <2>2. QED
        BY <1>a, <1>d, <2>1 DEF OwedOnce, Uses
<1>4. ASSUME NEW r \in Requests, Arrive(r)
      PROVE  OwedOnce'
    <2>1. /\ \A s \in Requests \ {r} : req'[s] = req[s] /\ look'[s] = look[s]
          /\ now' = now
        BY <1>b, <1>4 DEF Arrive
    <2>2. req'[r].owed = {}
        BY <1>b, <1>4 DEF Arrive, Idle
    <2>3. QED
        BY <1>a, <2>1, <2>2 DEF OwedOnce
<1>5. ASSUME NEW r \in Requests,
             Uncounted(r) \/ Finish(r) \/ RecordLost(r) \/ CheckCap(r)
                \/ Proceed(r) \/ Answer(r) \/ Record(r)
      PROVE  OwedOnce'
    <2>1. /\ \A s \in Requests \ {r} : req'[s] = req[s] /\ look'[s] = look[s]
          /\ now' = now
        BY <1>5, AfterDrop, AfterCheck, AfterMove, AfterRecord
    <2>2. req'[r].owed = {}
        BY <1>5, <1>b, <1>c, AfterDrop, AfterCheck, AfterMove, AfterRecord
    <2>3. QED
        BY <1>a, <2>1, <2>2 DEF OwedOnce
<1>6. ASSUME NEW r \in Requests, Charge(r) \/ ChargeLost(r)
      PROVE  OwedOnce'
    <2>1. /\ \A s \in Requests \ {r} : req'[s] = req[s]
          /\ UNCHANGED <<now, look>>
          /\ req'[r].owed \subseteq req[r].owed
        BY <1>6, AfterCharge
    <2>2. \A c : Matches(Plan[c], req[r])' <=> Matches(Plan[c], req[r])
        BY <1>6, AfterCharge DEF Matches
    <2>3. QED
        BY <1>a, <2>1, <2>2 DEF OwedOnce
<1>7. ASSUME NEW p \in Procs, Crash(p)
      PROVE  OwedOnce'
    <2>1. /\ \A s \in Requests : req'[s] = Idle \/ (req'[s] = req[s] /\ look'[s] = look[s])
          /\ now' = now
        BY <1>b, <1>7 DEF Crash
    <2>2. QED
        BY <1>a, <1>c, <2>1 DEF OwedOnce
<1>8. ASSUME NEW period \in Periods, NextWindow(period)
      PROVE  OwedOnce'
    <2>1. \A r \in Requests :
            /\ req'[r].owed = req[r].owed /\ req'[r].kind = req[r].kind
            /\ req'[r].app = req[r].app /\ req'[r].model = req[r].model
        BY <1>b, <1>8 DEF NextWindow, Forget, CallStates
    <2>2. \A r \in Requests : \A c : Matches(Plan[c], req[r])' <=> Matches(Plan[c], req[r])
        BY <2>1 DEF Matches
    <2>3. look' = look /\ now' = [now EXCEPT ![period] = now[period] + 1]
        BY <1>8 DEF NextWindow
    <2>4. \A k \in Keys : k[2] <= now[k[1]] => k[2] <= now'[k[1]]
        BY <1>b, <2>3 DEF Keys, Windows
    <2>5. QED
        BY <1>a, <2>1, <2>2, <2>3, <2>4 DEF OwedOnce
<1>9. QED
    <2>1. CASE Next
        <3>1. \A p \in Procs : Expire(p) => UNCHANGED <<req, look, now>>
            BY DEF Expire
        <3>2. rec.st = "idle"
            BY DEF ListsCurrent
        <3>3. QED
            BY <2>1, <3>1, <3>2, <1>1, <1>2, <1>3, <1>4, <1>5, <1>6, <1>7, <1>8, StepsLeft
               DEF Handle
    <2>2. CASE UNCHANGED vars
        BY <1>1, <2>2 DEF vars
    <2>3. QED
        BY <2>1, <2>2

LEMMA InitUnused == Init => UnusedAreZero
BY DEF Init, UnusedAreZero

\* Only the increments that calls owe change a counter.
LEMMA CountersMove ==
    ASSUME Undisturbed, TypeOK, ListsCurrent, [Next]_vars
    PROVE  spent' = spent \/ \E r \in Requests : Charge(r)
<1>1. CASE UNCHANGED vars
    BY <1>1 DEF vars
<1>2. CASE Next
    <2>1. rec.st = "idle"
        BY DEF ListsCurrent
    <2>2. \/ \E r \in Requests : Arrive(r) \/ Handle(r) \/ RecordLost(r) \/ ChargeLost(r)
          \/ \E p \in Procs : Expire(p) \/ Crash(p)
          \/ \E period \in Periods : NextWindow(period)
        BY <1>2, <2>1, StepsLeft
    <2>3. CASE \E r \in Requests : Arrive(r) \/ Handle(r) \/ RecordLost(r) \/ ChargeLost(r)
        BY <2>3 DEF Arrive, RecordLost, ChargeLost, Handle, Cached, Find, Found, CheckCap,
                    Proceed, Answer, Uncounted, Record, Finish
    <2>4. CASE \E p \in Procs : Expire(p) \/ Crash(p)
        BY <2>4 DEF Expire, Crash
    <2>5. CASE \E period \in Periods : NextWindow(period)
        BY <2>5 DEF NextWindow
    <2>6. QED
        BY <2>2, <2>3, <2>4, <2>5
<1>3. QED
    BY <1>1, <1>2

\* The calendar only moves on.
LEMMA TimeMoves ==
    ASSUME TypeOK, [Next]_vars
    PROVE  \A k \in Keys : now[k[1]] <= now'[k[1]]
<1>1. now \in [Periods -> Windows]
    BY DEF TypeOK
<1>2. now' = now \/ \E period \in Periods : now' = [now EXCEPT ![period] = now[period] + 1]
    <2>1. CASE UNCHANGED vars
        BY <2>1 DEF vars
    <2>2. CASE Next
        BY <2>2 DEF Next, Arrive, RecordLost, ChargeLost, Handle, Cached, Find, Found, CheckCap,
                    Proceed, Answer, Uncounted, Record, Charge, Finish, Expire, Crash,
                    StartReconcile, Create, Patch, Delete, Edit, NextWindow, ReadTotal,
                    WriteCounter, EndReconcile
    <2>3. QED
        BY <2>1, <2>2
<1>3. QED
    BY <1>1, <1>2 DEF Keys, Windows

LEMMA StepUnused ==
    ASSUME Undisturbed, TypeOK, ListsCurrent, OwedOnce, UnusedAreZero, [Next]_vars
    PROVE  UnusedAreZero'
<1> SUFFICES ASSUME NEW c \in CapIds, NEW k \in Keys,
                    k[1] # Plan[c].period \/ k[2] > now'[k[1]]
             PROVE  spent'[c][k] = 0
    BY DEF UnusedAreZero
<1>1. k[1] # Plan[c].period \/ k[2] > now[k[1]]
    <2>1. TypeOK'
        BY StepTypeOK
    <2>2. now[k[1]] \in Nat /\ now'[k[1]] \in Nat /\ k[2] \in Nat
        BY <2>1 DEF TypeOK, Keys, Windows
    <2>3. QED
        BY <2>2, TimeMoves
<1>2. spent[c][k] = 0
    BY <1>1 DEF UnusedAreZero
<1>3. ASSUME NEW r \in Requests, Charge(r)
      PROVE  spent'[c][k] = 0
    <2>1. PICK d \in CapIds, j \in Keys :
            /\ <<d, j>> \in req[r].owed
            /\ ~(c = d /\ k = j) => spent'[c][k] = spent[c][k]
        BY <1>3, AfterCharge
    <2>2. j[1] = Plan[d].period /\ j[2] <= now[j[1]]
        BY <2>1 DEF OwedOnce
    <2>3. now[j[1]] \in Nat /\ j[2] \in Nat
        BY DEF TypeOK, Keys, Windows
    <2>4. ~(c = d /\ k = j)
        BY <1>1, <2>2, <2>3
    <2>5. QED
        BY <1>2, <2>1, <2>4
<1>4. QED
    BY <1>2, <1>3, CountersMove

-----------------------------------------------------------------------------
LEMMA TimesGrows ==
    ASSUME NEW m \in Nat, NEW a \in Nat, NEW b \in Nat, a <= b
    PROVE  m * a \in Nat /\ m * b \in Nat /\ m * a <= m * b
<1>1. PICK d \in Nat : b = a + d
    BY b - a \in Nat, b = a + (b - a)
<1>2. m * b = m * a + m * d /\ m * a \in Nat /\ m * d \in Nat
    BY <1>1
<1>3. QED
    BY <1>2

LEMMA TimesLess ==
    ASSUME NEW m \in Nat, NEW a \in Nat \ {0}
    PROVE  m * (a - 1) + m = m * a
OBVIOUS

\* Sets of calls are finite.
LEMMA CountCalls ==
    ASSUME NEW S \in SUBSET Requests
    PROVE  /\ IsFiniteSet(S) /\ Cardinality(S) \in Nat
           /\ Cardinality(Requests) \in Nat /\ Cardinality(S) <= Cardinality(Requests)
BY BudgetAssumption, FS_Subset, FS_CardinalityType DEF BudgetAssumption

LEMMA InitReserve ==
    ASSUME Init
    PROVE  ReserveHolds
<1> SUFFICES ASSUME NEW c \in CapIds, NEW k \in Keys, Enforced(c)
             PROVE  spent[c][k] + MaxCost * Cardinality(Committed(c, k))
                       <= Plan[c].limit - 1 + MaxCost * Cardinality(Requests)
    BY DEF ReserveHolds
<1>1. \A r \in Requests : req[r].pc = "idle" /\ req[r].owed = {}
    BY DEF Init, Idle
<1>2. Committed(c, k) = {}
    BY <1>1 DEF Committed
<1>3. Cardinality(Committed(c, k)) = 0
    BY <1>2, FS_EmptySet
<1>4. /\ spent[c][k] = 0 /\ MaxCost \in Nat /\ MaxCost * 0 = 0
      /\ Plan[c].limit \in Nat \ {0}
    BY BudgetAssumption DEF Init, BudgetAssumption, CapLists, CapRecords
<1>5. MaxCost * Cardinality(Requests) \in Nat
    BY <1>4, CountCalls, TimesGrows
<1>6. QED
    BY <1>3, <1>4, <1>5

\* When the counter does not move, only a new committed call could break the
\* bound.
LEMMA ReserveKept ==
    ASSUME TypeOK, ReserveHolds, NEW c \in CapIds, NEW k \in Keys, Enforced(c),
           spent'[c][k] = spent[c][k],
           Committed(c, k)' \subseteq Committed(c, k)
    PROVE  spent'[c][k] + MaxCost * Cardinality(Committed(c, k)')
              <= Plan[c].limit - 1 + MaxCost * Cardinality(Requests)
<1> DEFINE before == Committed(c, k)
           after == Committed(c, k)'
<1>1. before \in SUBSET Requests /\ after \in SUBSET Requests
    BY DEF Committed
<1>2. spent[c][k] + MaxCost * Cardinality(before)
         <= Plan[c].limit - 1 + MaxCost * Cardinality(Requests)
    BY DEF ReserveHolds
<1> HIDE DEF before, after
<1>3. /\ IsFiniteSet(before) /\ Cardinality(before) \in Nat /\ Cardinality(after) \in Nat
      /\ Cardinality(Requests) \in Nat
    BY <1>1, CountCalls
<1>4. Cardinality(after) <= Cardinality(before)
    BY <1>3, FS_Subset DEF before, after
<1>5. MaxCost \in Nat /\ spent[c][k] \in Nat /\ Plan[c].limit \in Nat
    BY BudgetAssumption DEF TypeOK, BudgetAssumption, CapLists, CapRecords
<1>6. /\ MaxCost * Cardinality(after) \in Nat /\ MaxCost * Cardinality(before) \in Nat
      /\ MaxCost * Cardinality(after) <= MaxCost * Cardinality(before)
      /\ MaxCost * Cardinality(Requests) \in Nat
    BY <1>3, <1>4, <1>5, TimesGrows
<1>7. spent[c][k] + MaxCost * Cardinality(after)
         <= Plan[c].limit - 1 + MaxCost * Cardinality(Requests)
    BY <1>2, <1>5, <1>6
<1>8. QED
    BY <1>7 DEF after

\* A call passes the check of a cap only while there is room, and every call
\* may by then have passed it.
LEMMA ReservePassed ==
    ASSUME TypeOK, NEW c \in CapIds, NEW k \in Keys, spent'[c][k] <= Plan[c].limit - 1,
           TypeOK'
    PROVE  spent'[c][k] + MaxCost * Cardinality(Committed(c, k)')
              <= Plan[c].limit - 1 + MaxCost * Cardinality(Requests)
<1> DEFINE after == Committed(c, k)'
<1>1. after \in SUBSET Requests
    BY DEF Committed
<1> HIDE DEF after
<1>2. /\ Cardinality(after) \in Nat /\ Cardinality(Requests) \in Nat
      /\ Cardinality(after) <= Cardinality(Requests)
    BY <1>1, CountCalls
<1>3. MaxCost \in Nat /\ spent'[c][k] \in Nat /\ Plan[c].limit \in Nat
    BY BudgetAssumption DEF TypeOK, BudgetAssumption, CapLists, CapRecords
<1>4. /\ MaxCost * Cardinality(after) \in Nat /\ MaxCost * Cardinality(Requests) \in Nat
      /\ MaxCost * Cardinality(after) <= MaxCost * Cardinality(Requests)
    BY <1>2, <1>3, TimesGrows
<1>5. spent'[c][k] + MaxCost * Cardinality(after)
         <= Plan[c].limit - 1 + MaxCost * Cardinality(Requests)
    BY <1>3, <1>4
<1>6. QED
    BY <1>5 DEF after

\* An increment spends what its call had reserved.
LEMMA ReserveSpent ==
    ASSUME TypeOK, TypeOK', ReserveHolds, NEW c \in CapIds, NEW k \in Keys, Enforced(c),
           NEW r \in Requests, r \in Committed(c, k),
           Committed(c, k)' \subseteq Committed(c, k) \ {r},
           spent'[c][k] <= spent[c][k] + MaxCost
    PROVE  spent'[c][k] + MaxCost * Cardinality(Committed(c, k)')
              <= Plan[c].limit - 1 + MaxCost * Cardinality(Requests)
<1> DEFINE before == Committed(c, k)
           after == Committed(c, k)'
<1>1. before \in SUBSET Requests /\ after \in SUBSET Requests
    BY DEF Committed
<1>2. spent[c][k] + MaxCost * Cardinality(before)
         <= Plan[c].limit - 1 + MaxCost * Cardinality(Requests)
    BY DEF ReserveHolds
<1>3. r \in before /\ after \subseteq before \ {r}
    OBVIOUS
<1> HIDE DEF before, after
<1>4. /\ IsFiniteSet(before) /\ Cardinality(before) \in Nat /\ Cardinality(after) \in Nat
      /\ Cardinality(Requests) \in Nat
    BY <1>1, CountCalls
<1>5. IsFiniteSet(before \ {r}) /\ Cardinality(before \ {r}) = Cardinality(before) - 1
    BY <1>3, <1>4, FS_RemoveElement
<1>6. Cardinality(after) <= Cardinality(before) - 1
    BY <1>3, <1>5, FS_Subset
<1>7. Cardinality(before) \in Nat \ {0}
    BY <1>3, <1>4, FS_EmptySet
<1>8. /\ MaxCost \in Nat /\ Plan[c].limit \in Nat
      /\ spent[c][k] \in Nat /\ spent'[c][k] \in Nat
    BY BudgetAssumption DEF TypeOK, BudgetAssumption, CapLists, CapRecords
<1>9. /\ MaxCost * Cardinality(after) \in Nat
      /\ MaxCost * (Cardinality(before) - 1) \in Nat
      /\ MaxCost * Cardinality(after) <= MaxCost * (Cardinality(before) - 1)
    BY <1>4, <1>6, <1>7, <1>8, TimesGrows
<1>10. MaxCost * (Cardinality(before) - 1) + MaxCost = MaxCost * Cardinality(before)
    BY <1>7, <1>8, TimesLess
<1>11. MaxCost * Cardinality(Requests) \in Nat
    BY <1>4, <1>8, TimesGrows
<1>12. spent'[c][k] + MaxCost * Cardinality(after)
         <= Plan[c].limit - 1 + MaxCost * Cardinality(Requests)
    <2> DEFINE a == MaxCost * Cardinality(after)
               b == MaxCost * (Cardinality(before) - 1)
               d == MaxCost * Cardinality(before)
               e == MaxCost * Cardinality(Requests)
               s == spent[c][k]
               t == spent'[c][k]
    <2>1. /\ a \in Nat /\ b \in Nat /\ a <= b /\ b + MaxCost = d /\ e \in Nat
          /\ s \in Nat /\ t \in Nat /\ t <= s + MaxCost
          /\ s + d <= Plan[c].limit - 1 + e /\ MaxCost \in Nat /\ Plan[c].limit \in Nat
        BY <1>2, <1>8, <1>9, <1>10, <1>11
    <2> HIDE DEF a, b, d, e, s, t
    <2>2. t + a <= Plan[c].limit - 1 + e
        BY <2>1
    <2>3. QED
        BY <2>2 DEF a, e, t
<1>13. QED
    BY <1>12 DEF after

\* A call commits itself when it passes the cap in the loop of enforcement, and
\* stays committed until its increment arrives or is given up.
LEMMA StepReserve ==
    ASSUME Undisturbed, Kinds = {"chat"}, TypeOK, ListsCurrent, OwedOnce, UnusedAreZero,
           ReserveHolds, [Next]_vars
    PROVE  ReserveHolds'
<1> SUFFICES ASSUME NEW c \in CapIds, NEW k \in Keys, Enforced(c)
             PROVE  (spent[c][k] + MaxCost * Cardinality(Committed(c, k)))'
                       <= Plan[c].limit - 1 + MaxCost * Cardinality(Requests)
    BY DEF ReserveHolds, Enforced
<1> DEFINE Open == k[1] = Plan[c].period /\ k[2] >= now[k[1]]
           In(r) == /\ Matches(Plan[c], req[r])
                    /\ \/ req[r].pc = "check" /\ c \notin req[r].left /\ Open
                       \/ req[r].pc \in {"call", "log"} /\ Open
                       \/ req[r].pc = "count" /\ look[r][Plan[c].metric].st # "off" /\ Open
                       \/ <<c, k>> \in req[r].owed
           Goal == spent'[c][k] + MaxCost * Cardinality(Committed(c, k)')
                      <= Plan[c].limit - 1 + MaxCost * Cardinality(Requests)
<1>a. /\ Committed(c, k) = {r \in Requests : In(r)}
      /\ Committed(c, k)' = {r \in Requests : In(r)'}
    BY DEF Committed
<1>b. /\ req \in [Requests -> CallStates] /\ look \in [Requests -> [Uses -> Lookups]]
      /\ \A r \in Requests : req[r] \in CallStates
      /\ \A r \in Requests : req[r].owed # {} => req[r].pc = "count"
      /\ now \in [Periods -> Windows] /\ Plan \in CapLists
      /\ TypeOK'
    BY BudgetAssumption, StepTypeOK DEF TypeOK, ListsCurrent, BudgetAssumption
<1>c. /\ Plan[c].state = "on" /\ Plan[c].action = "block" /\ Plan[c].dimension # "model"
      /\ Plan[c].metric \in Metrics /\ Plan[c].metric # "enforce"
      /\ Plan[c].limit \in Nat \ {0}
    BY <1>b, BudgetAssumption DEF BudgetAssumption, Enforced, CapLists, CapRecords, Metrics
<1>d. Idle.pc = "idle" /\ Idle.owed = {}
    BY DEF Idle
<1>e. ASSUME spent' = spent, \A r \in Requests : In(r)' => In(r)
      PROVE  Goal
    BY <1>a, <1>e, ReserveKept
<1>f. ASSUME now' = now, NEW r \in Requests,
             \A s \in Requests \ {r} : req'[s] = req[s] /\ look'[s] = look[s]
      PROVE  \A s \in Requests \ {r} : In(s)' => In(s)
    BY <1>f
<1>g. ASSUME NEW r \in Requests, req'[r] = Idle
      PROVE  ~In(r)'
    BY <1>d, <1>g
<1>1. CASE UNCHANGED <<req, look, now, spent>>
    BY <1>1, <1>e
<1>2. ASSUME NEW r \in Requests, NEW u \in Uses, Cached(r, u) \/ Found(r, u)
      PROVE  Goal
    <2>1. /\ Use(r, u, Plan) /\ UNCHANGED <<now, spent>> /\ look[r][u].st # "off"
          /\ look' = [look EXCEPT ![r][u] = NotLooking]
        BY <1>2, ListInUse
    <2>2. /\ \A s \in Requests \ {r} : req'[s] = req[s] /\ look'[s] = look[s]
          /\ \A v \in Uses : v = u \/ look'[r][v] = look[r][v]
          /\ look'[r][u].st = "off"
        BY <1>b, <2>1, AfterUse DEF NotLooking
    <2>3. Matches(Plan[c], req[r])' <=> Matches(Plan[c], req[r])
        BY <2>1, AfterUse DEF Matches
    <2>4. CASE u = "enforce"
        <3>1. /\ req'[r].pc = "check" /\ req'[r].left = Applying(Plan, req[r])
              /\ req'[r].owed = req[r].owed
            BY <2>1, <2>4, AfterUse
        <3>2. req[r].pc = "look"
            BY <2>1, <2>4 DEF ListsCurrent
        <3>3. req'[r].owed = {}
            BY <1>b, <3>1, <3>2
        <3>4. Matches(Plan[c], req[r]) => c \in req'[r].left
            BY <1>c, <3>1 DEF Applying
        <3>5. ~In(r)'
            BY <2>3, <3>1, <3>3, <3>4
        <3>6. QED
            BY <1>e, <1>f, <2>1, <2>2, <3>5
    <2>5. CASE u # "enforce"
        <3>1. /\ req'[r].pc = req[r].pc /\ req'[r].left = req[r].left
              /\ req'[r].owed = req[r].owed \cup
                      {<<e, WindowKey(Plan[e], now)>> :
                         e \in {d \in Applying(Plan, req[r]) : Plan[d].metric = u}}
            BY <2>1, <2>5, AfterUse
        <3>2. req[r].pc = "count"
            BY <2>1, <2>5 DEF ListsCurrent, Uses
        <3>3. ASSUME In(r)' PROVE In(r)
            <4>1. CASE <<c, k>> \in req'[r].owed /\ <<c, k>> \notin req[r].owed
                <5>1. PICK d \in {e \in Applying(Plan, req[r]) : Plan[e].metric = u} :
                        <<c, k>> = <<d, WindowKey(Plan[d], now)>>
                    BY <3>1, <4>1
                <5>2. Plan[c].metric = u /\ k = WindowKey(Plan[c], now)
                    BY <5>1
                <5>3. k[1] = Plan[c].period /\ k[2] = now[k[1]]
                    BY <5>2 DEF WindowKey
                <5>4. k[2] >= now[k[1]]
                    BY <1>b, <5>3 DEF Keys, Windows
                <5>5. QED
                    BY <2>1, <2>3, <3>2, <3>3, <5>2, <5>3, <5>4
            <4>2. CASE <<c, k>> \in req[r].owed
                BY <2>3, <3>3, <4>2
            <4>3. CASE <<c, k>> \notin req'[r].owed
                <5>1. look'[r][Plan[c].metric].st # "off" /\ Open
                    BY <2>1, <3>1, <3>2, <3>3, <4>3
                <5>2. look[r][Plan[c].metric].st # "off"
                    BY <1>c, <2>2, <5>1 DEF Uses
                <5>3. QED
                    BY <2>3, <3>2, <3>3, <5>1, <5>2
            <4>4. QED
                BY <4>1, <4>2, <4>3
        <3>4. QED
            BY <1>e, <1>f, <2>1, <2>2, <3>3
    <2>6. QED
        BY <2>4, <2>5
<1>3. ASSUME NEW r \in Requests, NEW u \in Uses, Find(r, u)
      PROVE  Goal
    <2>1. /\ UNCHANGED <<req, now, spent>> /\ look[r][u].st # "off"
          /\ \A s \in Requests, v \in Uses : <<s, v>> = <<r, u>> \/ look'[s][v] = look[s][v]
        BY <1>b, <1>3 DEF Find
    <2>2. \A s \in Requests : In(s)' => In(s)
        BY <1>c, <2>1 DEF Uses
    <2>3. QED
        BY <1>e, <2>1, <2>2
<1>4. ASSUME NEW r \in Requests, Arrive(r)
      PROVE  Goal
    <2>1. /\ \A s \in Requests \ {r} : req'[s] = req[s] /\ look'[s] = look[s]
          /\ now' = now /\ spent' = spent
        BY <1>b, <1>4 DEF Arrive
    <2>2. req'[r].owed = {} /\ req'[r].pc = "look"
        BY <1>b, <1>4 DEF Arrive, Idle
    <2>3. ~In(r)'
        BY <2>2
    <2>4. QED
        BY <1>e, <1>f, <2>1, <2>3
<1>5. ASSUME NEW r \in Requests, Uncounted(r) \/ Finish(r) \/ RecordLost(r)
      PROVE  Goal
    BY <1>5, <1>e, <1>f, <1>g, AfterDrop
<1>6. ASSUME NEW r \in Requests, CheckCap(r)
      PROVE  Goal
    <2>1. /\ \A s \in Requests \ {r} : req'[s] = req[s] /\ look'[s] = look[s]
          /\ UNCHANGED <<spent, now, look>>
          /\ req[r].pc = "check"
        BY <1>6, AfterCheck
    <2>2. CASE req'[r] = Idle
        BY <1>e, <1>f, <1>g, <2>1, <2>2
    <2>3. CASE req'[r] # Idle
        <3>1. PICK d \in req[r].left :
                /\ req'[r].left = req[r].left \ {d}
                /\ Plan[d].action = "block" => ~Over(Plan[d], d)
            BY <1>6, <2>3, AfterCheck
        <3>2. /\ req'[r].pc = "check" /\ req'[r].owed = req[r].owed
              /\ req'[r].kind = req[r].kind /\ req'[r].app = req[r].app
              /\ req'[r].model = req[r].model
            BY <1>6, <2>3, AfterCheck
        <3>3. Matches(Plan[c], req[r])' <=> Matches(Plan[c], req[r])
            BY <3>2 DEF Matches
        <3>4. CASE d = c /\ Open
            <4>1. ~Over(Plan[c], c)
                BY <1>c, <3>1, <3>4
            <4>2. CASE k = WindowKey(Plan[c], now)
                <5>1. spent[c][k] < Plan[c].limit
                    <6>1. spent[c][k] \in Nat
                        BY DEF TypeOK
                    <6>2. ~(spent[c][k] >= Plan[c].limit)
                        BY <4>1, <4>2 DEF Over
                    <6>3. QED
                        BY <1>c, <6>1, <6>2
                <5>2. spent'[c][k] \in Nat /\ spent'[c][k] <= Plan[c].limit - 1
                    <6>1. spent'[c][k] = spent[c][k] /\ spent[c][k] \in Nat
                        BY <2>1 DEF TypeOK
                    <6>2. QED
                        BY <1>c, <5>1, <6>1
                <5>3. QED
                    BY <1>b, <5>2, ReservePassed
            <4>3. CASE k # WindowKey(Plan[c], now)
                <5>1. k[2] # now[k[1]]
                    BY <3>4, <4>3 DEF WindowKey, Keys
                <5>2. k[2] \in Nat /\ now[k[1]] \in Nat
                    BY <1>b DEF Keys, Windows
                <5>3. k[2] > now[k[1]]
                    BY <3>4, <5>1, <5>2
                <5>4. spent'[c][k] = 0
                    BY <2>1, <5>3 DEF UnusedAreZero
                <5>5. spent'[c][k] <= Plan[c].limit - 1
                    BY <1>c, <5>4
                <5>6. QED
                    BY <1>b, <5>5, ReservePassed
            <4>4. QED
                BY <4>2, <4>3
        <3>5. CASE ~(d = c /\ Open)
            <4>1. In(r)' => In(r)
                BY <2>1, <3>1, <3>2, <3>3, <3>5
            <4>2. QED
                BY <1>e, <1>f, <2>1, <4>1
        <3>6. QED
            BY <3>4, <3>5
    <2>4. QED
        BY <2>2, <2>3
<1>7. ASSUME NEW r \in Requests, Proceed(r) \/ Answer(r)
      PROVE  Goal
    <2>1. /\ \A s \in Requests \ {r} : req'[s] = req[s] /\ look'[s] = look[s]
          /\ UNCHANGED <<spent, now, look>>
          /\ req'[r].owed = req[r].owed
          /\ \/ req[r].pc = "check" /\ req[r].left = {} /\ req'[r].pc = "call"
             \/ req[r].pc = "call" /\ req'[r].pc = "log"
        BY <1>7, AfterMove
    <2>2. Matches(Plan[c], req[r])' <=> Matches(Plan[c], req[r])
        BY <1>7, <1>c, AfterMove DEF Matches
    <2>3. In(r)' => In(r)
        BY <2>1, <2>2
    <2>4. QED
        BY <1>e, <1>f, <2>1, <2>3
<1>8. ASSUME NEW r \in Requests, Record(r)
      PROVE  Goal
    <2>1. /\ \A s \in Requests \ {r} : req'[s] = req[s] /\ look'[s] = look[s]
          /\ UNCHANGED <<spent, now>>
          /\ req'[r].owed = req[r].owed
          /\ req[r].pc = "log" /\ req'[r].pc = "count"
        BY <1>8, AfterRecord
    <2>2. Matches(Plan[c], req[r])' <=> Matches(Plan[c], req[r])
        BY <1>8, AfterRecord DEF Matches
    <2>3. In(r)' => In(r)
        BY <2>1, <2>2
    <2>4. QED
        BY <1>e, <1>f, <2>1, <2>3
<1>9. ASSUME NEW r \in Requests, Charge(r) \/ ChargeLost(r)
      PROVE  Goal
    <2>1. /\ \A s \in Requests \ {r} : req'[s] = req[s] /\ look'[s] = look[s]
          /\ UNCHANGED <<now, look>>
          /\ req'[r].pc = req[r].pc /\ req'[r].left = req[r].left
        BY <1>9, AfterCharge
    <2>2. Matches(Plan[c], req[r])' <=> Matches(Plan[c], req[r])
        BY <1>9, AfterCharge DEF Matches
    <2>3. PICK d \in CapIds, j \in Keys :
            /\ <<d, j>> \in req[r].owed
            /\ req'[r].owed = req[r].owed \ {<<d, j>>}
            /\ IF c = d /\ k = j
               THEN spent'[c][k] <= spent[c][k] + Amount(Plan[c].metric, req[r])
               ELSE spent'[c][k] = spent[c][k]
        BY <1>9, AfterCharge
    <2>4. \A s \in Requests : In(s)' => In(s)
        BY <1>f, <2>1, <2>2, <2>3
    <2>5. CASE ~(c = d /\ k = j)
        <3>1. spent'[c][k] = spent[c][k]
            BY <2>3, <2>5
        <3>2. QED
            BY <1>a, <2>4, <3>1, ReserveKept
    <2>6. CASE c = d /\ k = j
        <3>1. /\ Matches(Plan[c], req[r]) /\ look[r][Plan[c].metric].st = "off"
              /\ req[r].pc = "count"
            BY <1>b, <2>3, <2>6 DEF OwedOnce
        <3>2. In(r) /\ ~In(r)'
            BY <2>1, <2>2, <2>3, <2>6, <3>1
        <3>3. spent'[c][k] <= spent[c][k] + MaxCost
            <4>1. /\ Amount(Plan[c].metric, req[r]) \in Nat
                  /\ Amount(Plan[c].metric, req[r]) <= MaxCost /\ MaxCost \in Nat
                BY <1>b, BudgetAssumption DEF BudgetAssumption, Amount, CallStates
            <4>2. /\ spent[c][k] \in Nat /\ spent'[c][k] \in Nat
                BY <1>b DEF TypeOK
            <4>3. spent'[c][k] <= spent[c][k] + Amount(Plan[c].metric, req[r])
                BY <2>3, <2>6
            <4>4. QED
                BY <4>1, <4>2, <4>3
        <3>4. /\ r \in Committed(c, k)
              /\ Committed(c, k)' \subseteq Committed(c, k) \ {r}
            BY <1>a, <2>4, <3>2
        <3>5. QED
            BY <1>b, <3>3, <3>4, ReserveSpent
    <2>7. QED
        BY <2>5, <2>6
<1>10. ASSUME NEW p \in Procs, Crash(p)
      PROVE  Goal
    <2>1. /\ \A s \in Requests : req'[s] = Idle \/ (req'[s] = req[s] /\ look'[s] = look[s])
          /\ UNCHANGED <<now, spent>>
        BY <1>b, <1>10 DEF Crash
    <2>2. \A s \in Requests : In(s)' => In(s)
        BY <1>d, <2>1
    <2>3. QED
        BY <1>e, <2>1, <2>2
<1>11. ASSUME NEW period \in Periods, NextWindow(period)
      PROVE  Goal
    <2>1. \A r \in Requests :
            /\ req'[r].owed = req[r].owed /\ req'[r].kind = req[r].kind
            /\ req'[r].app = req[r].app /\ req'[r].model = req[r].model
            /\ req'[r].pc = req[r].pc /\ req'[r].left = req[r].left
        BY <1>b, <1>11 DEF NextWindow, Forget, CallStates
    <2>2. \A r \in Requests : Matches(Plan[c], req[r])' <=> Matches(Plan[c], req[r])
        BY <2>1 DEF Matches
    <2>3. UNCHANGED <<look, spent>>
        BY <1>11 DEF NextWindow
    <2>4. Open' => Open
        <3>1. now[k[1]] \in Nat /\ now'[k[1]] \in Nat /\ k[2] \in Nat
            BY <1>b DEF TypeOK, Keys, Windows
        <3>2. now[k[1]] <= now'[k[1]]
            BY TimeMoves
        <3>3. QED
            BY <3>1, <3>2
    <2> HIDE DEF Open
    <2>5. \A r \in Requests : In(r)' => In(r)
        BY <2>1, <2>2, <2>3, <2>4
    <2>6. QED
        BY <1>e, <2>3, <2>5
<1>12. Goal
    <2>1. CASE Next
        <3>1. \A p \in Procs : Expire(p) => UNCHANGED <<req, look, now, spent>>
            BY DEF Expire
        <3>2. rec.st = "idle"
            BY DEF ListsCurrent
        <3>3. QED
            BY <2>1, <3>1, <3>2, <1>1, <1>2, <1>3, <1>4, <1>5, <1>6, <1>7, <1>8, <1>9,
               <1>10, <1>11, StepsLeft
               DEF Handle
    <2>2. CASE UNCHANGED vars
        BY <1>1, <2>2 DEF vars
    <2>3. QED
        BY <2>1, <2>2
<1>13. QED
    BY <1>12

\* While caps are not edited and counters not realigned, and with calls that
\* are all enforced, the counter of a block cap never exceeds its limit by more
\* than one price per concurrent call, for any number of processes and caps.
THEOREM Overshoot ==
    ASSUME Undisturbed, Kinds = {"chat"}
    PROVE  Spec => []OvershootBounded
<1> DEFINE Good == /\ TypeOK /\ ListsCurrent /\ OwedOnce /\ UnusedAreZero /\ ReserveHolds
<1>1. Init => Good
    BY InitTypeOK, InitLists, InitOwed, InitUnused, InitReserve
<1>2. Good /\ [Next]_vars => Good'
    BY StepTypeOK, StepLists, StepOwed, StepUnused, StepReserve
<1>3. Good => OvershootBounded
    <2> SUFFICES ASSUME Good, NEW c \in Existing, NEW k \in Keys,
                        caps[c].action = "block", caps[c].dimension # "model"
                 PROVE  spent[c][k] <= caps[c].limit - 1 + MaxCost * Cardinality(Requests)
        BY DEF OvershootBounded
    <2>1. c \in CapIds /\ caps = Plan /\ Enforced(c)
        BY BudgetAssumption DEF ListsCurrent, Enforced, BudgetAssumption
    <2>2. spent[c][k] + MaxCost * Cardinality(Committed(c, k))
             <= Plan[c].limit - 1 + MaxCost * Cardinality(Requests)
        BY <2>1 DEF ReserveHolds
    <2>3. MaxCost * Cardinality(Committed(c, k)) \in Nat
        <3>1. Committed(c, k) \in SUBSET Requests /\ MaxCost \in Nat
            BY BudgetAssumption DEF Committed, BudgetAssumption
        <3>2. QED
            BY <3>1, CountCalls, TimesGrows
    <2>4. MaxCost * Cardinality(Requests) \in Nat
        BY BudgetAssumption, CountCalls, TimesGrows DEF BudgetAssumption
    <2>5. spent[c][k] \in Nat /\ Plan[c].limit \in Nat
        BY <2>1, BudgetAssumption DEF TypeOK, BudgetAssumption, CapLists, CapRecords
    <2>6. QED
        BY <2>1, <2>2, <2>3, <2>4, <2>5
<1>4. QED
    BY <1>1, <1>2, <1>3, PTL DEF Spec

-----------------------------------------------------------------------------
(* The ledger, while nothing is edited, realigned or lost.                  *)

Calm == Undisturbed /\ ~Faulty

\* Only metrics that count a call are looked up and charged for it, and one increment
\* is on its way for a cap.
IncrementsDue ==
    \A r \in Requests :
       /\ \A u \in Metrics : look[r][u].st # "off" => Counts(u, req[r])
       /\ \A c \in CapIds, k \in Keys :
             <<c, k>> \in req[r].owed
             => /\ Counts(Plan[c].metric, req[r])
                /\ \A l \in Keys : <<c, l>> \in req[r].owed => k = l

\* What has to be known of a call that a step changes.
DueOf(r) ==
    /\ \A u \in Metrics : look[r][u].st # "off" => Counts(u, req[r])
    /\ \A c \in CapIds, k \in Keys :
          <<c, k>> \in req[r].owed
          => /\ Counts(Plan[c].metric, req[r])
             /\ \A l \in Keys : <<c, l>> \in req[r].owed => k = l
Others(r) == \A s \in Requests \ {r} : req'[s] = req[s] /\ look'[s] = look[s]
SameCall(q, p) ==
    q.pc = p.pc /\ q.kind = p.kind /\ q.app = p.app /\ q.model = p.model /\ q.cost = p.cost
NotCounting(r) ==
    req[r].pc # "count" /\ req[r].owed = {} /\ \A u \in Metrics : look[r][u].st = "off"

LEMMA PlanTyped ==
    \A c \in CapIds : /\ Plan[c].metric \in Metrics /\ Plan[c].metric # "enforce" /\ Plan[c].metric \in Uses
                      /\ Plan[c].period \in Periods
                      /\ \A w \in Windows : <<Plan[c].period, w>> \in Keys
<1>1. Plan \in CapLists
    BY BudgetAssumption DEF BudgetAssumption
<1>2. \A c \in CapIds : Plan[c].metric \in Metrics /\ Plan[c].period \in Periods
    BY <1>1 DEF CapLists, CapRecords
<1>3. QED
    BY <1>2 DEF Metrics, Uses, Keys

LEMMA CalmSteps ==
    ASSUME Calm, TypeOK, ListsCurrent, Next
    PROVE  \/ \E r \in Requests : Arrive(r) \/ Handle(r)
           \/ \E p \in Procs : Expire(p)
           \/ \E period \in Periods : NextWindow(period)
<1>1. rec.st = "idle"
    BY DEF ListsCurrent
<1>2. /\ \A r \in Requests : ~RecordLost(r) /\ ~ChargeLost(r)
      /\ \A p \in Procs : ~Crash(p)
    BY DEF Calm, RecordLost, ChargeLost, Crash
<1>3. QED
    BY <1>1, <1>2, StepsLeft DEF Calm

LEMMA AtRest ==
    ASSUME TypeOK, ListsCurrent, NEW r \in Requests, req[r].pc # "count"
    PROVE  NotCounting(r)
BY DEF ListsCurrent, NotCounting

\* Steps of a call that is not being counted, and its last step.
LEMMA QuietMoves ==
    ASSUME TypeOK, ListsCurrent, NEW r \in Requests,
           \/ Arrive(r) \/ CheckCap(r) \/ Proceed(r) \/ Answer(r) \/ Uncounted(r) \/ Finish(r)
           \/ Cached(r, "enforce") \/ Find(r, "enforce") \/ Found(r, "enforce")
    PROVE  /\ Others(r) /\ UNCHANGED <<total, spent>>
           /\ NotCounting(r)' /\ (NotCounting(r) \/ Finish(r))
<1>1. /\ req \in [Requests -> CallStates] /\ look \in [Requests -> [Uses -> Lookups]]
      /\ req[r] \in CallStates /\ look[r] \in [Uses -> Lookups]
    BY DEF TypeOK
<1>2. /\ Idle.pc = "idle" /\ Idle.owed = {} /\ Metrics \subseteq Uses
      /\ \A u \in Metrics : u # "enforce" /\ u \in Uses
      /\ "enforce" \in Uses
    BY DEF Idle, Metrics, Uses
<1>3. CASE Arrive(r)
  <2>1. UNCHANGED <<total, spent>> /\ req[r].pc = "idle"
      BY <1>3 DEF Arrive
  <2>2. PICK p \in Procs, kind \in Kinds, a \in Apps, m \in Models :
            /\ req' = [req EXCEPT ![r] = [Idle EXCEPT
                        !.pc = IF kind = "chat" THEN "look" ELSE "call",
                        !.proc = p, !.kind = kind, !.app = a, !.model = m, !.over = Breached]]
            /\ look' = [look EXCEPT ![r] =
                        Asking(IF kind = "chat" THEN {"enforce"} ELSE {})]
      BY <1>3 DEF Arrive
  <2>3. Others(r) /\ req'[r].pc # "count" /\ req'[r].owed = {}
      BY <1>1, <1>2, <2>2 DEF Others, Idle
  <2>4. look'[r] = Asking(IF kind = "chat" THEN {"enforce"} ELSE {})
      BY <1>1, <2>2
  <2>5. \A u \in Metrics : look'[r][u].st = "off"
      BY <1>2, <2>4, AskingStates
  <2>6. NotCounting(r)
      BY <2>1, AtRest
  <2>7. QED
      BY <2>1, <2>3, <2>5, <2>6 DEF NotCounting
<1>4. CASE CheckCap(r) \/ Proceed(r) \/ Answer(r)
  <2>1. UNCHANGED <<total, spent, look>> /\ req[r].pc # "count"
      BY <1>4 DEF CheckCap, Proceed, Answer
  <2>2. NotCounting(r)
      BY <2>1, AtRest
  <2>3. Others(r) /\ req'[r].pc # "count" /\ req'[r].owed = {}
      BY <1>2, <1>4, <2>1, <2>2, AfterCheck, AfterMove DEF Others, NotCounting
  <2>4. QED
      BY <2>1, <2>2, <2>3 DEF NotCounting
<1>5. CASE Uncounted(r) \/ Finish(r)
  <2>1. UNCHANGED <<total, spent, look>> /\ req' = [req EXCEPT ![r] = Idle]
      BY <1>5 DEF Uncounted, Finish
  <2>2. Others(r) /\ req'[r] = Idle
      BY <1>1, <2>1 DEF Others
  <2>3. CASE Uncounted(r)
    <3>1. NotCounting(r)
        BY <2>3, AtRest DEF Uncounted
    <3>2. QED
        BY <1>2, <2>1, <2>2, <3>1 DEF NotCounting
  <2>4. CASE Finish(r)
    <3>1. \A u \in Metrics : look[r][u].st = "off"
        BY <2>4 DEF Finish
    <3>2. QED
        BY <1>2, <2>1, <2>2, <2>4, <3>1 DEF NotCounting
  <2>5. QED
      BY <1>5, <2>3, <2>4
<1>6. CASE Find(r, "enforce")
  <2>1. UNCHANGED <<req, total, spent>> /\ look' = [look EXCEPT ![r]["enforce"] = [st |-> "find", list |-> caps]]
        /\ look[r]["enforce"].st = "ask"
      BY <1>6 DEF Find
  <2>2. Others(r) /\ \A u \in Metrics : look'[r][u] = look[r][u]
      BY <1>1, <1>2, <2>1 DEF Others
  <2>3. req[r].pc = "look"
      BY <2>1 DEF ListsCurrent
  <2>4. NotCounting(r)
      BY <2>3, AtRest
  <2>5. QED
      BY <2>1, <2>2, <2>4 DEF NotCounting
<1>7. CASE Cached(r, "enforce") \/ Found(r, "enforce")
  <2>1. /\ Use(r, "enforce", Plan) /\ UNCHANGED <<total, spent>> /\ look[r]["enforce"].st # "off"
        /\ look' = [look EXCEPT ![r]["enforce"] = NotLooking]
      BY <1>2, <1>7, ListInUse
  <2>2. /\ \A s \in Requests \ {r} : req'[s] = req[s] 
        /\ req'[r].pc = "check" /\ req'[r].owed = req[r].owed
      BY <1>2, <2>1, AfterUse
  <2>3. /\ \A s \in Requests \ {r} : look'[s] = look[s] 
        /\ \A u \in Metrics : look'[r][u] = look[r][u]
      BY <1>1, <1>2, <2>1
  <2>4. req[r].pc = "look"
      BY <2>1 DEF ListsCurrent
  <2>5. NotCounting(r)
      BY <2>4, AtRest
  <2>6. QED
      BY <2>1, <2>2, <2>3, <2>5 DEF NotCounting, Others
<1>8. QED
    BY <1>3, <1>4, <1>5, <1>6, <1>7

\* A count gets its list of caps: what it looked up is what it owes.
LEMMA LookupMoves ==
    ASSUME TypeOK, ListsCurrent, NEW r \in Requests, NEW u \in Metrics,
           Cached(r, u) \/ Found(r, u) \/ Find(r, u)
    PROVE  /\ Others(r) /\ UNCHANGED <<total, spent>> /\ SameCall(req'[r], req[r])
           /\ look[r][u].st # "off" /\ req[r].pc = "count"
           /\ \A v \in Metrics : v # u => look'[r][v] = look[r][v]
           /\ \/ look'[r][u].st # "off" /\ req'[r].owed = req[r].owed
              \/ /\ look'[r][u].st = "off"
                 /\ req'[r].owed = req[r].owed \cup
                      {<<c, WindowKey(Plan[c], now)>> :
                         c \in {d \in Applying(Plan, req[r]) : Plan[d].metric = u}}
<1>1. /\ req \in [Requests -> CallStates] /\ look \in [Requests -> [Uses -> Lookups]]
      /\ req[r] \in CallStates /\ look[r] \in [Uses -> Lookups]
    BY DEF TypeOK
<1>2. u \in Uses /\ u # "enforce" /\ Metrics \subseteq Uses
    BY DEF Metrics, Uses
<1>3. CASE Find(r, u)
  <2>1. UNCHANGED <<req, total, spent>> /\ look' = [look EXCEPT ![r][u] = [st |-> "find", list |-> caps]]
        /\ look[r][u].st = "ask"
      BY <1>3 DEF Find
  <2>2. Others(r) /\ look'[r][u].st = "find" /\ \A v \in Metrics : v # u => look'[r][v] = look[r][v]
      BY <1>1, <1>2, <2>1 DEF Others
  <2>3. req[r].pc = "count"
      BY <2>1 DEF ListsCurrent
  <2>4. QED
      BY <2>1, <2>2, <2>3 DEF SameCall
<1>4. CASE Cached(r, u) \/ Found(r, u)
  <2>1. /\ Use(r, u, Plan) /\ UNCHANGED <<total, spent>> /\ look[r][u].st # "off"
        /\ look' = [look EXCEPT ![r][u] = NotLooking]
      BY <1>2, <1>4, ListInUse
  <2> DEFINE mine == {<<c, WindowKey(Plan[c], now)>> :
                        c \in {d \in Applying(Plan, req[r]) : Plan[d].metric = u}}
  <2>2. req' = [req EXCEPT ![r] = [req[r] EXCEPT !.owed = req[r].owed \cup mine]]
      BY <1>2, <2>1 DEF Use
  <2> HIDE DEF mine
  <2>3. /\ \A s \in Requests \ {r} : req'[s] = req[s]
        /\ req'[r] = [req[r] EXCEPT !.owed = req[r].owed \cup mine]
      BY <1>1, <2>2
  <2>4. SameCall(req'[r], req[r]) /\ req'[r].owed = req[r].owed \cup mine
      BY <1>1, <2>3 DEF CallStates, SameCall
  <2>5. /\ \A s \in Requests \ {r} : look'[s] = look[s] 
        /\ look'[r][u].st = "off" /\ \A v \in Metrics : v # u => look'[r][v] = look[r][v]
      BY <1>1, <1>2, <2>1 DEF NotLooking
  <2>6. req[r].pc = "count"
      BY <2>1 DEF ListsCurrent
  <2>7. QED
      BY <2>1, <2>3, <2>4, <2>5, <2>6 DEF Others, mine
<1>5. QED
    BY <1>3, <1>4

LEMMA RecordMoves ==
    ASSUME TypeOK, ListsCurrent, NEW r \in Requests, Record(r)
    PROVE  /\ Others(r) /\ UNCHANGED spent /\ NotCounting(r)
           /\ req'[r].pc = "count" /\ req'[r].owed = {}
           /\ req'[r].kind = req[r].kind /\ req'[r].app = req[r].app
           /\ req'[r].model = req[r].model /\ req'[r].cost = req[r].cost
           /\ \A u \in Metrics : look'[r][u].st # "off" <=> Counts(u, req[r])
           /\ \A c \in CapIds, k \in Keys :
                total'[c][k] = IF /\ k[2] = now[k[1]] /\ Matches(Plan[c], req[r])
                                  /\ Counts(Plan[c].metric, req[r])
                               THEN Plus(total[c][k], Amount(Plan[c].metric, req[r]))
                               ELSE total[c][k]
<1>1. /\ req \in [Requests -> CallStates] /\ look \in [Requests -> [Uses -> Lookups]]
      /\ req[r] \in CallStates
    BY DEF TypeOK
<1> DEFINE counted == {metric \in Metrics : Counts(metric, req[r])}
<1>2. /\ req[r].pc = "log" /\ req' = [req EXCEPT ![r] = [req[r] EXCEPT !.pc = "count"]]
      /\ look' = [look EXCEPT ![r] = Asking(counted)] /\ UNCHANGED spent
    BY DEF Record
<1>3. NotCounting(r)
    BY <1>2, AtRest
<1>4. /\ Others(r) /\ look'[r] = Asking(counted) /\ req'[r] = [req[r] EXCEPT !.pc = "count"]
    BY <1>1, <1>2 DEF Others
<1>5. /\ req'[r].pc = "count" /\ req'[r].owed = req[r].owed
      /\ req'[r].kind = req[r].kind /\ req'[r].app = req[r].app
      /\ req'[r].model = req[r].model /\ req'[r].cost = req[r].cost
    BY <1>1, <1>4 DEF CallStates
<1>6. \A u \in Metrics : look'[r][u].st # "off" <=> Counts(u, req[r])
  <2>1. TAKE u \in Metrics
  <2>2. look'[r][u].st = IF u \in counted THEN "ask" ELSE "off"
      BY <1>4, AskingStates DEF Uses
  <2>3. QED
      BY <2>2
<1>7. \A c \in CapIds, k \in Keys :
         total'[c][k] = IF /\ k[2] = now[k[1]] /\ Matches(Plan[c], req[r])
                           /\ Counts(Plan[c].metric, req[r])
                        THEN Plus(total[c][k], Amount(Plan[c].metric, req[r]))
                        ELSE total[c][k]
  <2>1. total' = [c \in CapIds |-> [k \in Keys |->
                    IF k[2] = now[k[1]] /\ Matches(Plan[c], req[r]) /\ Plan[c].metric \in counted
                    THEN Plus(total[c][k], Amount(Plan[c].metric, req[r]))
                    ELSE total[c][k]]]
      BY DEF Record
  <2>2. \A c \in CapIds : Plan[c].metric \in counted <=> Counts(Plan[c].metric, req[r])
      BY PlanTyped
  <2> HIDE DEF counted
  <2>3. QED
      BY <2>1, <2>2
<1>8. QED
    BY <1>2, <1>3, <1>4, <1>5, <1>6, <1>7 DEF NotCounting

LEMMA ChargeMoves ==
    ASSUME TypeOK, ListsCurrent, NEW r \in Requests, Charge(r)
    PROVE  \E c \in CapIds, k \in Keys :
              /\ Others(r) /\ UNCHANGED <<total, look>> /\ SameCall(req'[r], req[r])
              /\ <<c, k>> \in req[r].owed /\ req'[r].owed = req[r].owed \ {<<c, k>>}
              /\ req[r].pc = "count"
              /\ spent' = [spent EXCEPT ![c][k] = Plus(spent[c][k], Amount(Plan[c].metric, req[r]))]
<1>1. req \in [Requests -> CallStates] /\ req[r] \in CallStates
    BY DEF TypeOK
<1>2. PICK c \in CapIds, k \in Keys :
        /\ <<c, k>> \in req[r].owed
        /\ spent' = [spent EXCEPT ![c][k] = Plus(spent[c][k], Amount(Plan[c].metric, req[r]))]
        /\ req' = [req EXCEPT ![r] = [req[r] EXCEPT !.owed = req[r].owed \ {<<c, k>>}]]
    BY DEF Charge
<1>3. UNCHANGED <<total, look>>
    BY DEF Charge
<1>4. /\ \A s \in Requests \ {r} : req'[s] = req[s]
      /\ req'[r] = [req[r] EXCEPT !.owed = req[r].owed \ {<<c, k>>}]
    BY <1>1, <1>2
<1>5. SameCall(req'[r], req[r]) /\ req'[r].owed = req[r].owed \ {<<c, k>>}
    BY <1>1, <1>4 DEF CallStates, SameCall
<1>6. req[r].pc = "count"
    BY <1>2 DEF ListsCurrent
<1>7. QED
    BY <1>2, <1>3, <1>4, <1>5, <1>6 DEF Others

\* The calendar and the caches leave the count of every call alone.
LEMMA CalendarMoves ==
    ASSUME TypeOK,
           (\E p \in Procs : Expire(p)) \/ (\E period \in Periods : NextWindow(period)) \/ UNCHANGED vars
    PROVE  /\ UNCHANGED <<total, spent, look>>
           /\ \A r \in Requests : SameCall(req'[r], req[r]) /\ req'[r].owed = req[r].owed
<1>1. req \in [Requests -> CallStates] /\ \A r \in Requests : req[r] \in CallStates
    BY DEF TypeOK
<1>2. CASE (\E p \in Procs : Expire(p)) \/ UNCHANGED vars
    BY <1>2 DEF Expire, vars, SameCall
<1>3. CASE \E period \in Periods : NextWindow(period)
  <2>1. UNCHANGED <<total, spent, look>> /\ \E room : Forget(room)
      BY <1>3 DEF NextWindow
  <2>2. QED
      BY <1>1, <2>1 DEF Forget, CallStates, SameCall
<1>4. QED
    BY <1>2, <1>3

\* Counts, Matches and Amount look at the call alone.
LEMMA CountSame ==
    ASSUME NEW q, NEW p, q.kind = p.kind, q.app = p.app, q.model = p.model, q.cost = p.cost
    PROVE  \A m, cap : /\ Counts(m, q) <=> Counts(m, p)
                       /\ Matches(cap, q) <=> Matches(cap, p)
                       /\ Amount(m, q) = Amount(m, p)
BY DEF Counts, Matches, Amount

LEMMA DueStep ==
    ASSUME Calm, TypeOK, ListsCurrent, OwedOnce, IncrementsDue, [Next]_vars
    PROVE  IncrementsDue'
<1>1. \A r \in Requests : DueOf(r)
    BY DEF IncrementsDue, DueOf
<1>2. \A r \in Requests : NotCounting(r)' => DueOf(r)'
    BY DEF NotCounting, DueOf
<1>3. SUFFICES \A r \in Requests : DueOf(r)'
    BY DEF IncrementsDue, DueOf
<1>4. ASSUME NEW r \in Requests, Others(r), DueOf(r)' PROVE \A s \in Requests : DueOf(s)'
  <2>1. \A s \in Requests \ {r} : DueOf(s)'
      BY <1>1, <1>4 DEF Others, DueOf
  <2>2. QED
      BY <1>4, <2>1
<1>5. ASSUME NEW r \in Requests,
           \/ Arrive(r) \/ CheckCap(r) \/ Proceed(r) \/ Answer(r) \/ Uncounted(r) \/ Finish(r)
           \/ Cached(r, "enforce") \/ Find(r, "enforce") \/ Found(r, "enforce")
      PROVE \A s \in Requests : DueOf(s)'
    BY <1>2, <1>4, <1>5, QuietMoves
<1>6. ASSUME NEW r \in Requests, NEW u \in Metrics, Cached(r, u) \/ Found(r, u) \/ Find(r, u)
      PROVE \A s \in Requests : DueOf(s)'
  <2>1. /\ Others(r) /\ SameCall(req'[r], req[r]) /\ look[r][u].st # "off"
        /\ \A v \in Metrics : look'[r][v].st # "off" => look[r][v].st # "off"
        /\ \/ req'[r].owed = req[r].owed
           \/ req'[r].owed = req[r].owed \cup
                 {<<c, WindowKey(Plan[c], now)>> :
                         c \in {d \in Applying(Plan, req[r]) : Plan[d].metric = u}}
      BY <1>6, LookupMoves
  <2>2. \A v : Counts(v, req'[r]) <=> Counts(v, req[r])
      BY <2>1, CountSame DEF SameCall
  <2>3. Counts(u, req[r])
      BY <1>1, <2>1 DEF DueOf
  <2>4. ASSUME NEW c \in CapIds, NEW k \in Keys, <<c, k>> \in req'[r].owed
        PROVE  \/ <<c, k>> \in req[r].owed
               \/ Plan[c].metric = u /\ k = WindowKey(Plan[c], now)
    <3>1. CASE <<c, k>> \notin req[r].owed
      <4>1. PICK d \in {e \in Applying(Plan, req[r]) : Plan[e].metric = u} :
               <<c, k>> = <<d, WindowKey(Plan[d], now)>>
          BY <2>1, <2>4, <3>1
      <4>2. QED
          BY <4>1
    <3>2. QED
        BY <3>1
  <2>5. \A c \in CapIds, k \in Keys : <<c, k>> \in req[r].owed => Plan[c].metric # u
      BY <2>1 DEF OwedOnce
  <2>6. \A c \in CapIds, k \in Keys : <<c, k>> \in req'[r].owed =>
            /\ Counts(Plan[c].metric, req[r])
            /\ \A l \in Keys : <<c, l>> \in req'[r].owed => k = l
    <3>1. \A c \in CapIds, k \in Keys : <<c, k>> \in req[r].owed =>
            /\ Counts(Plan[c].metric, req[r])
            /\ \A l \in Keys : <<c, l>> \in req[r].owed => k = l
        BY <1>1 DEF DueOf
    <3>2. QED
        BY <2>3, <2>4, <2>5, <3>1
  <2>7. \A v \in Metrics : look'[r][v].st # "off" => Counts(v, req[r])
      BY <1>1, <2>1 DEF DueOf
  <2>8. DueOf(r)'
      BY <2>2, <2>6, <2>7 DEF DueOf
  <2>9. QED
      BY <1>4, <2>1, <2>8
<1>7. ASSUME NEW r \in Requests, Record(r) PROVE \A s \in Requests : DueOf(s)'
  <2>1. \A v : Counts(v, req'[r]) <=> Counts(v, req[r])
      BY <1>7, RecordMoves, CountSame
  <2>2. Others(r) /\ req'[r].owed = {} /\ \A u \in Metrics : look'[r][u].st # "off" <=> Counts(u, req[r])
      BY <1>7, RecordMoves
  <2>3. DueOf(r)'
      BY <2>1, <2>2 DEF DueOf
  <2>4. QED
      BY <1>4, <2>2, <2>3
<1>8. ASSUME NEW r \in Requests, Charge(r) PROVE \A s \in Requests : DueOf(s)'
  <2>1. Others(r) /\ UNCHANGED look /\ SameCall(req'[r], req[r]) /\ req'[r].owed \subseteq req[r].owed
      BY <1>8, ChargeMoves
  <2>2. \A v : Counts(v, req'[r]) <=> Counts(v, req[r])
      BY <2>1, CountSame DEF SameCall
  <2>3. DueOf(r)'
      BY <1>1, <2>1, <2>2 DEF DueOf
  <2>4. QED
      BY <1>4, <2>1, <2>3
<1>9. ASSUME (\E p \in Procs : Expire(p)) \/ (\E period \in Periods : NextWindow(period)) \/ UNCHANGED vars
      PROVE \A s \in Requests : DueOf(s)'
  <2>1. /\ UNCHANGED look
        /\ \A r \in Requests : SameCall(req'[r], req[r]) /\ req'[r].owed = req[r].owed
      BY <1>9, CalendarMoves
  <2>2. \A r \in Requests : \A v : Counts(v, req'[r]) <=> Counts(v, req[r])
      BY <2>1, CountSame DEF SameCall
  <2>3. QED
      BY <1>1, <2>1, <2>2 DEF DueOf
<1>10. QED
  <2>1. CASE UNCHANGED vars
      BY <1>9, <2>1
  <2>2. CASE Next
    <3>1. ASSUME NEW r \in Requests, Handle(r) PROVE \A s \in Requests : DueOf(s)'
      <4>1. \A u \in Uses : u = "enforce" \/ u \in Metrics
          BY DEF Uses
      <4>2. QED
          BY <1>5, <1>6, <1>7, <1>8, <3>1, <4>1 DEF Handle
    <3>2. QED
        BY <1>5, <1>9, <2>2, <3>1, CalmSteps
  <2>3. QED
      BY <2>1, <2>2

-----------------------------------------------------------------------------
\* The sums of the ledger.

Windowed(sums, c) == [w \in Windows |-> sums[c][<<Plan[c].period, w>>]]
LedgerFor(c) ==
    InAllWindows(total, c) < Ceiling => InAllWindows(total, c) = InAllWindows(spent, c) + OnTheWay(c)

LEMMA WindowsTyped ==
    ASSUME NEW sums \in [CapIds -> [Keys -> 0..Ceiling]], NEW c \in CapIds
    PROVE  /\ Windowed(sums, c) \in [Windows -> Nat] /\ IsFiniteSet(Windows)
           /\ InAllWindows(sums, c) = SumFunctionOnSet(Windowed(sums, c), Windows)
<1>1. Ceiling \in Nat /\ MaxWindow \in Nat
    BY BudgetAssumption DEF BudgetAssumption
<1>2. IsFiniteSet(Windows)
    BY <1>1, FS_Interval DEF Windows
<1>3. \A w \in Windows : sums[c][<<Plan[c].period, w>>] \in Nat
    BY <1>1, PlanTyped
<1>4. InAllWindows(sums, c) = SumFunctionOnSet(Windowed(sums, c), DOMAIN Windowed(sums, c))
    BY DEF InAllWindows, SumFunction, Windowed
<1>5. DOMAIN Windowed(sums, c) = Windows /\ Windowed(sums, c) \in [Windows -> Nat]
    BY <1>3 DEF Windowed
<1>6. QED
    BY <1>2, <1>4, <1>5

LEMMA WindowSums ==
    ASSUME NEW f \in [Windows -> Nat], NEW g \in [Windows -> Nat], NEW w \in Windows,
           \A v \in Windows \ {w} : f[v] = g[v], IsFiniteSet(Windows)
    PROVE  /\ SumFunctionOnSet(f, Windows) \in Nat /\ SumFunctionOnSet(g, Windows) \in Nat
           /\ SumFunctionOnSet(f, Windows) + g[w] = SumFunctionOnSet(g, Windows) + f[w]
BY SumMoves

LEMMA WindowMoves ==
    ASSUME NEW old \in [CapIds -> [Keys -> 0..Ceiling]], NEW new \in [CapIds -> [Keys -> 0..Ceiling]],
           NEW c \in CapIds, NEW w \in Windows,
           \A v \in Windows \ {w} : new[c][<<Plan[c].period, v>>] = old[c][<<Plan[c].period, v>>]
    PROVE  /\ InAllWindows(old, c) \in Nat /\ InAllWindows(new, c) \in Nat
           /\ InAllWindows(old, c) + new[c][<<Plan[c].period, w>>]
                 = InAllWindows(new, c) + old[c][<<Plan[c].period, w>>]
           /\ old[c][<<Plan[c].period, w>>] <= InAllWindows(old, c)
           /\ new[c][<<Plan[c].period, w>>] <= InAllWindows(new, c)
<1> DEFINE f == Windowed(old, c)
           g == Windowed(new, c)
<1>1. /\ f \in [Windows -> Nat] /\ g \in [Windows -> Nat] /\ IsFiniteSet(Windows)
      /\ InAllWindows(old, c) = SumFunctionOnSet(f, Windows)
      /\ InAllWindows(new, c) = SumFunctionOnSet(g, Windows)
    BY WindowsTyped
<1>2. /\ f[w] = old[c][<<Plan[c].period, w>>] /\ g[w] = new[c][<<Plan[c].period, w>>]
      /\ \A v \in Windows \ {w} : f[v] = g[v]
    BY DEF Windowed
<1> HIDE DEF f, g
<1>3. /\ SumFunctionOnSet(f, Windows) \in Nat /\ SumFunctionOnSet(g, Windows) \in Nat
      /\ SumFunctionOnSet(f, Windows) + g[w] = SumFunctionOnSet(g, Windows) + f[w]
    BY <1>1, <1>2, WindowSums
<1>4. f[w] <= SumFunctionOnSet(f, Windows) /\ g[w] <= SumFunctionOnSet(g, Windows)
    BY <1>1, TermInSum
<1>5. QED
    BY <1>1, <1>2, <1>3, <1>4

LEMMA OwingTyped ==
    ASSUME TypeOK, NEW c \in CapIds, NEW r \in Requests
    PROVE  Owing(c, r) \in Nat /\ Amount(Plan[c].metric, req[r]) \in Nat
<1>1. req[r] \in CallStates /\ MaxCost \in Nat
    BY BudgetAssumption DEF TypeOK, BudgetAssumption
<1>2. Amount(Plan[c].metric, req[r]) \in Nat
    BY <1>1 DEF Amount, CallStates
<1>3. QED
    BY <1>2 DEF Owing

LEMMA OwingMoves ==
    ASSUME TypeOK, NEW c \in CapIds, NEW r \in Requests, Owing(c, r)' \in Nat,
           \A s \in Requests \ {r} : Owing(c, s)' = Owing(c, s)
    PROVE  /\ OnTheWay(c) \in Nat /\ OnTheWay(c)' \in Nat
           /\ OnTheWay(c) + Owing(c, r)' = OnTheWay(c)' + Owing(c, r)
           /\ Owing(c, r) <= OnTheWay(c)
<1> DEFINE f == [s \in Requests |-> Owing(c, s)]
           g == [s \in Requests |-> Owing(c, s)']
<1>1. \A s \in Requests : Owing(c, s) \in Nat /\ Owing(c, s)' \in Nat
    BY OwingTyped
<1>2. OnTheWay(c) = SumFunctionOnSet(f, Requests) /\ OnTheWay(c)' = SumFunctionOnSet(g, Requests)
    BY DEF OnTheWay, SumFunction
<1>3. /\ f \in [Requests -> Nat] /\ g \in [Requests -> Nat] /\ IsFiniteSet(Requests)
      /\ f[r] = Owing(c, r) /\ g[r] = Owing(c, r)' /\ \A s \in Requests \ {r} : f[s] = g[s]
    BY <1>1, BudgetAssumption DEF BudgetAssumption
<1> HIDE DEF f, g
<1>4. /\ SumFunctionOnSet(f, Requests) \in Nat /\ SumFunctionOnSet(g, Requests) \in Nat
      /\ SumFunctionOnSet(f, Requests) + g[r] = SumFunctionOnSet(g, Requests) + f[r]
    BY <1>3, SumMoves
<1>5. f[r] <= SumFunctionOnSet(f, Requests)
    BY <1>3, TermInSum
<1>6. QED
    BY <1>2, <1>3, <1>4, <1>5

\* A step that moves no money.
LEMMA LedgerRests ==
    ASSUME NEW c \in CapIds, LedgerFor(c), UNCHANGED <<total, spent>>,
           \A s \in Requests : Owing(c, s)' = Owing(c, s)
    PROVE  LedgerFor(c)'
<1>1. [s \in Requests |-> Owing(c, s)'] = [s \in Requests |-> Owing(c, s)]
    OBVIOUS
<1>2. OnTheWay(c)' = OnTheWay(c)
    BY <1>1 DEF OnTheWay
<1>3. InAllWindows(total, c)' = InAllWindows(total, c) /\ InAllWindows(spent, c)' = InAllWindows(spent, c)
    BY DEF InAllWindows
<1>4. QED
    BY <1>2, <1>3 DEF LedgerFor

LEMMA NothingOwed ==
    ASSUME NEW c \in CapIds, NEW r \in Requests
    PROVE  /\ req[r].owed = {} /\ (\A u \in Metrics : look[r][u].st = "off") => Owing(c, r) = 0
           /\ NotCounting(r) => Owing(c, r) = 0
           /\ NotCounting(r)' => Owing(c, r)' = 0
BY PlanTyped DEF Owing, NotCounting

LEMMA OthersOwe ==
    ASSUME NEW c, NEW r \in Requests, Others(r)
    PROVE  \A s \in Requests \ {r} : Owing(c, s)' = Owing(c, s)
BY DEF Others, Owing, Matches, Counts, Amount

LEMMA QuietLedger ==
    ASSUME TypeOK, ListsCurrent, NEW r \in Requests, NEW c \in CapIds, LedgerFor(c),
           \/ Arrive(r) \/ CheckCap(r) \/ Proceed(r) \/ Answer(r) \/ Uncounted(r) \/ Finish(r)
           \/ Cached(r, "enforce") \/ Find(r, "enforce") \/ Found(r, "enforce")
    PROVE  LedgerFor(c)'
<1>1. Others(r) /\ UNCHANGED <<total, spent>> /\ NotCounting(r)' /\ (NotCounting(r) \/ Finish(r))
    BY QuietMoves
<1>2. Finish(r) => req[r].owed = {} /\ \A u \in Metrics : look[r][u].st = "off"
    BY DEF Finish
<1>3. Owing(c, r) = 0 /\ Owing(c, r)' = 0
    BY <1>1, <1>2, NothingOwed
<1>4. \A s \in Requests : Owing(c, s)' = Owing(c, s)
    BY <1>1, <1>3, OthersOwe
<1>5. QED
    BY <1>1, <1>4, LedgerRests

LEMMA LookupLedger ==
    ASSUME TypeOK, ListsCurrent, NEW r \in Requests, NEW u \in Metrics, NEW c \in Existing, LedgerFor(c),
           Cached(r, u) \/ Found(r, u) \/ Find(r, u)
    PROVE  LedgerFor(c)'
<1>1. /\ Others(r) /\ UNCHANGED <<total, spent>> /\ SameCall(req'[r], req[r])
      /\ look[r][u].st # "off" /\ req[r].pc = "count"
      /\ \A v \in Metrics : v # u => look'[r][v] = look[r][v]
      /\ \/ look'[r][u].st # "off" /\ req'[r].owed = req[r].owed
         \/ /\ look'[r][u].st = "off"
            /\ req'[r].owed = req[r].owed \cup
                   {<<d, WindowKey(Plan[d], now)>> :
                         d \in {e \in Applying(Plan, req[r]) : Plan[e].metric = u}}
    BY LookupMoves
<1>2. c \in CapIds /\ Plan[c].state = "on" /\ Plan \in CapLists
    BY BudgetAssumption DEF BudgetAssumption
<1> DEFINE m == Plan[c].metric
<1>3. m \in Metrics
    BY <1>2, PlanTyped
<1>4. /\ Counts(m, req'[r]) <=> Counts(m, req[r])
      /\ Matches(Plan[c], req'[r]) <=> Matches(Plan[c], req[r])
      /\ Amount(m, req'[r]) = Amount(m, req[r])
      /\ req'[r].pc = "count"
    BY <1>1, CountSame DEF SameCall
<1>5. Matches(Plan[c], req[r]) =>
         ((look'[r][m].st # "off" \/ \E k \in Keys : <<c, k>> \in req'[r].owed)
            <=> (look[r][m].st # "off" \/ \E k \in Keys : <<c, k>> \in req[r].owed))
  <2> SUFFICES ASSUME Matches(Plan[c], req[r])
               PROVE  (look'[r][m].st # "off" \/ \E k \in Keys : <<c, k>> \in req'[r].owed)
                        <=> (look[r][m].st # "off" \/ \E k \in Keys : <<c, k>> \in req[r].owed)
      OBVIOUS
  <2>1. CASE m # u
    <3>1. \A k \in Keys : <<c, k>> \in req'[r].owed <=> <<c, k>> \in req[r].owed
      <4>1. TAKE k \in Keys
      <4>2. <<c, k>> \notin {<<d, WindowKey(Plan[d], now)>> :
                              d \in {e \in Applying(Plan, req[r]) : Plan[e].metric = u}}
          BY <2>1
      <4>3. QED
          BY <1>1, <4>2
    <3>2. look'[r][m] = look[r][m]
        BY <1>1, <1>3, <2>1
    <3>3. QED
        BY <3>1, <3>2
  <2>2. CASE m = u
    <3>1. CASE look'[r][u].st # "off"
        BY <1>1, <2>2, <3>1
    <3>2. CASE look'[r][u].st = "off"
      <4>1. c \in {e \in Applying(Plan, req[r]) : Plan[e].metric = u}
          BY <1>2, <2>2 DEF Applying
      <4>2. <<c, WindowKey(Plan[c], now)>> \in req'[r].owed
          BY <1>1, <3>2, <4>1
      <4>3. WindowKey(Plan[c], now) \in Keys
          BY <1>2, KeysTyped DEF TypeOK
      <4>4. QED
          BY <1>1, <2>2, <4>2, <4>3
    <3>3. QED
        BY <3>1, <3>2
  <2>3. QED
      BY <2>1, <2>2
<1>6. Owing(c, r)' = Owing(c, r)
  <2>1. Owing(c, r) = IF /\ Counts(m, req[r]) /\ Matches(Plan[c], req[r])
                         /\ look[r][m].st # "off" \/ \E k \in Keys : <<c, k>> \in req[r].owed
                      THEN Amount(m, req[r]) ELSE 0
      BY <1>1 DEF Owing
  <2>2. Owing(c, r)' = IF /\ Counts(m, req'[r]) /\ Matches(Plan[c], req'[r])
                          /\ look'[r][m].st # "off" \/ \E k \in Keys : <<c, k>> \in req'[r].owed
                       THEN Amount(m, req'[r]) ELSE 0
      BY <1>4 DEF Owing
  <2> HIDE DEF m
  <2>3. QED
      BY <1>4, <1>5, <2>1, <2>2
<1>7. \A s \in Requests : Owing(c, s)' = Owing(c, s)
    BY <1>1, <1>6, OthersOwe
<1>8. QED
    BY <1>1, <1>2, <1>7, LedgerRests

\* The record goes into one window, and its increment is on its way.
LEMMA RecordLedger ==
    ASSUME TypeOK, TypeOK', ListsCurrent, NEW r \in Requests, NEW c \in CapIds, LedgerFor(c), Record(r)
    PROVE  LedgerFor(c)'
<1> DEFINE m == Plan[c].metric
           w == now[Plan[c].period]
           key == <<Plan[c].period, w>>
           a == Amount(m, req[r])
<1>1. /\ Others(r) /\ UNCHANGED spent /\ NotCounting(r)
      /\ req'[r].pc = "count" /\ req'[r].owed = {}
      /\ req'[r].kind = req[r].kind /\ req'[r].app = req[r].app
      /\ req'[r].model = req[r].model /\ req'[r].cost = req[r].cost
      /\ \A u \in Metrics : look'[r][u].st # "off" <=> Counts(u, req[r])
      /\ \A k \in Keys :
                total'[c][k] = IF /\ k[2] = now[k[1]] /\ Matches(Plan[c], req[r]) /\ Counts(m, req[r])
                               THEN Plus(total[c][k], a)
                               ELSE total[c][k]
    BY RecordMoves
<1>2. /\ m \in Metrics /\ Plan[c].period \in Periods /\ w \in Windows
      /\ \A v \in Windows : <<Plan[c].period, v>> \in Keys
    BY PlanTyped DEF TypeOK
<1>3. /\ Counts(m, req'[r]) <=> Counts(m, req[r])
      /\ Matches(Plan[c], req'[r]) <=> Matches(Plan[c], req[r])
      /\ Amount(m, req'[r]) = a
    BY <1>1, CountSame
<1>4. Owing(c, r) = 0 /\ a \in Nat
    BY <1>1, NothingOwed, OwingTyped
<1>5. Owing(c, r)' = IF Counts(m, req[r]) /\ Matches(Plan[c], req[r]) THEN a ELSE 0
    BY <1>1, <1>2, <1>3 DEF Owing
<1>6. CASE ~(Counts(m, req[r]) /\ Matches(Plan[c], req[r]))
  <2>1. \A k \in Keys : total'[c][k] = total[c][k]
      BY <1>1, <1>6
  <2>2. Windowed(total', c) = Windowed(total, c)
      BY <1>2, <2>1 DEF Windowed
  <2>3. total \in [CapIds -> [Keys -> 0..Ceiling]] /\ total' \in [CapIds -> [Keys -> 0..Ceiling]]
      BY DEF TypeOK
  <2>4. InAllWindows(total', c) = InAllWindows(total, c)
      BY <2>2, <2>3, WindowsTyped
  <2>5. InAllWindows(spent', c) = InAllWindows(spent, c)
      BY <1>1
  <2>6. \A s \in Requests : Owing(c, s)' = Owing(c, s)
      BY <1>1, <1>4, <1>5, <1>6, OthersOwe
  <2>7. OnTheWay(c)' = OnTheWay(c)
    <3>1. [s \in Requests |-> Owing(c, s)'] = [s \in Requests |-> Owing(c, s)]
        BY <2>6
    <3>2. QED
        BY <3>1 DEF OnTheWay
  <2>8. QED
      BY <2>4, <2>5, <2>7 DEF LedgerFor
<1>7. CASE Counts(m, req[r]) /\ Matches(Plan[c], req[r])
  <2>1. total'[c][key] = Plus(total[c][key], a)
      BY <1>1, <1>2, <1>7
  <2>2. \A v \in Windows \ {w} : total'[c][<<Plan[c].period, v>>] = total[c][<<Plan[c].period, v>>]
    <3>1. TAKE v \in Windows \ {w}
    <3>2. <<Plan[c].period, v>> \in Keys /\ <<Plan[c].period, v>>[2] # now[<<Plan[c].period, v>>[1]]
        BY <1>2
    <3>3. QED
        BY <1>1, <3>2
  <2>3. total \in [CapIds -> [Keys -> 0..Ceiling]] /\ total' \in [CapIds -> [Keys -> 0..Ceiling]]
      BY DEF TypeOK
  <2>4. /\ InAllWindows(total, c) \in Nat /\ InAllWindows(total', c) \in Nat
        /\ InAllWindows(total, c) + total'[c][key] = InAllWindows(total', c) + total[c][key]
        /\ total'[c][key] <= InAllWindows(total', c)
      BY <1>2, <2>2, <2>3, WindowMoves
  <2>5. InAllWindows(spent', c) = InAllWindows(spent, c) /\ InAllWindows(spent, c) \in Nat
      BY <1>1, WindowsTyped, WindowMoves, <1>2 DEF TypeOK
  <2>6. /\ OnTheWay(c) \in Nat /\ OnTheWay(c)' \in Nat
        /\ OnTheWay(c) + a = OnTheWay(c)' + 0
      BY <1>1, <1>4, <1>5, <1>7, OthersOwe, OwingMoves
  <2>7. total[c][key] \in 0..Ceiling /\ total'[c][key] \in 0..Ceiling /\ Ceiling \in Nat
      BY <1>2, <2>3, BudgetAssumption DEF BudgetAssumption
  <2> HIDE DEF m, w, key, a
  <2>8. ASSUME InAllWindows(total', c) < Ceiling
        PROVE  InAllWindows(total', c) = InAllWindows(spent', c) + OnTheWay(c)'
    <3>1. total'[c][key] < Ceiling
        BY <2>4, <2>7, <2>8
    <3>2. total'[c][key] = total[c][key] + a
        BY <2>1, <3>1, <2>7 DEF Plus
    <3>3. InAllWindows(total', c) = InAllWindows(total, c) + a
        BY <1>4, <2>4, <2>7, <3>2
    <3>4. InAllWindows(total, c) < Ceiling
        BY <1>4, <2>4, <2>7, <2>8, <3>3
    <3>5. InAllWindows(total, c) = InAllWindows(spent, c) + OnTheWay(c)
        BY <3>4 DEF LedgerFor
    <3>6. QED
        BY <1>4, <2>4, <2>5, <2>6, <3>3, <3>5
  <2>9. QED
      BY <2>8 DEF LedgerFor
<1>8. QED
    BY <1>6, <1>7

\* An increment arrives: what was on its way is in the counter.
LEMMA ChargeLedger ==
    ASSUME TypeOK, TypeOK', ListsCurrent, OwedOnce, IncrementsDue, NEW r \in Requests,
           NEW c \in CapIds, LedgerFor(c), Charge(r)
    PROVE  LedgerFor(c)'
<1>1. PICK d \in CapIds, k \in Keys :
          /\ Others(r) /\ UNCHANGED <<total, look>> /\ SameCall(req'[r], req[r])
          /\ <<d, k>> \in req[r].owed /\ req'[r].owed = req[r].owed \ {<<d, k>>}
          /\ req[r].pc = "count"
          /\ spent' = [spent EXCEPT ![d][k] = Plus(spent[d][k], Amount(Plan[d].metric, req[r]))]
    BY ChargeMoves
<1>2. /\ spent \in [CapIds -> [Keys -> 0..Ceiling]] /\ spent' \in [CapIds -> [Keys -> 0..Ceiling]]
      /\ total \in [CapIds -> [Keys -> 0..Ceiling]]
    BY DEF TypeOK
<1> DEFINE m == Plan[c].metric
           a == Amount(m, req[r])
<1>3. /\ Counts(m, req'[r]) <=> Counts(m, req[r])
      /\ Matches(Plan[c], req'[r]) <=> Matches(Plan[c], req[r])
      /\ Amount(m, req'[r]) = a
      /\ req'[r].pc = "count"
    BY <1>1, CountSame DEF SameCall
<1>4. CASE d # c
  <2>1. \A j \in Keys : <<c, j>> \in req'[r].owed <=> <<c, j>> \in req[r].owed
      BY <1>1, <1>4
  <2>2. Owing(c, r)' = Owing(c, r)
      BY <1>1, <1>3, <2>1 DEF Owing
  <2>3. \A s \in Requests : Owing(c, s)' = Owing(c, s)
      BY <1>1, <2>2, OthersOwe
  <2>4. spent'[c] = spent[c]
      BY <1>1, <1>2, <1>4
  <2>5. InAllWindows(spent', c) = InAllWindows(spent, c)
      BY <2>4 DEF InAllWindows
  <2>6. OnTheWay(c)' = OnTheWay(c)
    <3>1. [s \in Requests |-> Owing(c, s)'] = [s \in Requests |-> Owing(c, s)]
        BY <2>3
    <3>2. QED
        BY <3>1 DEF OnTheWay
  <2>7. QED
      BY <1>1, <2>5, <2>6 DEF LedgerFor
<1>5. CASE d = c
  <2>1. /\ k[1] = Plan[c].period /\ Matches(Plan[c], req[r]) /\ look[r][m].st = "off"
      BY <1>1, <1>5 DEF OwedOnce
  <2>2. Counts(m, req[r]) /\ \A l \in Keys : <<c, l>> \in req[r].owed => k = l
      BY <1>1, <1>5 DEF IncrementsDue
  <2>3. Owing(c, r) = a /\ a \in Nat
      BY <1>1, <1>5, <2>1, <2>2, OwingTyped DEF Owing
  <2>4. Owing(c, r)' = 0
    <3>1. \A l \in Keys : <<c, l>> \notin req'[r].owed
        BY <1>1, <1>5, <2>2
    <3>2. look'[r][m].st = "off"
        BY <1>1, <2>1
    <3>3. QED
        BY <3>1, <3>2 DEF Owing
  <2>5. /\ OnTheWay(c) \in Nat /\ OnTheWay(c)' \in Nat
        /\ OnTheWay(c) + 0 = OnTheWay(c)' + a /\ a <= OnTheWay(c)
      BY <1>1, <2>3, <2>4, OthersOwe, OwingMoves
  <2>6. PICK w \in Windows : k = <<Plan[c].period, w>>
      BY <2>1 DEF Keys
  <2>7. /\ spent'[c][<<Plan[c].period, w>>] = Plus(spent[c][<<Plan[c].period, w>>], a)
        /\ \A v \in Windows \ {w} : spent'[c][<<Plan[c].period, v>>] = spent[c][<<Plan[c].period, v>>]
    <3>1. spent'[c] = [spent[c] EXCEPT ![k] = Plus(spent[c][k], a)] /\ spent[c] \in [Keys -> 0..Ceiling]
        BY <1>1, <1>2, <1>5
    <3>2. \A v \in Windows : <<Plan[c].period, v>> \in Keys
        BY PlanTyped
    <3>3. QED
        BY <2>6, <3>1, <3>2
  <2>8. /\ InAllWindows(spent, c) \in Nat /\ InAllWindows(spent', c) \in Nat
        /\ InAllWindows(spent, c) + spent'[c][<<Plan[c].period, w>>]
              = InAllWindows(spent', c) + spent[c][<<Plan[c].period, w>>]
        /\ spent[c][<<Plan[c].period, w>>] <= InAllWindows(spent, c)
      BY <1>2, <2>7, WindowMoves
  <2>9. spent[c][<<Plan[c].period, w>>] \in 0..Ceiling /\ Ceiling \in Nat
      BY <1>2, PlanTyped, BudgetAssumption DEF BudgetAssumption
  <2>10. InAllWindows(total', c) = InAllWindows(total, c)
      BY <1>1
  <2>11. ASSUME InAllWindows(total, c) < Ceiling
         PROVE  InAllWindows(total, c) = InAllWindows(spent', c) + OnTheWay(c)'
    <3>1. InAllWindows(total, c) = InAllWindows(spent, c) + OnTheWay(c)
        BY <2>11 DEF LedgerFor
    <3>2. spent[c][<<Plan[c].period, w>>] + a < Ceiling
        BY <2>3, <2>5, <2>8, <2>9, <2>11, <3>1
    <3>3. spent'[c][<<Plan[c].period, w>>] = spent[c][<<Plan[c].period, w>>] + a
        BY <2>3, <2>7, <2>9, <3>2 DEF Plus
    <3>4. QED
        BY <2>3, <2>5, <2>8, <2>9, <3>1, <3>3
  <2>12. QED
      BY <2>10, <2>11 DEF LedgerFor
<1>6. QED
    BY <1>4, <1>5

LEMMA LedgerInitial == Init => LedgerExact
<1> SUFFICES ASSUME Init, NEW c \in Existing PROVE LedgerFor(c)
    BY DEF LedgerExact, LedgerFor
<1>1. InAllWindows(total, c) = InAllWindows(spent, c)
    BY DEF Init
<1>2. OnTheWay(c) = 0
  <2> DEFINE f == [r \in Requests |-> Owing(c, r)]
  <2>1. \A r \in Requests : req[r].pc # "count"
      BY DEF Init, Idle
  <2>2. \A r \in Requests : f[r] = 0
      BY <2>1 DEF Owing
  <2>3. OnTheWay(c) = SumFunctionOnSet(f, Requests) /\ IsFiniteSet(Requests)
      BY BudgetAssumption DEF OnTheWay, SumFunction, BudgetAssumption
  <2> HIDE DEF f
  <2>4. QED
      BY <2>2, <2>3, SumOfNothing
<1>3. InAllWindows(spent, c) \in Nat
  <2>1. spent \in [CapIds -> [Keys -> 0..Ceiling]] /\ c \in CapIds /\ 1 \in Windows
      BY InitTypeOK, BudgetAssumption DEF TypeOK, BudgetAssumption, Windows
  <2>2. QED
      BY <2>1, WindowMoves
<1>4. QED
    BY <1>1, <1>2, <1>3 DEF LedgerFor

LEMMA LedgerStep ==
    ASSUME Calm, TypeOK, TypeOK', ListsCurrent, OwedOnce, IncrementsDue, LedgerExact, [Next]_vars
    PROVE  LedgerExact'
<1> SUFFICES ASSUME NEW c \in Existing PROVE LedgerFor(c)'
    BY DEF LedgerExact, LedgerFor
<1>1. c \in CapIds /\ LedgerFor(c)
    BY BudgetAssumption DEF BudgetAssumption, LedgerExact, LedgerFor
<1>2. ASSUME (\E p \in Procs : Expire(p)) \/ (\E period \in Periods : NextWindow(period)) \/ UNCHANGED vars
      PROVE  LedgerFor(c)'
  <2>1. /\ UNCHANGED <<total, spent, look>>
        /\ \A r \in Requests : SameCall(req'[r], req[r]) /\ req'[r].owed = req[r].owed
      BY <1>2, CalendarMoves
  <2>2. \A r \in Requests : Owing(c, r)' = Owing(c, r)
    <3>1. TAKE r \in Requests
    <3>2. \A m, cap : /\ Counts(m, req'[r]) <=> Counts(m, req[r])
                      /\ Matches(cap, req'[r]) <=> Matches(cap, req[r])
                      /\ Amount(m, req'[r]) = Amount(m, req[r])
        BY <2>1, CountSame DEF SameCall
    <3>3. req'[r].pc = req[r].pc
        BY <2>1 DEF SameCall
    <3>4. QED
        BY <2>1, <3>2, <3>3 DEF Owing
  <2>3. QED
      BY <1>1, <2>1, <2>2, LedgerRests
<1>3. ASSUME NEW r \in Requests, Arrive(r) \/ Handle(r) PROVE LedgerFor(c)'
  <2>1. \A u \in Uses : u = "enforce" \/ u \in Metrics
      BY DEF Uses
  <2>2. QED
      BY <1>1, <1>3, <2>1, QuietLedger, LookupLedger, RecordLedger, ChargeLedger DEF Handle
<1>4. QED
    BY <1>2, <1>3, CalmSteps

\* While caps are not edited, counters not realigned and no write is lost, the counters
\* of a cap and the increments on their way add up to its records, however many calls
\* count in however many processes and whenever the windows roll over (capEngine.js:3-5,
\* 88-127, logger.js:103-108).
THEOREM LedgerAlwaysExact ==
    ASSUME Calm
    PROVE  Spec => []LedgerExact
<1> DEFINE Good == TypeOK /\ ListsCurrent /\ OwedOnce /\ IncrementsDue /\ LedgerExact
<1>1. Init => IncrementsDue
  <2> SUFFICES ASSUME Init, NEW r \in Requests PROVE DueOf(r)
      BY DEF IncrementsDue, DueOf
  <2>1. req[r].owed = {} /\ \A u \in Metrics : look[r][u].st = "off"
      BY AskingStates DEF Init, Idle, Uses
  <2>2. QED
      BY <2>1 DEF DueOf
<1>2. Init => Good
    BY <1>1, InitTypeOK, InitLists, InitOwed, LedgerInitial
<1>3. Good /\ [Next]_vars => Good'
  <2> SUFFICES ASSUME Good, [Next]_vars PROVE Good'
      OBVIOUS
  <2>1. TypeOK' /\ ListsCurrent' /\ OwedOnce'
      BY StepTypeOK, StepLists, StepOwed DEF Calm
  <2>2. IncrementsDue' /\ LedgerExact'
      BY <2>1, DueStep, LedgerStep
  <2>3. QED
      BY <2>1, <2>2
<1>4. QED
    BY <1>2, <1>3, PTL DEF Spec
=============================================================================
