------------------------------ MODULE Currency -------------------------------
(* The display currency and its exchange rate: an operator switches the        *)
(* currency, every process refreshes the rate on a timer, and both write the   *)
(* one settings document after they have waited for a provider of rates.        *)
(* src/server/src: currency/fx.js, api/routes/currency.js, models/Settings.js.   *)
EXTENDS Deployment

CONSTANTS Currencies,  \* currencies other than USD
          Fetches,     \* switches and refreshes under way
          MaxSwitches  \* bound on the switches

VARIABLES money,     \* currency, fxRate as the currency it is the rate of, fxUpdatedAt or not
          fetch,     \* switches and refreshes under way
          switches,  \* switches that were asked for
          crossed    \* history: two of them have overlapped

FxVars == <<money, fetch, switches, crossed>>

\* A rate of 1 is that of USD.
Dollars == [currency |-> "USD", rate |-> "USD", dated |-> TRUE]
NoFetch == [pc |-> "none", doc |-> Dollars, to |-> None]

FxInit ==
    /\ money = Dollars
    /\ fetch = [f \in Fetches |-> NoFetch]
    /\ switches = 0 /\ crossed = FALSE

FetchAt(f, new) ==
    /\ fetch' = [fetch EXCEPT ![f] = new]
    /\ crossed' = (crossed \/ \E g \in Fetches \ {f} : fetch[g] # NoFetch)

-----------------------------------------------------------------------------
\* PUT /currency: setCurrency() reads the settings.
Switch(f, c) ==
    /\ switches < MaxSwitches /\ fetch[f] = NoFetch
    /\ switches' = switches + 1
    /\ FetchAt(f, [pc |-> "reset", doc |-> money, to |-> c])
    /\ UNCHANGED money

\* Mutant: the rate stays until the new one is there.
Reset_Later(f) ==
    /\ fetch[f].pc = "reset"
    /\ money' = Saved(money, fetch[f].doc, [fetch[f].doc EXCEPT !.currency = fetch[f].to])
    /\ FetchAt(f, [fetch[f] EXCEPT !.pc = "refresh"])
    /\ UNCHANGED switches

\* The rate is reset with the currency; of the document only what changes is written.
Reset(f) ==
    /\ fetch[f].pc = "reset"
    /\ money' = Saved(money, fetch[f].doc, [currency |-> fetch[f].to, rate |-> "USD", dated |-> FALSE])
    /\ FetchAt(f, [fetch[f] EXCEPT !.pc = "refresh"])
    /\ UNCHANGED switches

\* refreshRate(), after a switch or from the timer of a process, reads the settings anew.
Refresh(f) ==
    /\ fetch[f].pc = "refresh" \/ fetch[f] = NoFetch
    /\ IF money.currency = "USD" /\ money.rate = "USD" /\ money.dated
       THEN FetchAt(f, NoFetch)
       ELSE FetchAt(f, [pc |-> "fetch", doc |-> money, to |-> money.currency])
    /\ UNCHANGED <<money, switches>>

\* Mutant: the rates of the timer are thrown away.
Store_Never(f) == fetch[f].pc = "fetch" /\ FetchAt(f, NoFetch) /\ UNCHANGED <<money, switches>>

\* A provider has answered with the rate of the currency that was read; for USD it is 1.
\* Both the rate and its date are new.
Store(f) ==
    /\ fetch[f].pc = "fetch"
    /\ money' = [money EXCEPT !.rate = fetch[f].to, !.dated = TRUE]
    /\ FetchAt(f, NoFetch)
    /\ UNCHANGED switches

\* Every provider fails, or the store does: what is stored stays.
FetchFails(f) ==
    /\ fetch[f] # NoFetch
    /\ FetchAt(f, NoFetch)
    /\ UNCHANGED <<money, switches>>

-----------------------------------------------------------------------------
FxStep(f) == Reset(f) \/ Refresh(f) \/ Store(f)

FxNext == \E f \in Fetches : FxStep(f) \/ FetchFails(f) \/ \E c \in Currencies \cup {"USD"} : Switch(f, c)

FxSpec == FxInit /\ [][FxNext]_FxVars

-----------------------------------------------------------------------------
(* Properties. *)

\* The dashboard shows amounts at the rate of the currency whose label they carry, or in
\* dollars while no rate is known for it.
RateFits == money.dated => money.rate = money.currency

\* A switch whose fetch fails never shows the rate of the previous currency under the new
\* label, as long as it overlaps no other switch or refresh (fx.js:12-13).
RateFitsAlone == ~crossed => RateFits

\* Once the currency is settled it gets its own rate and keeps it: a wrong one is replaced
\* by the next refresh (fx.js:65-66, 100-107).
RateArrives == <>[](money.dated /\ RateFits)
=============================================================================
