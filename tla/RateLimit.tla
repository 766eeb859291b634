----------------------------- MODULE RateLimit -------------------------------
(* Requests per minute of one key: a counter per minute in the store, shared *)
(* by all processes, and one in the memory of each process for the calls the   *)
(* store does not answer.                                                      *)
(* src/server/src: routing/rateLimit.js, models/RateBucket.js, gateway/auth.js. *)
EXTENDS Deployment

CONSTANTS Callings,   \* calls under way
          Rpm,        \* the limit of the key
          LastMinute  \* bound on the minutes

ASSUME RateAssumption == Rpm \in Nat /\ LastMinute \in Nat

VARIABLES minute,      \* the current window
          bucket,      \* RateBucket documents: the count of each minute
          memory,      \* the window and count each process keeps for itself
          calling,     \* calls between their arrival and their count
          byStore,     \* history: calls admitted in each minute by the store's count
          byMemory,    \* history: and by the memory of each process
          late         \* history: a call was counted after its minute was over

RateVars == <<minute, bucket, memory, calling, byStore, byMemory, late>>

Minutes == 0..LastMinute
Waiting == [pc |-> "idle", at |-> None, in |-> 0]

RateInit ==
    /\ minute = 0
    /\ bucket = [w \in Minutes |-> 0]
    /\ memory = [p \in Processes |-> [in |-> 0, count |-> 0]]
    /\ calling = [k \in Callings |-> Waiting]
    /\ byStore = [w \in Minutes |-> 0]
    /\ byMemory = [p \in Processes |-> [w \in Minutes |-> 0]]
    /\ late = FALSE

\* Mutant: one call too many.
OverLimit_ByOne(count) == count > Rpm + 1

OverLimit(count) == count > Rpm

\* Counts are kept up to what the limit tells apart; the window is that of the arrival.
Upped(count) == IF count > Rpm + 1 THEN count ELSE count + 1

\* Mutant: the window is rounded up.
Come_RoundsUp(k, p) ==
    /\ calling[k] = Waiting
    /\ calling' = [calling EXCEPT ![k] = [pc |-> "count", at |-> p, in |-> minute + 1]]
    /\ UNCHANGED <<minute, bucket, memory, byStore, byMemory, late>>

Come(k, p) ==
    /\ calling[k] = Waiting
    /\ calling' = [calling EXCEPT ![k] = [pc |-> "count", at |-> p, in |-> minute]]
    /\ UNCHANGED <<minute, bucket, memory, byStore, byMemory, late>>

Passed(k) == late' = (late \/ calling[k].in # minute)

\* findOneAndUpdate with $inc and upsert answers the count after the increment.
CountInStore(k) ==
    LET w == calling[k].in  count == Upped(bucket[calling[k].in])
    IN  /\ calling[k].pc = "count"
        /\ bucket' = [bucket EXCEPT ![w] = count]
        /\ byStore' = IF OverLimit(count) THEN byStore ELSE [byStore EXCEPT ![w] = Upped(@)]
        /\ calling' = [calling EXCEPT ![k] = Waiting]
        /\ Passed(k)
        /\ UNCHANGED <<minute, memory, byMemory>>

\* Mutant: the memory of the process forgets the calls it has admitted.
CountInMemory_Forgets(k) ==
    LET w == calling[k].in  p == calling[k].at
    IN  /\ calling[k].pc = "count"
        /\ memory' = [memory EXCEPT ![p] = [in |-> w, count |-> 1]]
        /\ byMemory' = IF OverLimit(1) THEN byMemory ELSE [byMemory EXCEPT ![p][w] = Upped(@)]
        /\ calling' = [calling EXCEPT ![k] = Waiting]
        /\ Passed(k)
        /\ UNCHANGED <<minute, bucket, byStore>>

\* The store fails, before or after it has counted: an entry of another window is replaced.
CountInMemory(k) ==
    LET w == calling[k].in
        p == calling[k].at
        count == IF memory[p].in = w THEN Upped(memory[p].count) ELSE 1
    IN  /\ calling[k].pc = "count"
        /\ bucket' \in {bucket, [bucket EXCEPT ![w] = Upped(@)]}
        /\ memory' = [memory EXCEPT ![p] = [in |-> w, count |-> count]]
        /\ byMemory' = IF OverLimit(count) THEN byMemory ELSE [byMemory EXCEPT ![p][w] = Upped(@)]
        /\ calling' = [calling EXCEPT ![k] = Waiting]
        /\ Passed(k)
        /\ UNCHANGED <<minute, byStore>>

\* Sixty seconds are over. The bound lets the windows begin again with everything empty.
NextMinute ==
    \/ /\ minute < LastMinute
       /\ minute' = minute + 1
       /\ UNCHANGED <<bucket, memory, calling, byStore, byMemory, late>>
    \/ /\ minute = LastMinute /\ \A k \in Callings : calling[k] = Waiting
       /\ minute' = 0
       /\ bucket' = [w \in Minutes |-> 0]
       /\ memory' = [p \in Processes |-> [in |-> 0, count |-> 0]]
       /\ byStore' = [w \in Minutes |-> 0]
       /\ byMemory' = [p \in Processes |-> [w \in Minutes |-> 0]]
       /\ late' = FALSE
       /\ UNCHANGED calling

RateNext ==
    \/ NextMinute
    \/ \E k \in Callings : CountInStore(k) \/ CountInMemory(k) \/ \E p \in Processes : Come(k, p)

RateSpec == RateInit /\ [][RateNext]_RateVars

-----------------------------------------------------------------------------
(* Properties. *)

\* Counts only grow with calls, and a process remembers a window that has begun.
RateTypeOK ==
    /\ \A w \in Minutes : bucket[w] \in 0..Rpm + 2 /\ (w > minute => bucket[w] = 0)
    /\ \A p \in Processes : memory[p].in <= minute /\ memory[p].count \in 0..Rpm + 2

\* In all processes together the store's count admits no more calls of a minute than the
\* limit, however late they are counted (rateLimit.js:53-61).
StoreKeepsLimit == \A w \in Minutes : byStore[w] <= Rpm

\* While calls are counted in the minute they arrive in, the memory of a process does not
\* admit more than the limit either (rateLimit.js:8-9, 31-41).
MemoryKeepsLimit == ~late => \A p \in Processes, w \in Minutes : byMemory[p][w] <= Rpm

\* Neither way of counting admits more than the limit (rateLimit.js:5-9).
LimitsHold == StoreKeepsLimit /\ MemoryKeepsLimit
=============================================================================
