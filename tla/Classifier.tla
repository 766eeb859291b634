----------------------------- MODULE Classifier ------------------------------
(* What task a request is and how difficult: the type it names itself, the    *)
(* cached or fresh answer of a cheap model, or keywords; and the score of      *)
(* difficulty that routing buckets into tiers.                                *)
(* src/server/src: classify/classifier.js.                                    *)
EXTENDS Naturals, Sequences, SequencesExt

CONSTANTS Classifications,  \* requests that are classified
          Conversations,    \* their messages: [role, text]
          TextTasks,        \* the catalogue's tasks
          TextTier,         \* tier of a task of the catalogue
          KeywordTask,      \* the task whose keywords a text is first to match
          Unsure,           \* the task of a text without keywords
          LabelOf,          \* what a model may label a text: sets of tasks, NoLabel for none
          Ratings,          \* how it may rate its difficulty: [word, n], a word or NoLabel and a number
          NoLabel, LlmCacheMax

\* A conversation has a message, texts have a length, and the tasks a tier each.
ASSUME ClassifierAssumption ==
    /\ LlmCacheMax \in Nat \ {0}
    /\ NoLabel \notin Nat \cup {"light", "mid", "premium"}
    /\ \A said \in Conversations :
          /\ said \in Seq(Range(said)) /\ said # <<>>
          /\ \A i \in DOMAIN said : said[i].text.length \in Nat
    /\ \A t \in TextTasks : TextTier[t] \in {"light", "mid", "premium"}

VARIABLES llmCache,   \* Map: in the order of insertion
          classifying     \* what each request is at

ClassifierVars == <<llmCache, classifying>>

AtRest == [pc |-> "idle"]
ClassifierInit ==
    /\ llmCache = <<>>
    /\ classifying = [c \in Classifications |-> AtRest]

-----------------------------------------------------------------------------
(* Difficulty. A text has a length, cues of a hard task and code blocks.      *)

TextTiers == <<"light", "mid", "premium">>
\* Mutant: bands that meet.
Band_Open(tier) == CASE tier = "light" -> <<1, 4>> [] tier = "mid" -> <<4, 8>> [] OTHER -> <<8, 10>>
Band(tier) == CASE tier = "light" -> <<1, 3>> [] tier = "mid" -> <<4, 7>> [] OTHER -> <<8, 10>>

\* scoreToTier: a score that is no number counts as mid.
ScoreToTier(n) ==
    IF n = NoLabel THEN "mid" ELSE IF n <= 3 THEN "light" ELSE IF n <= 7 THEN "mid" ELSE "premium"

\* normalizeDifficultyScore: a number is clamped, a word stands for one of its band.
NormalizeScore(v) ==
    IF v.word # NoLabel
    THEN CASE v.word = "light" -> 2 [] v.word = "mid" -> 5 [] v.word = "premium" -> 9 [] OTHER -> NoLabel
    ELSE IF v.n < 1 THEN 1 ELSE IF v.n > 10 THEN 10 ELSE v.n

\* One step down for a short text without cues, one up for a hard or long one.
EstimateDifficulty(text, task) ==
    LET start == IF task \in TextTasks THEN SelectInSeq(TextTiers, LAMBDA t : t = TextTier[task]) ELSE 2
        down == IF text.length < 80 /\ ~text.cues /\ start > 1 THEN start - 1 ELSE start
        up == IF (text.cues \/ text.length > 1500 \/ text.blocks >= 2) /\ down < 3 THEN down + 1 ELSE down
    IN  TextTiers[up]

\* Its place in the band of the tier, by length, rounded.
EstimateScore(text, task) ==
    LET b == Band(EstimateDifficulty(text, task))
        len == IF text.length > 2000 THEN 2000 ELSE text.length
    IN  (2 * (b[1] * 2000 + len * (b[2] - b[1])) + 2000) \div 4000

-----------------------------------------------------------------------------
(* Classification. *)

\* Mutant: what a conversation began with.
Asking_First(messages) ==
    messages[SelectInSeq(messages, LAMBDA m : m.role = "user")].text
\* The latest turn of the user, or the last message when there is none.
Asking(messages) ==
    LET turn == SelectLastInSeq(messages, LAMBDA m : m.role = "user")
    IN  messages[IF turn = 0 THEN Len(messages) ELSE turn].text

\* What is made of a text, which is kept for the properties.
Verdict(method, text, task, score) ==
    [method |-> method, of |-> text, task |-> task, score |-> score,
     tier |-> IF score = NoLabel THEN NoLabel ELSE ScoreToTier(score)]
ByKeyword(text) ==
    LET task == IF KeywordTask[text.id] # NoLabel THEN KeywordTask[text.id] ELSE Unsure
    IN  Verdict("keyword", text, task, EstimateScore(text, task))

Done(c, messages, verdict) ==
    classifying' = [classifying EXCEPT ![c] = [pc |-> "done", messages |-> messages, verdict |-> verdict]]

\* A task the application names is trusted.
Provided(c, messages, task) ==
    /\ classifying[c] = AtRest /\ Done(c, messages, Verdict("provided", Asking(messages), task, NoLabel))
    /\ UNCHANGED llmCache

\* No model is to be asked, or none is live.
KeywordsOnly(c, messages) ==
    /\ classifying[c] = AtRest /\ Done(c, messages, ByKeyword(Asking(messages)))
    /\ UNCHANGED llmCache

Slot(cache, text) == SelectInSeq(cache, LAMBDA e : e.text = text)

Recall(c, messages) ==
    /\ classifying[c] = AtRest /\ Slot(llmCache, Asking(messages)) # 0
    /\ Done(c, messages, llmCache[Slot(llmCache, Asking(messages))].verdict)
    /\ UNCHANGED llmCache

AskModel(c, messages) ==
    /\ classifying[c] = AtRest /\ Slot(llmCache, Asking(messages)) = 0
    /\ classifying' = [classifying EXCEPT ![c] = [pc |-> "asking", messages |-> messages]]
    /\ UNCHANGED llmCache

\* Mutant: room is made once the cache has overflowed.
MakeRoom_Late(cache) == IF Len(cache) > LlmCacheMax THEN Tail(cache) ELSE cache
\* At its limit the cache loses its oldest entry first, also for a text it has.
MakeRoom(cache) == IF Len(cache) >= LlmCacheMax THEN Tail(cache) ELSE cache

\* Map.set: an entry that is there keeps its place.
Remember(cache, text, verdict) ==
    LET room == MakeRoom(cache)
        at == Slot(room, text)
    IN  IF at = 0 THEN Append(room, [text |-> text, verdict |-> verdict])
        ELSE [room EXCEPT ![at].verdict = verdict]

ModelAnswers(c, label, rating) ==
    /\ classifying[c].pc = "asking"
    /\ LET text == Asking(classifying[c].messages)
           verdict == Verdict("ai", text, label, NormalizeScore(rating))
       IN  /\ label \in LabelOf[text.id] \ {NoLabel}
           /\ Done(c, classifying[c].messages, verdict)
           /\ llmCache' = Remember(llmCache, text, verdict)

\* The call failed, or its answer names no task: keywords decide, nothing is cached.
ModelFails(c) ==
    /\ classifying[c].pc = "asking"
    /\ Done(c, classifying[c].messages, ByKeyword(Asking(classifying[c].messages)))
    /\ UNCHANGED llmCache

Forgotten(c) ==
    /\ classifying[c].pc = "done" /\ classifying' = [classifying EXCEPT ![c] = AtRest]
    /\ UNCHANGED llmCache

ClassifierNext ==
    \E c \in Classifications :
        \/ \E m \in Conversations, t \in TextTasks : Provided(c, m, t)
        \/ \E m \in Conversations : KeywordsOnly(c, m) \/ Recall(c, m) \/ AskModel(c, m)
        \/ \E l \in TextTasks, r \in Ratings : ModelAnswers(c, l, r)
        \/ ModelFails(c) \/ Forgotten(c)

ClassifierSpec == ClassifierInit /\ [][ClassifierNext]_ClassifierVars

-----------------------------------------------------------------------------
(* Properties. *)

\* A classification is of what the user asks now, also when it comes from the
\* cache and whatever requests come between: of the latest turn, never of one
\* that began the conversation (classifier.js:110-111).
VerdictIsOwn ==
    \A c \in Classifications : classifying[c].pc = "done" =>
        LET said == classifying[c].messages
            turns == {i \in DOMAIN said : said[i].role = "user"}
        IN  \E i \in (IF turns = {} THEN {Len(said)} ELSE turns) :
                /\ said[i].text = classifying[c].verdict.of
                /\ \A j \in turns : j <= i

\* The cache keeps to its limit and has one entry for a text.
LlmCacheBounded ==
    /\ Len(llmCache) <= LlmCacheMax
    /\ \A i, j \in DOMAIN llmCache : llmCache[i].text = llmCache[j].text => i = j

\* Routing parity: the score of the keyword path buckets back to the tier that
\* was estimated (classifier.js:139), and a tier word to itself.
ScoreKeepsTier ==
    /\ \A m \in Conversations, t \in TextTasks \cup {Unsure} :
          ScoreToTier(EstimateScore(Asking(m), t)) = EstimateDifficulty(Asking(m), t)
    /\ \A w \in {"light", "mid", "premium"} : ScoreToTier(NormalizeScore([word |-> w, n |-> 0])) = w

ClassifiedRightly == VerdictIsOwn /\ LlmCacheBounded /\ ScoreKeepsTier
=============================================================================
