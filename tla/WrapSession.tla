----------------------------- MODULE WrapSession ----------------------------
(* arbr wrap: a process that stands between a coding agent and its provider,    *)
(* and counts what passes. Claude and OpenCode are told of it in their          *)
(* environment, Cursor by its user; for Codex the user's configuration is       *)
(* changed while the agent runs and put back after. Several may run at once,    *)
(* on the same file. Two copies are never kept in the same millisecond.         *)
(* src/clients/cli: src/wrap.js, src/wrapAgents.js, bin/arbr.js.                *)
EXTENDS Deployment

CONSTANTS Wraps,        \* processes of arbr wrap
          WrapCalls,    \* calls of agents
          AgentsOf,     \* process -> the agents it may be asked to wrap
          Writings      \* what a user may write in the file

AgentNames == {"claude", "codex", "opencode", "cursor"}

ASSUME WrapAssumption == \A w \in Wraps : AgentsOf[w] \subseteq AgentNames

VARIABLES wrap,      \* process -> its step, agent, what it found in the file, whose proxy its agent uses
          config,    \* the file config.toml of Codex
          copies,    \* what the files arbr-backup hold
          passing,   \* call -> its state, the process whose agent makes it, the proxy it goes to
          report,    \* process -> the calls its report counts
          written,   \* the file as its user left it
          spoilt     \* what has happened that nothing guards against

WrapVars == <<wrap, config, copies, passing, report, written, spoilt>>

\* A file: what the user wrote, and the tables of proxies that were appended to it.
File(text, tables) == [exists |-> TRUE, text |-> text, tables |-> tables]
Missing == [exists |-> FALSE, text |-> None, tables |-> <<>>]

NotWrapped == [step |-> "none", agent |-> None, found |-> Missing, to |-> None]
NoPassing == [state |-> "none", by |-> None, to |-> None]

WrapInit ==
    /\ wrap = [w \in Wraps |-> NotWrapped]
    /\ written \in {Missing} \cup {File(t, <<>>) : t \in Writings}
    /\ config = written
    /\ copies = {} /\ spoilt = {}
    /\ passing = [c \in WrapCalls |-> NoPassing]
    /\ report = [w \in Wraps |-> {}]

\* The file is, or is about to be, what the process has made of it.
Holds(w) == wrap[w].agent = "codex" /\ wrap[w].step \in {"read", "saved", "patched", "running"}
Listens(w) == wrap[w].step \in {"listening", "read", "saved", "patched", "running"}

Step(w, from, to) == wrap[w].step = from /\ wrap' = [wrap EXCEPT ![w].step = to]
Spoils(what) == spoilt' = spoilt \cup what

-----------------------------------------------------------------------------
(* The session. *)

\* runWrapCommand, runWrapSession up to startProxy; an agent of another name is refused.
StartProxy(w, agent) ==
    /\ wrap[w].step = "none" /\ agent \in AgentsOf[w]
    /\ wrap' = [wrap EXCEPT ![w] = [NotWrapped EXCEPT !.step = "listening", !.agent = agent]]
    /\ UNCHANGED <<config, copies, passing, report, written, spoilt>>

\* launchClaude, launchOpenCode, printCursorInstructions: no file is touched.
LaunchDirectly(w) ==
    /\ wrap[w].agent # "codex" /\ wrap[w].step = "listening"
    /\ wrap' = [wrap EXCEPT ![w].step = "running", ![w].to = w]
    /\ UNCHANGED <<config, copies, passing, report, written, spoilt>>

\* patchCodexConfig. Other processes may come between what it reads and what it writes.
ReadConfig(w) ==
    /\ wrap[w].agent = "codex" /\ wrap[w].step = "listening"
    /\ wrap' = [wrap EXCEPT ![w].step = "read", ![w].found = config]
    /\ Spoils(IF \E v \in Wraps : Holds(v) THEN {"overlap"} ELSE {})
    /\ UNCHANGED <<config, copies, passing, report, written>>

\* Mutant: no copy is kept.
Kept_None(found) == {}
Kept(found) == IF found.exists THEN {found} ELSE {}
BackUp(w) ==
    /\ Step(w, "read", "saved")
    /\ copies' = copies \cup Kept(wrap[w].found)
    /\ UNCHANGED <<config, passing, report, written, spoilt>>

\* The line model_provider is replaced, a table is appended.
PatchedFile(found, w) == File(found.text, Append(found.tables, w))
WritePatched(w) ==
    /\ Step(w, "saved", "patched")
    /\ config' = PatchedFile(wrap[w].found, w)
    /\ UNCHANGED <<copies, passing, report, written, spoilt>>

\* The agent reads the file as it is by then; with a table twice it is no TOML.
ProxyIn(file) == IF Len(file.tables) = 1 THEN file.tables[1] ELSE None
\* launchCodex: from here a signal is handled.
Launch(w) ==
    /\ wrap[w].step = "patched"
    /\ wrap' = [wrap EXCEPT ![w].step = "running", ![w].to = ProxyIn(config)]
    /\ UNCHANGED <<config, copies, passing, report, written, spoilt>>

\* The event error of a child that could not be started: exit never comes.
LaunchFails(w) ==
    /\ wrap[w].agent \notin {None, "cursor"}
    /\ wrap[w].step = IF wrap[w].agent = "codex" THEN "patched" ELSE "listening"
    /\ wrap' = [wrap EXCEPT ![w].step = "failing"]
    /\ Spoils(IF wrap[w].agent = "codex" THEN {"launch"} ELSE {})
    /\ UNCHANGED <<config, copies, passing, report, written>>

\* Mutant: a file that was not there is left behind.
Restored_Left(found, file) == IF found.exists THEN found ELSE file
\* restore, as cleanup calls it: what was found is written back, or the file is removed.
Restored(found, file) == found
Cleanup(w) ==
    IF wrap[w].agent = "codex"
    THEN \/ config' = Restored(wrap[w].found, config) /\ UNCHANGED spoilt
         \/ Spoils({"restore"}) /\ UNCHANGED config
    ELSE UNCHANGED <<config, spoilt>>

\* An agent that is gone waits for no answer.
Abandoned(c) == [passing[c] EXCEPT !.state = IF @ = "open" THEN "abandoned" ELSE @]

\* The event exit of the child; for Cursor, the first SIGINT, and its editor goes on.
AgentEnds(w) ==
    /\ Step(w, "running", "closing") /\ Cleanup(w)
    /\ passing' = [c \in WrapCalls |-> IF passing[c].by = w /\ wrap[w].agent # "cursor"
                                       THEN Abandoned(c) ELSE passing[c]]
    /\ UNCHANGED <<copies, report, written>>

OpenAt(w) == {c \in WrapCalls : passing[c].to = w /\ passing[c].state = "open"}
CountedAt(w) == {c \in WrapCalls : passing[c].to = w /\ passing[c].state = "recorded"}
\* Mutant: it waits for no connection.
Closable_Now(w) == TRUE
\* server.close: not before connections end.
Closable(w) == OpenAt(w) = {}
\* The end of runWrapSession: what is recorded by now is reported.
ServerCloses(w) ==
    /\ wrap[w].step \in {"closing", "failing"} /\ Closable(w)
    /\ wrap' = [wrap EXCEPT ![w].step = IF @ = "closing" THEN "reported" ELSE "dead"]
    /\ report' = [report EXCEPT ![w] = IF wrap[w].step = "closing" THEN CountedAt(w) ELSE {}]
    /\ passing' = [c \in WrapCalls |-> IF passing[c].to = w /\ wrap[w].step = "failing" /\ passing[c].state = "abandoned"
                                       THEN [passing[c] EXCEPT !.state = "failed"] ELSE passing[c]]
    /\ UNCHANGED <<config, copies, written, spoilt>>

\* The process ends, and what passed through it breaks off.
Dies(w) ==
    /\ wrap' = [wrap EXCEPT ![w].step = "dead"]
    /\ passing' = [c \in WrapCalls |-> IF passing[c].to = w /\ passing[c].state \in {"open", "abandoned"}
                                       THEN [passing[c] EXCEPT !.state = "failed"] ELSE passing[c]]
    /\ UNCHANGED <<copies, report, written>>
\* onSignal: the file is put back, and there is no report.
OnSignal(w) ==
    /\ wrap[w].step = "running" /\ wrap[w].agent = "codex"
    /\ Cleanup(w) /\ Dies(w)
\* A signal nothing handles, or one that cannot be.
Killed(w) ==
    /\ Listens(w) \/ wrap[w].step \in {"closing", "failing"}
    /\ Dies(w)
    /\ Spoils(IF wrap[w].agent = "codex" /\ wrap[w].step \in {"patched", "running"} THEN {"death"} ELSE {})
    /\ UNCHANGED config

-----------------------------------------------------------------------------
(* The proxy. *)

\* createServer: the agent of w calls the proxy it was told of, while that one listens.
CallArrives(w, c) ==
    /\ passing[c].state = "none" /\ wrap[w].step = "running"
    /\ \E p \in Wraps :
         /\ p = wrap[w].to /\ Listens(p)
         /\ passing' = [passing EXCEPT ![c] = [state |-> "open", by |-> w, to |-> p]]
    /\ UNCHANGED <<wrap, config, copies, report, written, spoilt>>

\* The agent breaks its call off; forwardRequest goes on reading.
CallAbandoned(c) ==
    /\ passing[c].state = "open"
    /\ passing' = [passing EXCEPT ![c] = Abandoned(c)]
    /\ UNCHANGED <<wrap, config, copies, report, written, spoilt>>

\* forwardRequest at its end, onRecord: into the list its report is made of, or too late.
CallRecorded(c) ==
    /\ passing[c].state \in {"open", "abandoned"}
    /\ passing' = [passing EXCEPT ![c].state =
                     IF \E w \in Wraps : w = passing[c].to /\ wrap[w].step = "reported" THEN "late" ELSE "recorded"]
    /\ UNCHANGED <<wrap, config, copies, report, written, spoilt>>
\* The provider is not reached, answers with no body, or breaks off: nothing is recorded.
CallFails(c) ==
    /\ passing[c].state \in {"open", "abandoned"}
    /\ passing' = [passing EXCEPT ![c].state = "failed"]
    /\ UNCHANGED <<wrap, config, copies, report, written, spoilt>>

\* The user writes the file, whatever is in it.
Edit(text) ==
    /\ config' = File(text, config.tables)
    /\ written' = config'
    /\ Spoils(IF \E w \in Wraps : Holds(w) THEN {"edit"} ELSE {})
    /\ UNCHANGED <<wrap, copies, passing, report>>

WrapStep(w) ==
    \/ \E agent \in AgentNames : StartProxy(w, agent)
    \/ LaunchDirectly(w) \/ ReadConfig(w) \/ BackUp(w) \/ WritePatched(w) \/ Launch(w)
    \/ LaunchFails(w) \/ AgentEnds(w) \/ ServerCloses(w) \/ OnSignal(w) \/ Killed(w)
WrapNext ==
    \/ \E w \in Wraps : WrapStep(w)
    \/ \E c \in WrapCalls : CallAbandoned(c) \/ CallRecorded(c) \/ CallFails(c)
    \/ \E w \in Wraps, c \in WrapCalls : CallArrives(w, c)
    \/ \E text \in Writings : Edit(text)

WrapSpec == WrapInit /\ [][WrapNext]_WrapVars

-----------------------------------------------------------------------------
(* What a session must keep. *)

WrapSteps == {"none", "listening", "read", "saved", "patched", "running", "closing", "failing", "reported", "dead"}
Files == [exists : BOOLEAN, text : Writings \cup {None}, tables : Seq(Wraps)]

\* Wrapped processes, files and calls are as the code can have them; a configuration is
\* being changed for Codex alone.
Wrapping == [step : WrapSteps, agent : AgentNames \cup {None}, found : Files, to : Wraps \cup {None}]
Passing == [state : {"none", "open", "abandoned", "recorded", "late", "failed"},
            by : Wraps \cup {None}, to : Wraps \cup {None}]
WrapTypeOK ==
    /\ wrap \in [Wraps -> Wrapping]
    /\ \A w \in Wraps : wrap[w].step \in {"read", "saved", "patched"} => wrap[w].agent = "codex"
    /\ config \in Files /\ written \in Files /\ copies \subseteq Files
    /\ passing \in [WrapCalls -> Passing] /\ report \in [Wraps -> SUBSET WrapCalls]
    /\ spoilt \subseteq {"edit", "overlap", "launch", "restore", "death"}

\* What the user wrote is in the file or in a copy, however sessions overlap and end,
\* unless the user writes while one has the file.
WritingIsKept ==
    "edit" \notin spoilt /\ written.exists => written \in copies \cup {config}

\* When no session has the file, it is as its user left it: after an exit or a handled
\* signal, but not if two overlapped, the agent did not start or the process was killed.
FileGoesBack ==
    spoilt = {} /\ ~(\E w \in Wraps : Holds(w)) => config = written

\* A report counts the recorded calls of its proxy, each once; a call the agent waited for
\* is never too late.
ReportIsWhole ==
    /\ \A w \in Wraps : wrap[w].step = "reported" => report[w] = CountedAt(w) /\ OpenAt(w) = {}
    /\ \A w, v \in Wraps : w # v => report[w] \cap report[v] = {}

\* Without overlap, what a report counts are calls of its own agent.
ReportIsOwn ==
    spoilt = {} => \A w \in Wraps : \A c \in report[w] : passing[c].by = w

SessionsBehave == WritingIsKept /\ FileGoesBack /\ ReportIsWhole /\ ReportIsOwn
=============================================================================
