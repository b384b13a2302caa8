-------------------------- MODULE FlowCoordinator --------------------------
(***************************************************************************)
(* One run of the flow host (velo_flow): execute of __main__.py around     *)
(* FlowHostCoordinator.run and its OutputSink (coordinator.py), against    *)
(* the paging of FlowResults.  Every call may fail, time out, be answered  *)
(* by an error or by a document that breaks the paging protocol; every     *)
(* write may fail.                                                         *)
(*                                                                         *)
(* Time is a clock in ticks.  Log records and rows have sizes; schemas,    *)
(* samples, digests and warnings are left out.  A server that breaks the   *)
(* protocol in a way no check of the host can see (a page that skips rows) *)
(* is not considered.                                                      *)
(***************************************************************************)
EXTENDS FlowResults

CONSTANTS
    Flows,           \* possible results: sequences of sources, each a sequence of rows
    Deadline,        \* deadline_seconds
    RequestTimeout,  \* request_timeout_seconds
    CloseTime,       \* how long closing the session may take: nothing in the code limits it
    MaxStatusCalls, MaxPages, MaxResultBytes, MaxLogBytes,  \* budget of the request
    RecordLimit,     \* LOG_RECORD_LIMIT and LOG_SLOT_RESERVE
    ListToolsMaxPages

ASSUME BudgetAssumption ==
    /\ {Deadline, RequestTimeout, MaxStatusCalls, MaxPages, MaxResultBytes, ListToolsMaxPages} \subseteq Nat \ {0}
    /\ CloseTime \in Nat /\ RecordLimit \in Nat \ {0} /\ MaxLogBytes \in Nat /\ MaxLogBytes >= RecordLimit
ASSUME FlowsAssumption == Flows \subseteq Seq(Seq(Row))

VARIABLES
    flow,  \* the flow at the server: its sources and its state
    now,   \* time.monotonic()
    core,  \* the coordinator, its output files and the run result
    exit   \* exit code, stdout and result.json of the process

flowVars == <<flow, now, core, exit>>

Tools == {"get_flow_status", "get_flow_results", "list_flow_files"}
StatusBackoff == <<1, 2, 4, 8, 10>>
AllRows == FlattenSeq(flow.sources)

Result(outcome, reason) == [outcome |-> outcome, reason |-> reason]
Complete(r) == r.outcome = "complete"

(* The output directory and its two streams have been created.             *)
FlowInit ==
    /\ flow \in [sources : Flows, state : {"RUNNING", "FINISHED"}]
    /\ now = 0
    /\ core = [pc |-> "connect", open |-> FALSE, found |-> {}, listed |-> 0, status |-> 0,
               counts |-> [t \in Tools |-> 0], logBytes |-> 0, records |-> 0, logComplete |-> TRUE,
               cursor |-> Nil, visited |-> {}, pages |-> 0, rows |-> <<>>, rowsSaved |-> 0,
               unread |-> Nil, files |-> Nil, result |-> Nil]
    /\ exit = [code |-> Nil, stdout |-> Nil, document |-> "none"]

(* The flow finishes at the server.                                        *)
FlowEnds ==
    /\ flow.state = "RUNNING"
    /\ \E state \in {"FINISHED", "ERROR"} : flow' = [flow EXCEPT !.state = state]
    /\ UNCHANGED <<now, core, exit>>

-----------------------------------------------------------------------------
(* RunStop: the run is over; the session is closed next.                   *)
Stopped(c, outcome, reason) == [c EXCEPT !.pc = "close", !.result = Result(outcome, reason)]

Remaining == Deadline - now
Limit == Min({Remaining, RequestTimeout})

(* Mutant: the tie of the two limits is taken for a request timeout.       *)
OverrunTied(c) ==
    IF Remaining < RequestTimeout THEN Stopped(c, "partial", "deadline_exceeded")
    ELSE Stopped(c, "failed", "request_timeout")

(* wait_for gives up: which of the two limits was the binding one.         *)
Overrun(c) ==
    IF Remaining <= RequestTimeout THEN Stopped(c, "partial", "deadline_exceeded")
    ELSE Stopped(c, "failed", "request_timeout")

(* _bounded without an answer: no time left, the limit, or an exception,   *)
(* which may be the SDK's own timeout: it was given the same limit, and    *)
(* either of the two timers may be the first to fire.                      *)
BoundedFails(c) ==
    IF Remaining <= 0 THEN core' = Stopped(c, "partial", "deadline_exceeded") /\ UNCHANGED now
    ELSE \/ now' = now + Limit /\ core' = Overrun(c)
         \/ now' \in now..(now + Limit) /\ core' = Stopped(c, "failed", "call_failed")

(* An answer before the limit.                                             *)
InTime == Remaining > 0 /\ now' \in now..(now + Limit - 1)

Bounded(c, Answer(_)) == BoundedFails(c) \/ (InTime /\ Answer(c))

(* append_call: an oversized record is replaced by a marker.               *)
Logged(c, size) ==
    IF size > RecordLimit
    THEN Stopped([c EXCEPT !.logBytes = @ + 1, !.records = @ + 1, !.logComplete = FALSE],
                 "failed", "raw_record_too_large")
    ELSE [c EXCEPT !.logBytes = @ + size, !.records = @ + 1]

LogFull == core.logBytes + RecordLimit > MaxLogBytes

Counted(tool) == [core EXCEPT !.counts[tool] = @ + 1]

(* _call and _checked without a sound payload: the call is not made, not   *)
(* answered in time, its record cannot be kept, or the answer is refused.  *)
CallFails(tool) ==
    IF LogFull THEN core' = Stopped(core, "partial", "log_budget") /\ UNCHANGED now
    ELSE \/ core' = Stopped(core, "failed", "invalid_arguments") /\ UNCHANGED now
         \/ BoundedFails(Counted(tool))
         \/ InTime /\ core' = Stopped(Counted(tool), "failed", "io_error")
         \/ InTime /\ core' = Logged(Counted(tool), RecordLimit + 1)
         \/ /\ InTime
            /\ \E size \in 1..RecordLimit, reason \in {"tool_error", "protocol_error", "schema_mismatch"} :
                  core' = Stopped(Logged(Counted(tool), size), "failed", reason)

(* Then is what the caller does with a sound payload.                      *)
ToolCall(tool, Then(_)) ==
    \/ CallFails(tool)
    \/ \E size \in 1..RecordLimit : ~LogFull /\ InTime /\ Then(Logged(Counted(tool), size))

RunAt(pc) == core.pc = pc
Frame == UNCHANGED <<flow, exit>>

-----------------------------------------------------------------------------
(* connect and initialize, under the same two limits.                      *)
Connect ==
    /\ RunAt("connect") /\ Frame
    /\ \/ now' = now + Limit /\ core' = Overrun(core)
       \/ now' \in now..(now + Limit) /\ core' = Stopped(core, "failed", "connect_failed")
       \/ now' \in now..(now + Limit - 1) /\ core' = [core EXCEPT !.pc = "contract", !.open = TRUE]

(* _load_contract: one page of list_tools.  contract.json is created when  *)
(* all three tools are known; an error of the creation itself is not a     *)
(* RunStop and ends the process.                                           *)
Listing(c) ==
    \E tools \in SUBSET Tools, next \in {"none", "new", "seen"} :
        LET seen == [c EXCEPT !.found = @ \cup tools, !.listed = @ + 1] IN
        core' \in
          IF tools \cap c.found # {} THEN {Stopped(c, "failed", "duplicate_tool")}
          ELSE IF seen.found = Tools
          THEN {Stopped(seen, "failed", "schema_invalid"), Stopped(seen, "failed", "io_error"),
                [seen EXCEPT !.pc = "crash"], [seen EXCEPT !.pc = "status"]}
          ELSE IF next = "none" THEN {Stopped(seen, "failed", "tools_missing")}
          ELSE IF next = "seen" THEN {Stopped(seen, "failed", "protocol_error")}
          ELSE IF seen.listed = ListToolsMaxPages THEN {Stopped(seen, "failed", "tools_missing")}
          ELSE {seen}

LoadContract == RunAt("contract") /\ Bounded(core, Listing) /\ Frame

(* _wait_finished.                                                         *)
StatusSeen(c) ==
    core' \in {Stopped(c, "failed", "protocol_error"),
               IF flow.state = "FINISHED" THEN [c EXCEPT !.pc = "pages"]
               ELSE IF flow.state = "ERROR" THEN Stopped(c, "failed", "flow_error")
               ELSE [c EXCEPT !.pc = "sleep", !.status = @ + 1]}

WaitFinished ==
    /\ RunAt("status") /\ Frame
    /\ IF core.status >= MaxStatusCalls
       THEN core' = Stopped(core, "partial", "status_budget") /\ UNCHANGED now
       ELSE ToolCall("get_flow_status", StatusSeen)

Sleep ==
    LET delay == Min({StatusBackoff[Min({core.status, Len(StatusBackoff)})], Remaining}) IN
    /\ RunAt("sleep") /\ Frame
    /\ IF delay <= 0 THEN core' = Stopped(core, "partial", "deadline_exceeded") /\ UNCHANGED now
       ELSE now' = now + delay /\ core' = [core EXCEPT !.pc = "status"]

-----------------------------------------------------------------------------
(* _collect_pages.                                                         *)

Offset(c) == IF c.cursor = Nil THEN 0 ELSE c.cursor

(* The page of the server, or one that contradicts itself or the request.  *)
Pages(c) ==
    LET p == Page(flow.sources, Offset(c)) IN
    IF p = Nil THEN {}
    ELSE {p, [p EXCEPT !.cursor = @ + 1], [p EXCEPT !.returned = @ + 1], [p EXCEPT !.page_size = @ + 1],
          [p EXCEPT !.truncated = TRUE, !.next = Nil], [p EXCEPT !.truncated = FALSE, !.next = p.cursor],
          [p EXCEPT !.truncated = TRUE, !.next = p.cursor + 1, !.data = <<>>, !.returned = 0],
          [p EXCEPT !.truncated = TRUE, !.next = p.cursor]}

Sound(c, p) ==
    /\ p.cursor = Offset(c)
    /\ p.returned = Len(p.data) /\ p.page_size = PageSize
    /\ IF p.truncated THEN p.next # Nil /\ p.data # <<>> ELSE p.next = Nil

(* Mutant: the page just saved is reported as the next unread one.         *)
AdvancedShort(c, p) ==
    LET saved == [c EXCEPT !.rowsSaved = @ + Len(p.data), !.pages = @ + 1] IN
    IF ~p.truncated THEN [saved EXCEPT !.pc = "files", !.unread = Nil]
    ELSE IF p.next \in c.visited \cup {p.cursor} THEN Stopped(saved, "failed", "protocol_error")
    ELSE IF saved.pages >= MaxPages THEN Stopped([saved EXCEPT !.unread = p.cursor], "partial", "page_budget")
    ELSE [saved EXCEPT !.cursor = p.next, !.visited = @ \cup {p.cursor}]

(* A page whose rows have been written.                                    *)
Advanced(c, p) ==
    LET saved == [c EXCEPT !.rowsSaved = @ + Len(p.data), !.pages = @ + 1] IN
    IF ~p.truncated THEN [saved EXCEPT !.pc = "files", !.unread = Nil]
    ELSE IF p.next \in c.visited \cup {p.cursor} THEN Stopped(saved, "failed", "protocol_error")
    ELSE IF saved.pages >= MaxPages THEN Stopped([saved EXCEPT !.unread = p.next], "partial", "page_budget")
    ELSE [saved EXCEPT !.cursor = p.next, !.visited = @ \cup {p.cursor}]

Written(c, rows) == [c EXCEPT !.rows = @ \o rows]

PageSeen(c) ==
    \E p \in Pages(c) :
        IF ~Sound(c, p) THEN core' = Stopped(c, "failed", "protocol_error")
        ELSE IF TotalSize(c.rows) + TotalSize(p.data) > MaxResultBytes
        THEN core' = Stopped([c EXCEPT !.unread = p.cursor], "partial", "result_budget")
        ELSE \/ core' = Advanced(Written(c, p.data), p)
             \/ \E n \in 0..Len(p.data) :
                   core' = Stopped(Written(c, SubSeq(p.data, 1, n)), "failed", "io_error")

CollectPages == RunAt("pages") /\ ToolCall("get_flow_results", PageSeen) /\ Frame

(* Mutant: a truncated list of files is taken for the whole list.          *)
FilesSeenAny(c) ==
    \E files \in {"complete", "truncated"} :
        core' = Stopped([c EXCEPT !.files = files], "complete", "finished")

(* _list_files and the end of run.                                         *)
FilesSeen(c) ==
    \/ core' = Stopped([c EXCEPT !.files = "complete"], "complete", "finished")
    \/ core' = Stopped([c EXCEPT !.files = "truncated"], "partial", "filelist_truncated")

ListFiles == RunAt("files") /\ ToolCall("list_flow_files", FilesSeen) /\ Frame

-----------------------------------------------------------------------------
(* execute, after the run: close the session, close the streams, write     *)
(* result.json, print the summary.                                         *)

(* __aexit__ of the session, if there is one: it is awaited with no limit. *)
Closing == now' \in now..(now + IF core.open THEN CloseTime ELSE 0)

(* A complete run whose session cannot be closed is partial.               *)
Close ==
    /\ RunAt("close")
    /\ Closing
    /\ core' \in {[core EXCEPT !.pc = "finalize"],
                  [core EXCEPT !.pc = "finalize",
                               !.result = IF Complete(@) THEN Result("partial", "close_failed") ELSE @]}
    /\ UNCHANGED <<flow, exit>>

Finalize ==
    /\ RunAt("finalize")
    /\ core' \in {[core EXCEPT !.pc = "report"],
                  [core EXCEPT !.pc = "report", !.result = Result("failed", "io_error")]}
    /\ UNCHANGED <<flow, now, exit>>

Exited(r, document, stdout) ==
    /\ core' = [core EXCEPT !.pc = "done", !.result = r]
    /\ exit' = [code |-> IF stdout = "complete" THEN 0 ELSE 2, stdout |-> stdout, document |-> document]

(* Mutant: result.json could not be written and the run stays complete.    *)
ReportAnyway ==
    /\ RunAt("report")
    /\ \E document \in {"none", "torn", core.result.outcome} :
          Exited(core.result, document, core.result.outcome)
    /\ UNCHANGED <<flow, now>>

(* The summary fits; it does not fit without samples either; or it cannot  *)
(* be written.  After each of them the line for stdout may be too long.    *)
(* The two summaries without rows_saved need identifiers or paths longer   *)
(* than spec.py admits and are left out.                                   *)
Report ==
    /\ RunAt("report")
    /\ \E end \in {<<core.result, core.result.outcome>>}
                 \cup {<<Result("failed", "summary_overflow"), d>> : d \in {"none", "torn", "failed"}}
                 \cup {<<Result("failed", "io_error"), d>> : d \in {"none", "torn"}} :
          \E stdout \in {end[1].outcome, "overflow"} : Exited(end[1], end[2], stdout)
    /\ UNCHANGED <<flow, now>>

(* An exception nobody turned into a RunStop: the session is closed, there *)
(* is no summary and no result.json.                                       *)
RunCrashes ==
    /\ RunAt("crash")
    /\ Closing
    /\ core' = [core EXCEPT !.pc = "done"]
    /\ exit' = [exit EXCEPT !.code = 1]
    /\ UNCHANGED flow

Done == RunAt("done") /\ UNCHANGED flowVars

FlowNext == \/ FlowEnds
        \/ Connect \/ LoadContract \/ WaitFinished \/ Sleep \/ CollectPages \/ ListFiles
        \/ Close \/ Finalize \/ Report \/ RunCrashes \/ Done

FlowSpec == FlowInit /\ [][FlowNext]_flowVars

-----------------------------------------------------------------------------
(* Paging against its reference: every page is a slice of the flow's rows  *)
(* starting at its cursor, it says truncated exactly when rows follow it,  *)
(* and following next_cursor always advances.                              *)
PageIsSlice ==
    \A offset \in 0..Len(AllRows) :
        LET p == Page(flow.sources, offset) IN
        p # Nil => /\ p.data = SubSeq(AllRows, offset + 1, offset + Len(p.data))
                   /\ p.truncated <=> offset + Len(p.data) < Len(AllRows)
                   /\ p.truncated => p.next > offset

(* "FINISHED + terminal page fully persisted + complete file list is the   *)
(* only path to complete=True": exit code 0 means that rows.jsonl holds    *)
(* every row once and in order, and calls.jsonl every answered call.       *)
CompleteIsWhole ==
    exit.code = 0 =>
        /\ flow.state = "FINISHED"
        /\ core.rows = AllRows /\ core.rowsSaved = Len(AllRows)
        /\ core.files = "complete"
        /\ core.logComplete
        /\ core.records = core.counts["get_flow_status"] + core.counts["get_flow_results"]
                            + core.counts["list_flow_files"]

(* However the run ends, rows.jsonl is a prefix of the flow's rows: no row *)
(* is missing in between or written twice, and rows_saved counts the rows  *)
(* that are there unless a write failed.                                   *)
SavedIsPrefix ==
    /\ IsPrefix(core.rows, AllRows)
    /\ core.rowsSaved <= Len(core.rows)
    /\ core.rowsSaved = Len(core.rows) \/ core.result.reason = "io_error" \/ core.pc = "done"

(* No limit of the request is exceeded: neither file, nor the calls, nor   *)
(* the time up to the stop ("no grace").  Closing the session is not under *)
(* the deadline.                                                           *)
BudgetsHold ==
    /\ core.logBytes <= MaxLogBytes
    /\ TotalSize(core.rows) <= MaxResultBytes
    /\ core.counts["get_flow_status"] <= MaxStatusCalls
    /\ core.counts["get_flow_results"] <= MaxPages
    /\ core.counts["list_flow_files"] <= 1
    /\ core.pc \notin {"finalize", "report", "done"} => now <= Deadline

(* A run that stops short of the deadline does not report it, and one that *)
(* stops at it reports it, unless it ends for a reason that needs no       *)
(* answer: a call that failed at that instant, or one not made because a   *)
(* budget was used up as well or the arguments are not valid.  No answer   *)
(* counts once the time is up.                                             *)
NoAnswer == {"call_failed", "connect_failed", "status_budget", "log_budget", "invalid_arguments"}

TimeoutsAreClassified ==
    core.pc = "close" =>
        /\ core.result.reason = "deadline_exceeded" => now >= Deadline
        /\ now >= Deadline => core.result.reason \in {"deadline_exceeded"} \cup NoAnswer

(* A run stopped by its result or page budget names the cursor of the      *)
(* first row that rows.jsonl does not have.                                *)
ResumePointIsRight ==
    /\ core.unread # Nil => core.unread = Len(core.rows)
    /\ core.result # Nil /\ core.result.reason \in {"result_budget", "page_budget"} => core.unread # Nil

(* Exit code, stdout and result.json tell the same story: 0 only with a    *)
(* complete document on disk, and a document never claims more than stdout *)
(* unless the summary was too long for stdout.                             *)
ReportsAgree ==
    exit.stdout # Nil =>
        /\ exit.code = 0 <=> exit.stdout = "complete"
        /\ exit.stdout = "complete" => exit.document = "complete"
        /\ exit.stdout # "overflow" => exit.document \in {"none", "torn", exit.stdout}

(* What is saved is a prefix of the rows, and the resume point is its end: *)
(* a later run neither repeats nor skips a row.                            *)
SavedIsExact == SavedIsPrefix /\ ResumePointIsRight

(* The stop of a run is explained: the budgets were kept, the deadline is  *)
(* reported when and only when it was reached and nothing else ended the   *)
(* run, and exit code, record and files say the same.                      *)
StopIsExplained == BudgetsHold /\ TimeoutsAreClassified /\ ReportsAgree
=============================================================================
