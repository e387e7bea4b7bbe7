------------------------------ MODULE PoiFacts ------------------------------
(***************************************************************************)
(* One row of poi_facts, the cache of reference texts about places: the    *)
(* requests that ask for it, the job queue, the workers that write it with *)
(* an LLM or from Wikipedia, and the browsers that poll for it.  Source:   *)
(* routes/trips.ts, routes/guest.ts and repos/poiFacts.ts of api-node,     *)
(* worker/__main__.py, worker/tasks.py, worker/callbacks.py,               *)
(* agents/poi_fact.py and web/src/hooks/usePoiFact.ts.                     *)
(*                                                                         *)
(* A text is one of a few kinds that the checks tell apart: "full", too    *)
(* "short", about the "city", "fluff" without facts, a Wikipedia snippet   *)
(* with its "link", and "old", a snippet of an earlier release.            *)
(***************************************************************************)
EXTENDS Naturals, Sequences, FiniteSets

CONSTANTS
    Clients,       \* browsers that open the card of the place
    Workers,
    Null,
    MaxOpens, MaxPolls, MaxAsks,
    MaxCrashes     \* bound: processes that die and pushes that fail

ASSUME PoiFactsAssumption ==
    /\ {MaxOpens, MaxPolls, MaxAsks, MaxCrashes} \subseteq Nat
    /\ Null \notin {"full", "short", "city", "fluff", "link", "old"}

VARIABLES
    row,      \* the row; stale: pending for more than three minutes
    queue,    \* jobs that wait, each with the mode of its user
    wk,       \* workers
    cl,       \* browsers with the request they have made
    qid,      \* the place has a Wikidata id
    opens, crashes,
    lost      \* a job was lost: its worker or the API died, or its push failed

vars == <<row, queue, wk, cl, qid, opens, crashes, lost>>

NoRow == [status |-> "none", text |-> Null, llm |-> FALSE, stale |-> FALSE]
Pending == [status |-> "pending", text |-> Null, llm |-> FALSE, stale |-> FALSE]
Ready(text, llm) == [status |-> "ready", text |-> text, llm |-> llm, stale |-> FALSE]

\* (mutant) a text without the link is stale, whoever wrote it
SnippetIsStaleForAll(r) == r.text # "link"

\* looksLikeSearchGarbage and wikipediaSnippetIsStale
Garbage(text) == text \in {Null, "short", "city"}

SnippetIsStale(r) == ~r.llm /\ r.text # "link"

Good(r) == r.status = "ready" /\ ~Garbage(r.text) /\ ~SnippetIsStale(r)

Idle == [pc |-> "idle"]
Shown(status) == [pc |-> "shown", status |-> status]

Init ==
    /\ row \in {NoRow, Ready("old", FALSE)}
    /\ queue = <<>>
    /\ wk = [w \in Workers |-> Idle]
    /\ cl = [c \in Clients |-> Idle]
    /\ qid \in BOOLEAN
    /\ opens = 0
    /\ crashes = 0
    /\ lost = FALSE

----------------------------------------------------------------------------
(* POST poi-facts *)

\* a fact that may be answered as it is: good, or pending for less than three minutes
Fresh(r) == Good(r) \/ (r.status = "pending" /\ ~r.stale)

\* The card is opened: the row is read and either answers or has to be written.
\* assertCanStartRun may refuse a user; a guest is not asked.
Open(c, llm) ==
    /\ cl[c].pc \in {"idle", "shown"}
    /\ opens < MaxOpens
    /\ opens' = opens + 1
    /\ \/ /\ Fresh(row)
          /\ cl' = [cl EXCEPT ![c] = IF row.status = "ready" THEN Shown("ready") ELSE [pc |-> "poll", tries |-> 0]]
       \/ ~Fresh(row) /\ cl' = [cl EXCEPT ![c] = [pc |-> "upsert", llm |-> llm]]
       \/ ~Fresh(row) /\ cl' = [cl EXCEPT ![c] = Shown("refused")]
    /\ UNCHANGED <<row, queue, wk, qid, crashes, lost>>

\* (mutant) the job is queued before the row is pending
PushFirst(c) ==
    /\ cl[c].pc \in {"upsert", "push"}
    /\ IF cl[c].pc = "upsert"
       THEN /\ queue' = Append(queue, cl[c].llm)
            /\ row' = row
            /\ cl' = [cl EXCEPT ![c].pc = "push"]
       ELSE /\ queue' = queue
            /\ row' = Pending
            /\ cl' = [cl EXCEPT ![c] = [pc |-> "poll", tries |-> 0]]
    /\ UNCHANGED <<wk, qid, opens, crashes, lost>>

\* upsertPoiFactPending
Upsert(c) ==
    /\ cl[c].pc = "upsert"
    /\ row' = Pending
    /\ cl' = [cl EXCEPT ![c].pc = "push"]
    /\ UNCHANGED <<queue, wk, qid, opens, crashes, lost>>

\* enqueuePoiFact and the reply, after which the browser polls
Push(c) ==
    /\ cl[c].pc = "push"
    /\ queue' = Append(queue, cl[c].llm)
    /\ cl' = [cl EXCEPT ![c] = [pc |-> "poll", tries |-> 0]]
    /\ UNCHANGED <<row, wk, qid, opens, crashes, lost>>

\* enqueuePoiFact throws, though the push may have reached Redis: the request ends with an
\* error, and nobody takes the row back from pending
PushFails(c) ==
    /\ crashes < MaxCrashes
    /\ crashes' = crashes + 1
    /\ cl[c].pc = "push"
    /\ cl' = [cl EXCEPT ![c] = Shown("refused")]
    /\ \/ queue' = Append(queue, cl[c].llm) /\ UNCHANGED lost
       \/ lost' = TRUE /\ UNCHANGED queue
    /\ UNCHANGED <<row, wk, qid, opens>>

----------------------------------------------------------------------------
(* GET poi-facts, polled *)

\* what GET answers: a ready text that is garbage is reported as not found
StatusOf(r) == IF r.status = "ready" /\ Garbage(r.text) THEN "failed" ELSE r.status

\* polls until there is an answer or MAX_POLL_ATTEMPTS is reached
Poll(c) ==
    /\ cl[c].pc = "poll"
    /\ cl' = [cl EXCEPT ![c] =
                IF StatusOf(row) \in {"ready", "failed", "none"} THEN Shown(StatusOf(row))
                ELSE IF cl[c].tries + 1 >= MaxPolls THEN Shown("timeout")
                ELSE [pc |-> "poll", tries |-> cl[c].tries + 1]]
    /\ UNCHANGED <<row, queue, wk, qid, opens, crashes, lost>>

\* the card is closed
Close(c) ==
    /\ cl[c].pc \in {"poll", "shown"}
    /\ cl' = [cl EXCEPT ![c] = Idle]
    /\ UNCHANGED <<row, queue, wk, qid, opens, crashes, lost>>

Age ==
    /\ row.status = "pending"
    /\ ~row.stale
    /\ row' = [row EXCEPT !.stale = TRUE]
    /\ UNCHANGED <<queue, wk, cl, qid, opens, crashes, lost>>

----------------------------------------------------------------------------
(* poi_fact_task *)

\* main, pop_job, _dispatch: the job leaves the queue before it is done
Pop(w) ==
    /\ wk[w].pc = "idle"
    /\ queue # <<>>
    /\ wk' = [wk EXCEPT ![w] = IF Head(queue) THEN [pc |-> "llm", asked |-> 0, best |-> Null]
                               ELSE [pc |-> "wiki"]]
    /\ queue' = Tail(queue)
    /\ UNCHANGED <<row, cl, qid, opens, crashes, lost>>

Fails(w) == wk' = [wk EXCEPT ![w] = [pc |-> "fail"]]

\* A city article is a failure unless the place has a Wikidata id.
Result(w, text, llm) ==
    IF text = "city" /\ ~qid THEN Fails(w)
    ELSE wk' = [wk EXCEPT ![w] = [pc |-> "save", text |-> text, llm |-> llm]]

\* (mutant) an empty answer is a text
BestOrEmpty(w, best) == Result(w, best, TRUE)

Best(w, best) == IF best = Null THEN Fails(w) ELSE Result(w, best, TRUE)

\* (mutant) the number of answers is not limited
AskOn(w) ==
    /\ wk[w].pc = "llm"
    /\ \/ Result(w, "full", TRUE)
       \/ \E answer \in {"short", "city", "fluff", Null} : wk' = [wk EXCEPT ![w].best = answer]
    /\ UNCHANGED <<row, queue, cl, qid, opens, crashes, lost>>

\* generate_poi_fact_llm: the first valid answer, else the longest of MaxAsks answers;
\* invoke may raise
Ask(w) ==
    /\ wk[w].pc = "llm"
    /\ \/ Result(w, "full", TRUE)
       \/ Fails(w)
       \/ \E answer \in {"short", "city", "fluff", Null} :
          \E best \in IF Null \in {answer, wk[w].best}
                      THEN {answer, wk[w].best} \ (IF answer = wk[w].best THEN {} ELSE {Null})
                      ELSE {answer, wk[w].best} :
             IF wk[w].asked + 1 < MaxAsks
             THEN wk' = [wk EXCEPT ![w].asked = @ + 1, ![w].best = best]
             ELSE Best(w, best)
    /\ UNCHANGED <<row, queue, cl, qid, opens, crashes, lost>>

\* fetch_poi_fact_wikipedia: by the Wikidata id any article that is long enough for
\* the worker, else one that is found by name and is not about the city
Fetch(w) ==
    /\ wk[w].pc = "wiki"
    /\ \/ \E text \in {"link", "short"} \union (IF qid THEN {"city"} ELSE {}) : Result(w, text, FALSE)
       \/ Fails(w)
    /\ UNCHANGED <<row, queue, cl, qid, opens, crashes, lost>>

\* mark_poi_fact_ready
Save(w) ==
    /\ wk[w].pc = "save"
    /\ row' = Ready(wk[w].text, wk[w].llm)
    /\ wk' = [wk EXCEPT ![w] = Idle]
    /\ UNCHANGED <<queue, cl, qid, opens, crashes, lost>>

\* mark_poi_fact_failed: the text stays
MarkFailed(r) == [r EXCEPT !.status = "failed", !.stale = FALSE]

\* the task marks the row and raises, and on_json_job_failure marks it once more
Fail(w) ==
    /\ wk[w].pc \in {"fail", "callback"}
    /\ row' = MarkFailed(row)
    /\ wk' = [wk EXCEPT ![w] = IF wk[w].pc = "fail" THEN [pc |-> "callback"] ELSE Idle]
    /\ UNCHANGED <<queue, cl, qid, opens, crashes, lost>>

Busy == {w \in Workers : wk[w].pc \notin {"idle", "callback"}}

Crash ==
    /\ crashes < MaxCrashes
    /\ crashes' = crashes + 1
    /\ \/ \E w \in Workers : /\ wk[w].pc # "idle"
                             /\ wk' = [wk EXCEPT ![w] = Idle]
                             /\ lost' = (lost \/ w \in Busy)
                             /\ UNCHANGED cl
       \/ /\ \E c \in Clients : cl[c].pc \in {"upsert", "push"}
          /\ cl' = [c \in Clients |-> IF cl[c].pc \in {"upsert", "push"} THEN Shown("refused") ELSE cl[c]]
          /\ lost' = (lost \/ \E c \in Clients : cl[c].pc = "push")
          /\ UNCHANGED wk
    /\ UNCHANGED <<row, queue, qid, opens>>

Handler(c) == Upsert(c) \/ Push(c)
Work(w) == Pop(w) \/ Ask(w) \/ Fetch(w) \/ Save(w) \/ Fail(w)

Next ==
    \/ \E c \in Clients : \/ \E llm \in BOOLEAN : Open(c, llm)
                          \/ Handler(c) \/ PushFails(c) \/ Poll(c) \/ Close(c)
    \/ \E w \in Workers : Work(w)
    \/ Age \/ Crash

\* Handlers and workers run on and the timer of the poll fires; nobody has to open or
\* close a card, and a process need not die.
Fairness == /\ \A c \in Clients : WF_vars(Handler(c)) /\ WF_vars(Poll(c))
            /\ \A w \in Workers : WF_vars(Work(w))

Spec == Init /\ [][Next]_vars /\ Fairness

----------------------------------------------------------------------------
(* Properties *)

\* The states of row, workers and browsers.
TypeOK ==
    /\ row.status \in {"none", "pending", "ready", "failed"}
    /\ row.status = "ready" => row.text # Null
    /\ row.stale => row.status = "pending"
    /\ queue \in Seq(BOOLEAN)
    /\ \A w \in Workers : wk[w].pc \in {"idle", "llm", "wiki", "save", "fail", "callback"}
    /\ \A c \in Clients : cl[c].pc \in {"idle", "upsert", "push", "poll", "shown"}

\* A row is pending only while somebody is about to write it: a job waits or runs, or
\* the request has yet to queue it.  Otherwise a process died, or the push of the job
\* failed.
PendingIsExplained ==
    row.status = "pending" =>
        \/ queue # <<>> \/ Busy # {}
        \/ \E c \in Clients : cl[c].pc = "push"
        \/ lost

\* A good text that no request and no job is about to replace stays: asking for it
\* again does not start a job.
Settled == /\ row.status = "ready"
           /\ row.text = "link" \/ (row.llm /\ row.text \in {"full", "fluff"})
           /\ queue = <<>>
           /\ \A w \in Workers : wk[w].pc = "idle"
           /\ \A c \in Clients : cl[c].pc \notin {"upsert", "push"}
SettledStays == [][Settled => Settled' /\ row' = row]_vars

\* A pending fact is written or marked as failed unless its job is lost.
FactsAreResolved == row.status = "pending" ~> row.status # "pending" \/ lost
=============================================================================
