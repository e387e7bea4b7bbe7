---------------------------- MODULE PlacesProofs ----------------------------
(***************************************************************************)
(* What is proved of the places of a city: of their descriptions           *)
(* (PoiFacts), of the search that finds them (PlaceSearch) and of the pack *)
(* that holds them (CityPacks).                                            *)
(*                                                                         *)
(* PoiFacts, for any number of browsers, workers, polls and crashes: the   *)
(* types, that a row is pending only while somebody is about to write it   *)
(* or a job was lost, and that a good text is not replaced.  The invariant *)
(* is the types of its variables; the explanation of a pending row is kept *)
(* by every step of it.  The search and the packs follow below.            *)
(***************************************************************************)
EXTENDS PoiFacts, CityPacks, SequenceTheorems, FiniteSetTheorems, TLAPS

Texts == {"full", "short", "city", "fluff", "link", "old"}
RowType == [status : {"none", "pending", "ready", "failed"}, text : Texts \union {Null},
            llm : BOOLEAN, stale : BOOLEAN]
WorkType ==
    [pc : {"idle", "fail", "callback", "wiki"}]
      \union [pc : {"llm"}, asked : Nat, best : Texts \union {Null}]
      \union [pc : {"save"}, text : Texts, llm : BOOLEAN]
CardType ==
    [pc : {"idle"}] \union [pc : {"shown"}, status : {"none", "ready", "failed", "timeout", "refused"}]
      \union [pc : {"upsert", "push"}, llm : BOOLEAN] \union [pc : {"poll"}, tries : Nat]

Typed ==
    /\ row \in RowType
    /\ row.status = "ready" => row.text # Null
    /\ row.stale => row.status = "pending"
    /\ queue \in Seq(BOOLEAN)
    /\ wk \in [Workers -> WorkType]
    /\ cl \in [Clients -> CardType]
    /\ lost \in BOOLEAN

LEMMA TypedIsOK == Typed => TypeOK
<1> SUFFICES ASSUME Typed PROVE TypeOK
  OBVIOUS
<1>1. \A w \in Workers : wk[w] \in WorkType
  BY DEF Typed
<1>2. \A x \in WorkType : x.pc \in {"idle", "llm", "wiki", "save", "fail", "callback"}
  BY DEF WorkType
<1>3. \A c \in Clients : cl[c] \in CardType
  BY DEF Typed
<1>4. \A x \in CardType : x.pc \in {"idle", "upsert", "push", "poll", "shown"}
  BY DEF CardType
<1>5. row.status \in {"none", "pending", "ready", "failed"}
  BY DEF Typed, RowType
<1> QED
  BY <1>1, <1>2, <1>3, <1>4, <1>5 DEF Typed, TypeOK

\* The values a row takes.
LEMMA RowTypes ==
    /\ NoRow \in RowType /\ NoRow.status = "none" /\ ~NoRow.stale
    /\ Pending \in RowType /\ Pending.status = "pending" /\ ~Pending.stale
  BY DEF NoRow, Pending, RowType

LEMMA ReadyType ==
    ASSUME NEW t \in Texts, NEW b \in BOOLEAN
    PROVE  /\ Ready(t, b) \in RowType
           /\ Ready(t, b).status = "ready" /\ Ready(t, b).text = t /\ ~Ready(t, b).stale
  BY DEF Ready, RowType

LEMMA FailedType ==
    ASSUME NEW r \in RowType
    PROVE  /\ MarkFailed(r) \in RowType
           /\ MarkFailed(r).status = "failed" /\ ~MarkFailed(r).stale
  BY DEF MarkFailed, RowType

LEMMA NullIsNoText == Null \notin Texts
  BY PoiFactsAssumption DEF Texts

LEMMA TypeInit == Init => Typed
<1> SUFFICES ASSUME Init PROVE Typed
  OBVIOUS
<1>1. /\ row \in RowType
      /\ row.status = "ready" => row.text # Null
      /\ row.stale => row.status = "pending"
  <2>1. "old" \in Texts
    BY DEF Texts
  <2>2. row = NoRow \/ row = Ready("old", FALSE)
    BY DEF Init
  <2>3. CASE row = NoRow
    BY <2>3, RowTypes
  <2>4. CASE row = Ready("old", FALSE)
    BY <2>1, <2>4, ReadyType, NullIsNoText
  <2> QED
    BY <2>2, <2>3, <2>4
<1>2. queue \in Seq(BOOLEAN)
  <2>1. <<>> \in Seq(BOOLEAN)
    OBVIOUS
  <2> QED
    BY <2>1 DEF Init
<1>5. lost \in BOOLEAN
  BY DEF Init
<1>3. wk \in [Workers -> WorkType]
  BY DEF Init, Idle, WorkType
<1>4. cl \in [Clients -> CardType]
  BY DEF Init, Idle, CardType
<1> QED
  BY <1>1, <1>2, <1>3, <1>4, <1>5 DEF Typed

-----------------------------------------------------------------------------
(* The steps of a card and of a worker *)

\* A request that begins, goes on or ends moves one card; another one's stays.
CardGoes(c, x) == x \in CardType /\ cl' = [cl EXCEPT ![c] = x]

LEMMA CardsTyped ==
    ASSUME Typed, NEW c \in Clients, NEW x, CardGoes(c, x)
    PROVE  cl' \in [Clients -> CardType]
  BY DEF Typed, CardGoes

LEMMA Cards ==
    /\ \A s \in {"none", "ready", "failed", "timeout", "refused"} :
         Shown(s) \in CardType /\ Shown(s).pc = "shown"
    /\ \A n \in Nat : [pc |-> "poll", tries |-> n] \in CardType
    /\ \A b \in BOOLEAN : /\ [pc |-> "upsert", llm |-> b] \in CardType
                          /\ [pc |-> "push", llm |-> b] \in CardType
    /\ Idle \in CardType
  BY DEF CardType, Shown, Idle

LEMMA UpsertPushes ==
    ASSUME NEW x \in CardType, x.pc = "upsert"
    PROVE  /\ [x EXCEPT !.pc = "push"] \in CardType
           /\ [x EXCEPT !.pc = "push"].pc = "push"
  BY DEF CardType

LEMMA PushHasMode ==
    ASSUME NEW x \in CardType, x.pc \in {"upsert", "push"}
    PROVE  x.llm \in BOOLEAN
  BY DEF CardType

LEMMA PollHasTries ==
    ASSUME NEW x \in CardType, x.pc = "poll"
    PROVE  x.tries \in Nat
  BY DEF CardType

WorkGoes(w, x) == x \in WorkType /\ wk' = [wk EXCEPT ![w] = x]

LEMMA WorkTyped ==
    ASSUME Typed, NEW w \in Workers, NEW x, WorkGoes(w, x)
    PROVE  wk' \in [Workers -> WorkType] /\ wk'[w] = x
  BY DEF Typed, WorkGoes

LEMMA Works ==
    /\ \A p \in {"idle", "fail", "callback", "wiki"} : [pc |-> p] \in WorkType
    /\ \A n \in Nat : \A b \in Texts \union {Null} :
         [pc |-> "llm", asked |-> n, best |-> b] \in WorkType
    /\ \A t \in Texts : \A b \in BOOLEAN : [pc |-> "save", text |-> t, llm |-> b] \in WorkType
  BY DEF WorkType

LEMMA AskedMore ==
    ASSUME NEW x \in WorkType, x.pc = "llm", NEW b \in Texts \union {Null}
    PROVE  /\ x.asked \in Nat
           /\ x.best \in Texts \union {Null}
           /\ [x EXCEPT !.asked = @ + 1, !.best = b] \in WorkType
           /\ [x EXCEPT !.asked = @ + 1, !.best = b].pc = "llm"
<1>1. x \in [pc : {"llm"}, asked : Nat, best : Texts \union {Null}]
  BY DEF WorkType
<1>2. x.asked \in Nat /\ x.asked + 1 \in Nat /\ x.best \in Texts \union {Null}
  BY <1>1
<1>3. [x EXCEPT !.asked = @ + 1, !.best = b]
        = [pc |-> "llm", asked |-> x.asked + 1, best |-> b]
  <2>1. PICK n : n = x.asked + 1
    OBVIOUS
  <2>2. PICK y : y = [x EXCEPT !.asked = n]
    OBVIOUS
  <2>3. y = [pc |-> "llm", asked |-> n, best |-> x.best]
    BY <1>1, <2>2
  <2>4. [y EXCEPT !.best = b] = [pc |-> "llm", asked |-> n, best |-> b]
    BY <2>3
  <2>5. [x EXCEPT !.asked = @ + 1, !.best = b] = [y EXCEPT !.best = b]
    BY <2>1, <2>2
  <2> QED
    BY <2>1, <2>4, <2>5
<1> QED
  BY <1>1, <1>2, <1>3, Works

LEMMA SaveHasText ==
    ASSUME NEW x \in WorkType, x.pc = "save"
    PROVE  x.text \in Texts /\ x.llm \in BOOLEAN
  BY DEF WorkType

LEMMA FailGoes ==
    ASSUME NEW w \in Workers, Fails(w)
    PROVE  \E x : WorkGoes(w, x) /\ x.pc = "fail"
<1>1. PICK x : x = [pc |-> "fail"]
  OBVIOUS
<1>2. x \in WorkType /\ x.pc = "fail"
  BY <1>1, Works
<1> QED
  BY <1>1, <1>2 DEF Fails, WorkGoes

LEMMA Results ==
    ASSUME NEW w \in Workers, NEW t \in Texts, NEW b \in BOOLEAN, Result(w, t, b)
    PROVE  \E x : WorkGoes(w, x) /\ x.pc \in {"fail", "save"}
<1>1. CASE Fails(w)
  BY <1>1, FailGoes
<1>2. CASE wk' = [wk EXCEPT ![w] = [pc |-> "save", text |-> t, llm |-> b]]
  <2>1. PICK x : x = [pc |-> "save", text |-> t, llm |-> b]
    OBVIOUS
  <2>2. x \in WorkType /\ x.pc = "save"
    BY <2>1, Works
  <2> QED
    BY <1>2, <2>1, <2>2 DEF WorkGoes
<1> QED
  BY <1>1, <1>2 DEF Result

\* A worker that asks goes on to ask, to save or to fail.
LEMMA AskGoes ==
    ASSUME Typed, NEW w \in Workers, Ask(w)
    PROVE  \E x : WorkGoes(w, x) /\ x.pc \in {"llm", "fail", "save"}
<1>1. wk[w] \in WorkType /\ wk[w].pc = "llm"
  BY DEF Typed, Ask
<1>2. wk[w].best \in Texts \union {Null} /\ Null \in Texts \union {Null}
  BY <1>1, AskedMore
<1>3. CASE Result(w, "full", TRUE)
  <2>1. "full" \in Texts
    BY DEF Texts
  <2> QED
    BY <1>3, <2>1, Results
<1>4. CASE Fails(w)
  BY <1>4, FailGoes
<1>5. CASE \E answer \in {"short", "city", "fluff", Null} :
           \E best \in IF Null \in {answer, wk[w].best}
                       THEN {answer, wk[w].best} \ (IF answer = wk[w].best THEN {} ELSE {Null})
                       ELSE {answer, wk[w].best} :
              IF wk[w].asked + 1 < MaxAsks
              THEN wk' = [wk EXCEPT ![w].asked = @ + 1, ![w].best = best]
              ELSE Best(w, best)
  <2>1. PICK best \in {"short", "city", "fluff", Null} \union {wk[w].best} :
          IF wk[w].asked + 1 < MaxAsks
          THEN wk' = [wk EXCEPT ![w].asked = @ + 1, ![w].best = best]
          ELSE Best(w, best)
    BY <1>5
  <2>2. best \in Texts \union {Null}
    BY <1>2, <2>1 DEF Texts
  <2>3. CASE wk' = [wk EXCEPT ![w].asked = @ + 1, ![w].best = best]
    <3>1. wk' = [wk EXCEPT ![w] = [wk[w] EXCEPT !.asked = @ + 1, !.best = best]]
      BY <2>3
    <3> QED
      BY <1>1, <2>2, <3>1, AskedMore DEF WorkGoes
  <2>4. CASE Best(w, best)
    <3>1. CASE best = Null
      BY <2>4, <3>1, FailGoes DEF Best
    <3>2. CASE best # Null
      BY <2>2, <2>4, <3>2, Results DEF Best
    <3> QED
      BY <3>1, <3>2
  <2> QED
    BY <2>1, <2>3, <2>4
<1> QED
  BY <1>3, <1>4, <1>5 DEF Ask

LEMMA ShownGoes ==
    ASSUME NEW c \in Clients, NEW s \in {"none", "ready", "failed", "timeout", "refused"},
           cl' = [cl EXCEPT ![c] = Shown(s)]
    PROVE  \E x : CardGoes(c, x) /\ x.pc = "shown"
  BY Cards DEF CardGoes

LEMMA PollGoes ==
    ASSUME NEW c \in Clients, NEW n \in Nat,
           cl' = [cl EXCEPT ![c] = [pc |-> "poll", tries |-> n]]
    PROVE  \E x : CardGoes(c, x) /\ x.pc = "poll"
<1>1. PICK x : x = [pc |-> "poll", tries |-> n]
  OBVIOUS
<1>2. x \in CardType /\ x.pc = "poll"
  BY <1>1, Cards
<1> QED
  BY <1>1, <1>2 DEF CardGoes

\* The moves of a browser, and what they do to the queue and the row.
LEMMA BrowserMoves ==
    ASSUME Typed, NEW c \in Clients,
           (\E llm \in BOOLEAN : Open(c, llm)) \/ Poll(c) \/ Close(c)
    PROVE  /\ \E x : CardGoes(c, x) /\ x.pc \in {"idle", "shown", "poll", "upsert"}
           /\ cl[c].pc \notin {"upsert", "push"}
           /\ UNCHANGED <<row, queue, wk, lost>>
<1>1. CASE \E llm \in BOOLEAN : Open(c, llm)
  <2>1. PICK llm \in BOOLEAN : Open(c, llm)
    BY <1>1
  <2>2. cl[c].pc \notin {"upsert", "push"} /\ UNCHANGED <<row, queue, wk, lost>>
    BY <2>1 DEF Open
  <2>3. CASE cl' = [cl EXCEPT ![c] = Shown("ready")] \/ cl' = [cl EXCEPT ![c] = Shown("refused")]
    BY <2>2, <2>3, ShownGoes
  <2>4. CASE cl' = [cl EXCEPT ![c] = [pc |-> "poll", tries |-> 0]]
    BY <2>2, <2>4, PollGoes
  <2>5. CASE cl' = [cl EXCEPT ![c] = [pc |-> "upsert", llm |-> llm]]
    <3>1. PICK x : x = [pc |-> "upsert", llm |-> llm]
      OBVIOUS
    <3>2. x \in CardType /\ x.pc = "upsert"
      BY <3>1, Cards
    <3> QED
      BY <2>2, <2>5, <3>1, <3>2 DEF CardGoes
  <2>6. CASE row.status = "ready"
    BY <2>1, <2>3, <2>5, <2>6 DEF Open
  <2>7. CASE row.status # "ready"
    BY <2>1, <2>3, <2>4, <2>5, <2>7 DEF Open
  <2> QED
    BY <2>6, <2>7
<1>2. CASE Poll(c)
  <2>1. cl[c] \in CardType /\ cl[c].pc = "poll" /\ UNCHANGED <<row, queue, wk, lost>>
    BY <1>2 DEF Typed, Poll
  <2>2. cl[c].tries + 1 \in Nat
    BY <2>1, PollHasTries
  <2>3. CASE StatusOf(row) \in {"ready", "failed", "none"}
    BY <1>2, <2>1, <2>3, ShownGoes DEF Poll
  <2>4. CASE StatusOf(row) \notin {"ready", "failed", "none"} /\ cl[c].tries + 1 >= MaxPolls
    BY <1>2, <2>1, <2>4, ShownGoes DEF Poll
  <2>5. CASE StatusOf(row) \notin {"ready", "failed", "none"} /\ ~(cl[c].tries + 1 >= MaxPolls)
    <3>1. cl' = [cl EXCEPT ![c] = [pc |-> "poll", tries |-> cl[c].tries + 1]]
      BY <1>2, <2>5 DEF Poll
    <3> QED
      BY <2>1, <2>2, <3>1, PollGoes
  <2> QED
    BY <2>3, <2>4, <2>5
<1>3. CASE Close(c)
  <2>1. Idle.pc = "idle"
    BY DEF Idle
  <2> QED
    BY <1>3, <2>1, Cards DEF Close, CardGoes
<1> QED
  BY <1>1, <1>2, <1>3

\* The moves of a request that writes the row and then queues a job.
LEMMA RequestMoves ==
    ASSUME Typed, NEW c \in Clients, Handler(c)
    PROVE  /\ \E x : CardGoes(c, x)
           /\ \/ /\ row' = Pending /\ cl'[c].pc = "push" /\ queue' = queue
              \/ /\ row' = row /\ queue' # <<>> /\ queue' \in Seq(BOOLEAN)
           /\ cl[c].pc \in {"upsert", "push"}
           /\ UNCHANGED <<wk, lost>>
<1>0. cl[c] \in CardType /\ queue \in Seq(BOOLEAN)
  BY DEF Typed
<1>1. CASE Upsert(c)
  <2>1. cl[c].pc = "upsert" /\ cl' = [cl EXCEPT ![c] = [cl[c] EXCEPT !.pc = "push"]]
    BY <1>1 DEF Upsert
  <2>2. PICK x : x = [cl[c] EXCEPT !.pc = "push"]
    OBVIOUS
  <2>3. x \in CardType /\ x.pc = "push"
    BY <1>0, <2>1, <2>2, UpsertPushes
  <2>4. CardGoes(c, x) /\ cl'[c] = x
    BY <2>1, <2>2, <2>3 DEF Typed, CardGoes
  <2> QED
    BY <1>1, <2>1, <2>3, <2>4 DEF Upsert
<1>2. CASE Push(c)
  <2>1. cl[c].llm \in BOOLEAN
    BY <1>0, <1>2, PushHasMode DEF Push
  <2>2. Append(queue, cl[c].llm) \in Seq(BOOLEAN) /\ Append(queue, cl[c].llm) # <<>>
    BY <1>0, <2>1, AppendProperties
  <2>3. \E x : CardGoes(c, x)
    BY <1>2, PollGoes DEF Push
  <2> QED
    BY <1>2, <2>2, <2>3 DEF Push
<1> QED
  BY <1>1, <1>2 DEF Handler

\* A row that a worker has written.
Written(r) == /\ r \in RowType
              /\ r.status \in {"ready", "failed"}
              /\ r.status = "ready" => r.text # Null
              /\ ~r.stale

\* A worker goes on working, or it writes the row.
LEMMA WorkerMoves ==
    ASSUME Typed, NEW w \in Workers, Work(w)
    PROVE  /\ \E x : /\ WorkGoes(w, x)
                     /\ \/ row' = row /\ x.pc \in {"llm", "wiki", "save", "fail"}
                        \/ Written(row')
           /\ queue' \in Seq(BOOLEAN)
           /\ wk[w].pc = "idle" => queue # <<>>
           /\ UNCHANGED <<cl, lost>>
<1>0. row \in RowType /\ queue \in Seq(BOOLEAN) /\ wk[w] \in WorkType
  BY DEF Typed
<1>1. CASE Pop(w)
  <2>1. /\ UNCHANGED <<row, cl, lost>> /\ queue # <<>>
        /\ queue' = Tail(queue)
    BY <1>1 DEF Pop
  <2>2. queue' \in Seq(BOOLEAN)
    BY <1>0, <2>1
  <2>3. PICK x : x = IF Head(queue) THEN [pc |-> "llm", asked |-> 0, best |-> Null] ELSE [pc |-> "wiki"]
    OBVIOUS
  <2>4. x \in WorkType /\ x.pc \in {"llm", "wiki"}
    <3>1. CASE Head(queue)
      BY <2>3, <3>1, Works
    <3>2. CASE ~Head(queue)
      BY <2>3, <3>2, Works
    <3> QED
      BY <3>1, <3>2
  <2>5. wk' = [wk EXCEPT ![w] = x]
    BY <1>1, <2>3 DEF Pop
  <2> QED
    BY <2>1, <2>2, <2>4, <2>5 DEF WorkGoes
<1>2. CASE Ask(w)
  BY <1>0, <1>2, AskGoes DEF Ask
<1>3. CASE Fetch(w)
  <2>1. UNCHANGED <<row, queue, cl, lost>> /\ wk[w].pc = "wiki"
    BY <1>3 DEF Fetch
  <2>2. CASE Fails(w)
    BY <1>0, <2>1, <2>2, FailGoes
  <2>3. CASE \E text \in {"link", "short"} \union (IF qid THEN {"city"} ELSE {}) : Result(w, text, FALSE)
    <3>1. PICK text \in {"link", "short", "city"} : Result(w, text, FALSE)
      BY <2>3
    <3>2. text \in Texts
      BY DEF Texts
    <3>3. \E x : WorkGoes(w, x) /\ x.pc \in {"fail", "save"}
      BY <3>1, <3>2, Results
    <3> QED
      BY <1>0, <2>1, <3>3
  <2> QED
    BY <1>3, <2>2, <2>3 DEF Fetch
<1>4. CASE Save(w)
  <2>1. wk[w].text \in Texts /\ wk[w].llm \in BOOLEAN /\ wk[w].pc = "save"
    BY <1>0, <1>4, SaveHasText DEF Save
  <2>2. Written(row')
    BY <1>4, <2>1, ReadyType, NullIsNoText DEF Save, Written
  <2>3. WorkGoes(w, Idle)
    BY <1>4, Works DEF Save, WorkGoes, Idle
  <2> QED
    BY <1>0, <1>4, <2>1, <2>2, <2>3 DEF Save
<1>5. CASE Fail(w)
  <2>1. Written(row')
    BY <1>0, <1>5, FailedType DEF Fail, Written
  <2>2. \E x : WorkGoes(w, x)
    BY <1>5, Works DEF Fail, WorkGoes, Idle
  <2> QED
    BY <1>0, <1>5, <2>1, <2>2 DEF Fail
<1> QED
  BY <1>1, <1>2, <1>3, <1>4, <1>5 DEF Work

LEMMA WrittenIsTyped ==
    ASSUME Written(row')
    PROVE  /\ row' \in RowType
           /\ row'.status = "ready" => row'.text # Null
           /\ row'.stale => row'.status = "pending"
  BY DEF Written

LEMMA AgedType ==
    ASSUME NEW r \in RowType
    PROVE  /\ [r EXCEPT !.stale = TRUE] \in RowType
           /\ [r EXCEPT !.stale = TRUE].status = r.status
  BY DEF RowType

\* What a crash leaves: cards and workers that have stopped.
LEMMA CrashMoves ==
    ASSUME Typed, Crash
    PROVE  /\ UNCHANGED <<row, queue>>
           /\ lost' \in BOOLEAN /\ (lost => lost')
           /\ \/ /\ cl' = cl
                 /\ \E w \in Workers : /\ wk' = [wk EXCEPT ![w] = Idle]
                                       /\ wk[w].pc # "idle"
                                       /\ w \in Busy => lost'
              \/ /\ wk' = wk
                 /\ cl' \in [Clients -> CardType]
                 /\ \E c \in Clients : cl[c].pc \in {"upsert", "push"}
                 /\ (\E c \in Clients : cl[c].pc = "push") => lost'
<1>1. UNCHANGED <<row, queue>> /\ lost \in BOOLEAN
  BY DEF Crash, Typed
<1>2. CASE /\ \E w \in Workers : /\ wk[w].pc # "idle"
                                 /\ wk' = [wk EXCEPT ![w] = Idle]
                                 /\ lost' = (lost \/ w \in Busy)
                                 /\ UNCHANGED cl
  BY <1>1, <1>2
<1>3. CASE /\ \E c \in Clients : cl[c].pc \in {"upsert", "push"}
           /\ cl' = [c \in Clients |-> IF cl[c].pc \in {"upsert", "push"} THEN Shown("refused") ELSE cl[c]]
           /\ lost' = (lost \/ \E c \in Clients : cl[c].pc = "push")
           /\ UNCHANGED wk
  <2>1. \A c \in Clients : cl[c] \in CardType
    BY DEF Typed
  <2>2. cl' \in [Clients -> CardType]
    BY <1>3, <2>1, Cards
  <2> QED
    BY <1>1, <1>3, <2>2
<1> QED
  BY <1>2, <1>3 DEF Crash

\* A push that fails ends the request; the job is in the queue, or it is lost.
LEMMA PushFailsMoves ==
    ASSUME Typed, NEW c \in Clients, PushFails(c)
    PROVE  /\ \E x : CardGoes(c, x)
           /\ queue' \in Seq(BOOLEAN) /\ lost' \in BOOLEAN
           /\ queue' # <<>> \/ lost'
           /\ cl[c].pc = "push"
           /\ UNCHANGED <<row, wk>>
<1>1. cl[c] \in CardType /\ queue \in Seq(BOOLEAN) /\ lost \in BOOLEAN
  BY DEF Typed
<1>2. cl[c].pc = "push" /\ UNCHANGED <<row, wk>> /\ \E x : CardGoes(c, x)
  BY ShownGoes DEF PushFails
<1>3. Append(queue, cl[c].llm) \in Seq(BOOLEAN) /\ Append(queue, cl[c].llm) # <<>>
  BY <1>1, <1>2, PushHasMode, AppendProperties
<1> QED
  BY <1>1, <1>2, <1>3 DEF PushFails

-----------------------------------------------------------------------------
(* The types *)

LEMMA TypeStep == Typed /\ [Next]_vars => Typed'
<1> SUFFICES ASSUME Typed, [Next]_vars PROVE Typed'
  OBVIOUS
<1>1. ASSUME NEW c \in Clients, (\E llm \in BOOLEAN : Open(c, llm)) \/ Poll(c) \/ Close(c)
      PROVE  Typed'
  <2>1. UNCHANGED <<row, queue, wk, lost>> /\ \E x : CardGoes(c, x)
    BY <1>1, BrowserMoves
  <2>2. cl' \in [Clients -> CardType]
    BY <2>1, CardsTyped
  <2> QED
    BY <2>1, <2>2 DEF Typed
<1>2. ASSUME NEW c \in Clients, Handler(c) PROVE Typed'
  <2>1. /\ UNCHANGED <<wk, lost>> /\ \E x : CardGoes(c, x)
        /\ (row' = Pending /\ queue' = queue) \/ (row' = row /\ queue' \in Seq(BOOLEAN))
    BY <1>2, RequestMoves
  <2>2. cl' \in [Clients -> CardType]
    BY <2>1, CardsTyped
  <2>3. /\ row' \in RowType
        /\ row'.status = "ready" => row'.text # Null
        /\ row'.stale => row'.status = "pending"
    BY <2>1, RowTypes DEF Typed
  <2> QED
    BY <2>1, <2>2, <2>3 DEF Typed
<1>3. ASSUME NEW w \in Workers, Work(w) PROVE Typed'
  <2>1. PICK x : WorkGoes(w, x) /\ (row' = row \/ Written(row'))
    BY <1>3, WorkerMoves
  <2>2. wk' \in [Workers -> WorkType]
    BY <2>1, WorkTyped
  <2>3. /\ row' \in RowType
        /\ row'.status = "ready" => row'.text # Null
        /\ row'.stale => row'.status = "pending"
    BY <2>1, WrittenIsTyped DEF Typed
  <2>4. UNCHANGED <<cl, lost>> /\ queue' \in Seq(BOOLEAN)
    BY <1>3, WorkerMoves
  <2> QED
    BY <2>2, <2>3, <2>4 DEF Typed
<1>4. CASE Age
  <2>1. row \in RowType /\ row.status = "pending" /\ row' = [row EXCEPT !.stale = TRUE]
    BY <1>4 DEF Age, Typed
  <2>2. row' \in RowType /\ row'.status = "pending"
    BY <2>1, AgedType
  <2>3. UNCHANGED <<queue, wk, cl, lost>>
    BY <1>4 DEF Age
  <2> QED
    BY <2>2, <2>3 DEF Typed
<1>5. CASE Crash
  <2>1. UNCHANGED <<row, queue>> /\ lost' \in BOOLEAN
    BY <1>5, CrashMoves
  <2>2. wk' \in [Workers -> WorkType] /\ cl' \in [Clients -> CardType]
    <3>1. CASE cl' = cl /\ \E w \in Workers : wk' = [wk EXCEPT ![w] = Idle]
      BY <3>1, Works DEF Idle, Typed
    <3>2. CASE wk' = wk /\ cl' \in [Clients -> CardType]
      BY <3>2 DEF Typed
    <3> QED
      BY <1>5, <3>1, <3>2, CrashMoves
  <2> QED
    BY <2>1, <2>2 DEF Typed
<1>6. ASSUME NEW c \in Clients, PushFails(c) PROVE Typed'
  <2>1. /\ UNCHANGED <<row, wk>> /\ queue' \in Seq(BOOLEAN) /\ lost' \in BOOLEAN
        /\ \E x : CardGoes(c, x)
    BY <1>6, PushFailsMoves
  <2>2. cl' \in [Clients -> CardType]
    BY <2>1, CardsTyped
  <2> QED
    BY <2>1, <2>2 DEF Typed
<1>7. CASE UNCHANGED vars
  BY <1>7 DEF vars, Typed
<1> QED
  BY <1>1, <1>2, <1>3, <1>4, <1>5, <1>6, <1>7 DEF Next

LEMMA TypedAlways == Spec => []Typed
<1>1. Init => Typed
  BY TypeInit
<1>2. Typed /\ [Next]_vars => Typed'
  BY TypeStep
<1> QED
  BY <1>1, <1>2, PTL DEF Spec

\* What the row, the queue, the workers and the cards hold, for any number of them.
THEOREM PoiTypes == Spec => []TypeOK
<1>1. Typed => TypeOK
  BY TypedIsOK
<1> QED
  BY <1>1, TypedAlways, PTL

-----------------------------------------------------------------------------
(* A pending row *)

LEMMA ExplainedStep == Typed /\ PendingIsExplained /\ [Next]_vars => PendingIsExplained'
<1> SUFFICES ASSUME Typed, PendingIsExplained, [Next]_vars, row'.status = "pending"
             PROVE  \/ queue' # <<>> \/ Busy' # {}
                    \/ \E c \in Clients : cl'[c].pc = "push"
                    \/ lost'
  BY DEF PendingIsExplained
<1>1. ASSUME NEW c \in Clients, (\E llm \in BOOLEAN : Open(c, llm)) \/ Poll(c) \/ Close(c)
      PROVE  queue' # <<>> \/ Busy' # {} \/ (\E d \in Clients : cl'[d].pc = "push") \/ lost'
  <2>1. PICK x : cl' = [cl EXCEPT ![c] = x]
    BY <1>1, BrowserMoves DEF CardGoes
  <2>2. cl[c].pc # "push" /\ UNCHANGED <<row, queue, wk, lost>>
    BY <1>1, BrowserMoves
  <2>3. \A d \in Clients : cl[d].pc = "push" => cl'[d].pc = "push"
    BY <2>1, <2>2 DEF Typed
  <2> QED
    BY <2>2, <2>3 DEF PendingIsExplained, Busy
<1>2. ASSUME NEW c \in Clients, Handler(c)
      PROVE  queue' # <<>> \/ Busy' # {} \/ (\E d \in Clients : cl'[d].pc = "push") \/ lost'
  BY <1>2, RequestMoves
<1>3. ASSUME NEW w \in Workers, Work(w)
      PROVE  queue' # <<>> \/ Busy' # {} \/ (\E d \in Clients : cl'[d].pc = "push") \/ lost'
  <2>1. PICK x : /\ WorkGoes(w, x)
                 /\ x.pc \in {"llm", "wiki", "save", "fail"} \/ Written(row')
    BY <1>3, WorkerMoves
  <2>2. x.pc \in {"llm", "wiki", "save", "fail"}
    BY <2>1 DEF Written
  <2>3. wk'[w].pc \notin {"idle", "callback"}
    BY <2>1, <2>2, WorkTyped
  <2> QED
    BY <2>3 DEF Busy
<1>4. CASE Age
  <2>1. row.status = "pending" /\ UNCHANGED <<queue, wk, cl, lost>>
    BY <1>4 DEF Age
  <2> QED
    BY <2>1 DEF PendingIsExplained, Busy
<1>5. CASE Crash
  <2>1. UNCHANGED <<row, queue>> /\ (lost => lost')
    BY <1>5, CrashMoves
  <2>2. CASE cl' = cl /\ \E w \in Workers : wk' = [wk EXCEPT ![w] = Idle] /\ (w \in Busy => lost')
    <3>1. PICK w \in Workers : wk' = [wk EXCEPT ![w] = Idle] /\ (w \in Busy => lost')
      BY <2>2
    <3>2. \A v \in Workers \ {w} : wk'[v] = wk[v]
      BY <3>1 DEF Typed
    <3>3. CASE Busy = {} \/ w \in Busy
      BY <2>1, <2>2, <3>1, <3>3 DEF PendingIsExplained
    <3>4. CASE Busy # {} /\ w \notin Busy
      BY <3>2, <3>4 DEF Busy
    <3> QED
      BY <3>3, <3>4
  <2>3. CASE wk' = wk /\ ((\E c \in Clients : cl[c].pc = "push") => lost')
    BY <2>1, <2>3 DEF PendingIsExplained, Busy
  <2> QED
    BY <1>5, <2>2, <2>3, CrashMoves
<1>6. ASSUME NEW c \in Clients, PushFails(c) PROVE queue' # <<>> \/ lost'
  BY <1>6, PushFailsMoves
<1>7. CASE UNCHANGED vars
  BY <1>7 DEF vars, PendingIsExplained, Busy
<1> QED
  BY <1>1, <1>2, <1>3, <1>4, <1>5, <1>6, <1>7 DEF Next

\* A row is pending only while a job waits or runs or a request has yet to queue it,
\* unless a process died or a push failed: for any number of browsers, workers and
\* crashes.
THEOREM PendingIsAlwaysExplained == Spec => []PendingIsExplained
<1>1. Init => PendingIsExplained
  BY RowTypes, ReadyType DEF Init, PendingIsExplained, Texts
<1>2. Typed /\ PendingIsExplained /\ [Next]_vars => PendingIsExplained'
  BY ExplainedStep
<1> QED
  BY <1>1, <1>2, TypedAlways, PTL DEF Spec

-----------------------------------------------------------------------------
(* A good text *)

LEMMA SettledStep == Typed /\ Settled /\ [Next]_vars => Settled' /\ row' = row
<1> SUFFICES ASSUME Typed, Settled, [Next]_vars PROVE Settled' /\ row' = row
  OBVIOUS
<1>1. Good(row) /\ row.status = "ready"
  BY NullIsNoText DEF Settled, Good, Garbage, SnippetIsStale, Texts
<1>2. ASSUME NEW c \in Clients, NEW x, CardGoes(c, x), x.pc \notin {"upsert", "push"},
             UNCHANGED <<row, queue, wk>>
      PROVE  Settled' /\ row' = row
  <2>1. \A d \in Clients : cl'[d].pc \notin {"upsert", "push"}
    BY <1>2 DEF Settled, Typed, CardGoes
  <2> QED
    BY <1>2, <2>1 DEF Settled
<1>3. ASSUME NEW c \in Clients, (\E llm \in BOOLEAN : Open(c, llm)) \/ Poll(c) \/ Close(c)
      PROVE  Settled' /\ row' = row
  <2>1. UNCHANGED <<row, queue, wk>>
    BY <1>3, BrowserMoves
  <2>2. CASE \E llm \in BOOLEAN : Open(c, llm)
    <3>1. cl' = [cl EXCEPT ![c] = Shown("ready")] \/ cl' = [cl EXCEPT ![c] = Shown("refused")]
      BY <1>1, <2>2 DEF Open, Fresh
    <3>2. \E x : CardGoes(c, x) /\ x.pc = "shown"
      BY <3>1, ShownGoes
    <3> QED
      BY <1>2, <2>1, <3>2
  <2>3. CASE Poll(c) \/ Close(c)
    <3>1. PICK x : CardGoes(c, x) /\ x.pc \in {"idle", "shown", "poll", "upsert"}
      BY <1>3, BrowserMoves
    <3>2. x.pc # "upsert"
      <4>1. cl'[c] = x
        BY <3>1 DEF CardGoes, Typed
      <4>2. cl'[c].pc # "upsert"
        <5>1. \A n : [pc |-> "poll", tries |-> n].pc = "poll"
          OBVIOUS
        <5>2. \A s : Shown(s).pc = "shown"
          BY DEF Shown
        <5>3. Idle.pc = "idle"
          BY DEF Idle
        <5>4. CASE Poll(c)
          BY <5>1, <5>2, <5>4 DEF Poll, Typed
        <5>5. CASE Close(c)
          BY <5>3, <5>5 DEF Close, Typed
        <5> QED
          BY <2>3, <5>4, <5>5
      <4> QED
        BY <4>1, <4>2
    <3> QED
      BY <1>2, <2>1, <3>1, <3>2
  <2> QED
    BY <1>3, <2>2, <2>3
<1>4. ASSUME NEW c \in Clients, Handler(c) PROVE FALSE
  BY <1>4, RequestMoves DEF Settled
<1>5. ASSUME NEW w \in Workers, Work(w) PROVE FALSE
  BY <1>5, WorkerMoves DEF Settled
<1>6. ~Age
  BY <1>1 DEF Age
<1>7. ~Crash
  BY CrashMoves DEF Settled
<1>8. CASE UNCHANGED vars
  BY <1>8 DEF vars, Settled
<1>9. ASSUME NEW c \in Clients, PushFails(c) PROVE FALSE
  BY <1>9, PushFailsMoves DEF Settled
<1> QED
  BY <1>3, <1>4, <1>5, <1>6, <1>7, <1>8, <1>9 DEF Next

\* A good text that nobody is about to replace stays, whoever asks for it again.
THEOREM GoodTextStays == Spec => SettledStays
<1>1. Typed /\ [Next]_vars => [Settled => Settled' /\ row' = row]_vars
  BY SettledStep
<1> QED
  BY <1>1, TypedAlways, PTL DEF Spec, SettledStays

(***************************************************************************)
(* The search for places, for any places, names, rows and limits.  The     *)
(* invariant SearchInv says of each stage what the pool is (PoolsKept) and *)
(* where the places are that it does not have (Collected): still to be     *)
(* considered, or left out for a reason.  Near namesakes are why it is     *)
(* more than the properties: a pool has them only while it is small, so a  *)
(* pool that lost some in the merge is smaller still and gets them back in *)
(* the second pass, and what is left out at the end was left out of the    *)
(* first collection, for a reason that the merge has not taken away.       *)
(*                                                                         *)
(* First the names and the pools.                                          *)
(***************************************************************************)

\* No two near namesakes.
NoAlike(S) == \A p, q \in S : {p, q} \notin Alike
Serves(p) == PoolAccepts(p) /\ p \in Inside

LEMMA PoolFinite ==
  ASSUME NEW S \in SUBSET Place
  PROVE  IsFiniteSet(S) /\ Cardinality(S) \in Nat
  BY FS_Subset, FS_CardinalityType, PlacePoolAssumption DEF PlacePoolAssumption

LEMMA NotAlikeItself == \A p : {p, p} \notin Alike
<1> SUFFICES ASSUME NEW p, {p, p} \in Alike PROVE FALSE
  OBVIOUS
<1>1. Cardinality({p, p}) = 2
  BY PlacePoolAssumption DEF PlacePoolAssumption
<1>2. {p, p} = {p} /\ Cardinality({p}) = 1
  BY FS_Singleton
<1> QED BY <1>1, <1>2

LEMMA SoundSubset ==
  ASSUME NEW S \in SUBSET Place, NEW T \in SUBSET S, Sound(S)
  PROVE  Sound(T)
<1>1. Cardinality(T) <= Cardinality(S) /\ Cardinality(T) \in Nat /\ Cardinality(S) \in Nat
  <2>1. IsFiniteSet(S) /\ T \in SUBSET Place
    BY PoolFinite
  <2> QED BY <2>1, FS_Subset, PoolFinite
<1>2. Target \in Nat
  BY PlaceSearchAssumption DEF PlaceSearchAssumption
<1> QED BY <1>1, <1>2 DEF Sound

LEMMA SoundAdd ==
  ASSUME NEW S \in SUBSET Place, NEW p \in Place, Sound(S), NoAlike(S),
         Specific(p), p \in Inside,
         \A q \in S : ~SameSpotOrName(p, q) /\ {p, q} \notin Alike
  PROVE  Sound(S \union {p}) /\ NoAlike(S \union {p})
<1>1. NoAlike(S \union {p})
  <2> SUFFICES ASSUME NEW a \in S \union {p}, NEW b \in S \union {p}, {a, b} \in Alike PROVE FALSE
    BY DEF NoAlike
  <2>1. CASE a = p /\ b = p
    BY <2>1, NotAlikeItself
  <2>2. CASE a = p /\ b \in S
    BY <2>2
  <2>3. CASE a \in S /\ b = p
    <3>1. {a, b} = {p, a}
      BY <2>3
    <3> QED BY <2>3, <3>1
  <2>4. CASE a \in S /\ b \in S
    BY <2>4 DEF NoAlike
  <2> QED BY <2>1, <2>2, <2>3, <2>4
<1>2. \A q \in S : ~SameSpotOrName(q, p)
  BY DEF SameSpotOrName
<1>3. \A a, b \in S \union {p} : a # b => ~SameSpotOrName(a, b)
  BY <1>2 DEF Sound
<1>4. \A a \in S \union {p} : Specific(a) /\ a \in Inside
  BY DEF Sound
<1> QED BY <1>1, <1>3, <1>4 DEF Sound, NoAlike

LEMMA SoundAddWiki ==
  ASSUME NEW S \in SUBSET Place, NEW p \in Place, Sound(S),
         Specific(p), p \in Inside, S \union {p} \subseteq Wiki, Cardinality(S) < Target,
         \A q \in S : ~SameSpotOrName(p, q)
  PROVE  Sound(S \union {p})
<1>1. Cardinality(S \union {p}) <= Target
  <2>1. IsFiniteSet(S) /\ Cardinality(S) \in Nat
    BY PoolFinite
  <2>2. Cardinality(S \union {p}) \in {Cardinality(S), Cardinality(S) + 1}
    BY <2>1, FS_AddElement
  <2>3. Target \in Nat
    BY PlaceSearchAssumption DEF PlaceSearchAssumption
  <2> QED BY <2>1, <2>2, <2>3
<1>2. \A q \in S : ~SameSpotOrName(q, p)
  BY DEF SameSpotOrName
<1>3. \A a, b \in S \union {p} : a # b => ~SameSpotOrName(a, b)
  BY <1>2 DEF Sound
<1>4. \A a \in S \union {p} : Specific(a) /\ a \in Inside
  BY DEF Sound
<1> QED BY <1>1, <1>3, <1>4 DEF Sound

LEMMA SoundEmpty == Sound({}) /\ NoAlike({})
  BY DEF Sound, NoAlike

LEMMA IndexedIsSpecific ==
  ASSUME NEW p \in Place, Indexable(p)
  PROVE  Specific(p) /\ p \notin Wiki
  BY DEF Indexable, Specific, Has, AcceptablePedestrian, AcceptableName, TransportOrArea,
         CityOnly, GenericStreet

LEMMA UsableIsSpecific ==
  ASSUME NEW p \in Place, Usable(p)
  PROVE  Specific(p) /\ p \in Wiki /\ p \in Inside
  BY DEF Usable, WikiPlace, Specific, Has, AcceptableName, TransportOrArea, CityOnly, GenericStreet

LEMMA IndexedServes ==
  ASSUME NEW p \in Place, Indexable(p)
  PROVE  PoolAccepts(p) <=> Leisurely(p)
  BY IndexedIsSpecific DEF PoolAccepts

LEMMA FirstIsFound ==
  ASSUME NEW W
  PROVE  \/ FirstOf(NameKinds, W) = "none"
         \/ \E k \in 1..6 : FirstOf(NameKinds, W) = NameKinds[k] /\ NameKinds[k] \in W
<1> DEFINE hits == {k \in DOMAIN NameKinds : NameKinds[k] \in W}
<1>1. CASE hits = {}
  BY <1>1 DEF FirstOf
<1>2. CASE hits # {}
  <2>1. DOMAIN NameKinds = 1..6
    BY DEF NameKinds
  <2>2. hits \subseteq 1..6
    BY <2>1
  <2>3. \E k \in hits : \A j \in hits : k <= j
    <3> HIDE DEF hits
    <3>1. CASE 1 \in hits
      BY <2>2, <3>1
    <3>2. CASE 1 \notin hits /\ 2 \in hits
      BY <2>2, <3>2
    <3>3. CASE 1 \notin hits /\ 2 \notin hits /\ 3 \in hits
      BY <2>2, <3>3
    <3>4. CASE 1 \notin hits /\ 2 \notin hits /\ 3 \notin hits /\ 4 \in hits
      BY <2>2, <3>4
    <3>5. CASE 1 \notin hits /\ 2 \notin hits /\ 3 \notin hits /\ 4 \notin hits
      <4>1. hits \subseteq {5, 6}
        BY <2>2, <3>5
      <4>2. CASE 5 \in hits
        BY <4>1, <4>2
      <4>3. CASE hits = {6}
        BY <4>3
      <4> QED BY <4>1, <4>2, <4>3, <1>2
    <3> QED BY <3>1, <3>2, <3>3, <3>4, <3>5
  <2> DEFINE least == CHOOSE k \in hits : \A j \in hits : k <= j
  <2>4. least \in hits
    BY <2>3
  <2>5. FirstOf(NameKinds, W) = NameKinds[least]
    BY <1>2 DEF FirstOf
  <2>6. least \in 1..6 /\ NameKinds[least] \in W
    BY <2>2, <2>4
  <2> QED BY <2>5, <2>6
<1> QED BY <1>1, <1>2

LEMMA UsableServes ==
  ASSUME NEW p \in Place, Usable(p)
  PROVE  Serves(p)
<1>1. p \in Wiki /\ ~Has(p, {"low"}) /\ AcceptableName(p) /\ p \in Inside
  BY DEF Usable, WikiPlace
<1>2. ASSUME Tag(p) = "embankments" PROVE EmbankmentName(p)
  <2>1. LeisureTag[FirstOf(NameKinds, Name[p])] = "embankments"
    BY <1>1, <1>2 DEF Tag, TagOfName
  <2>2. CASE FirstOf(NameKinds, Name[p]) = "none"
    BY <2>1, <2>2 DEF LeisureTag
  <2>3. CASE \E k \in 1..6 : FirstOf(NameKinds, Name[p]) = NameKinds[k] /\ NameKinds[k] \in Name[p]
    <3>1. PICK k \in 1..6 : FirstOf(NameKinds, Name[p]) = NameKinds[k] /\ NameKinds[k] \in Name[p]
      BY <2>3
    <3>2. NameKinds[k] = "naberezhnaya"
      BY <2>1, <3>1 DEF LeisureTag, NameKinds
    <3>3. {"hint", "quay"} \subseteq Name[p]
      BY <3>1, <3>2, PlacePoolAssumption DEF PlacePoolAssumption
    <3> QED BY <1>1, <3>3 DEF EmbankmentName, AcceptableName, GenericStreet, Has
  <2> QED BY <2>2, <2>3, FirstIsFound
<1> QED BY <1>1, <1>2 DEF Serves, PoolAccepts

(***************************************************************************)
(* The invariant of the search.                                            *)
(***************************************************************************)

\* Before anything is collected; after the first collection.
Early == {"idle", "begun", "reading", "opening", "asking"}
Second == {"merge", "again", "web", "match"}

\* The rows are of one of the two sources.
RowsKnown ==
    /\ (\A p \in rows : Indexable(p)) \/ (\A p \in rows : Usable(p))
    /\ stage = "pack" => \A p \in rows : Indexable(p)
    /\ stage \in {"strict", "soft", "relaxed"} => \A p \in rows : Usable(p)

\* What the pools are.
PoolsKept ==
    /\ todo \subseteq rows /\ pool \subseteq rows /\ found \subseteq rows
    /\ stage \in Early => pool = {}
    /\ stage \in Second => pool \subseteq found /\ todo \subseteq found
    /\ stage \notin Second => found = {}
    /\ \A p \in pool \union found : Serves(p)
    /\ stage \in {"pack", "strict", "soft"} => NoAlike(pool)
    /\ Sound(pool) /\ Sound(found) /\ Sound(reply.places)

\* Why a place is not in the pool S.
Seen(p) == p \in pool \union todo
Twice(p, S) == \E q \in S : SameSpotOrName(p, q)
Near(p, S) == \E q \in S : {p, q} \in Alike
Excused(p, S) ==
    \/ ~Serves(p) \/ Cardinality(S) >= PackCap \/ Twice(p, S)
    \/ Near(p, S) /\ (p \in Wiki => Cardinality(S) >= Target)
    \/ p \in Wiki /\ ~Strict(p) /\ Cardinality(S) >= Target

\* Where the places are that the pool does not have.
Collected ==
    /\ stage = "pack" => \A p \in rows : Seen(p) \/ ~Serves(p) \/ Twice(p, pool) \/ Near(p, pool)
    /\ stage = "strict" => \A p \in rows : Strict(p) => Seen(p) \/ Twice(p, pool) \/ Near(p, pool)
    /\ stage \in {"soft", "relaxed"} =>
         \A p \in rows : Strict(p) => p \in pool \/ Twice(p, pool) \/ Near(p, pool)
    /\ stage = "relaxed" => \A p \in rows : Seen(p) \/ Twice(p, pool)
    /\ stage \in Second => \A p \in rows \ found : Excused(p, found)
    /\ stage = "merge" => \A p \in found : Seen(p) \/ Near(p, pool)
    /\ stage = "again" => \A p \in found : Seen(p)
    /\ stage \in {"web", "match"} => found \subseteq pool \/ Cardinality(pool) >= PoolCap

\* Each name is matched once.
Named ==
    /\ stage # "match" => names = {} /\ matches = {}
    /\ \A m \in matches : m[1] \notin names
    /\ NoNameSettlesForLess

Centred == DemoIsAnnounced /\ (stage # "idle" => centre # "lost")

SearchInv == SearchTypeOK /\ RowsKnown /\ PoolsKept /\ Collected /\ Named /\ Centred

LEMMA AnswersKeep ==
  ASSUME SearchInv,
         NEW a \in [kind : {"none", "real", "demo", "error"}, places : SUBSET Place,
                    first : SUBSET Place, warned : BOOLEAN],
         Answers(a), centre' \in {"unknown", "lost", "nameless", "found"}, Sound(a.places),
         a.kind = "demo" => a.warned \/ centre' = "lost",
         centre' = "lost" => a.kind # "real"
  PROVE  SearchInv'
<1>1. stage' = "idle" /\ rows' = {} /\ todo' = {} /\ pool' = {} /\ found' = {} /\ names' = {}
        /\ matches' = {} /\ reply' = a
  BY DEF Answers
<1>2. SearchTypeOK'
  BY <1>1 DEF SearchTypeOK, Stages
<1>3. RowsKnown' /\ Collected'
  BY <1>1 DEF RowsKnown, Collected, Second
<1>4. PoolsKept'
  BY <1>1, SoundEmpty DEF PoolsKept, Second
<1>5. Named' /\ Centred'
  BY <1>1 DEF Named, Centred, NoNameSettlesForLess, DemoIsAnnounced
<1> QED BY <1>2, <1>3, <1>4, <1>5 DEF SearchInv

LEMMA StartKeeps == ASSUME SearchInv, StartSearch PROVE SearchInv'
<1>1. centre' \in {"unknown", "lost", "nameless", "found"} /\ stage = "idle"
  BY DEF StartSearch, Located, SearchInv, SearchTypeOK
<1>2. CASE centre' = "lost"
  <2>1. Answers(Demo(FALSE))
    BY <1>2 DEF StartSearch, Answers
  <2> QED BY <2>1, <1>1, <1>2, AnswersKeep, SoundEmpty DEF Demo
<1>3. CASE centre' # "lost"
  <2>1. stage' = "begun" /\ reply' = NoAnswer /\ UNCHANGED <<rows, todo, pool, found, names, matches>>
    BY <1>3 DEF StartSearch
  <2>2. SearchTypeOK'
    BY <1>1, <2>1 DEF SearchInv, SearchTypeOK, NoAnswer, Stages
  <2>3. RowsKnown' /\ Collected'
    BY <1>1, <2>1 DEF SearchInv, RowsKnown, Collected, Second
  <2>4. PoolsKept'
    <3>1. reply'.places = {}
      BY <2>1 DEF NoAnswer
    <3> QED BY <1>1, <2>1, <3>1, SoundEmpty DEF SearchInv, PoolsKept, Second, Early
  <2>5. Named' /\ Centred'
    BY <1>1, <1>3, <2>1 DEF SearchInv, Named, Centred, NoNameSettlesForLess, DemoIsAnnounced, NoAnswer
  <2> QED BY <2>2, <2>3, <2>4, <2>5 DEF SearchInv
<1> QED BY <1>2, <1>3

LEMMA GoesKeeps ==
  ASSUME SearchInv, NEW from \in {"begun", "reading"}, NEW to \in {"asking", "reading", "opening"},
         Goes(from, to)
  PROVE  SearchInv'
<1>1. stage = from /\ stage' = to /\ UNCHANGED <<centre, rows, todo, pool, found, names, matches, reply>>
  BY DEF Goes
<1>2. SearchTypeOK'
  BY <1>1 DEF SearchInv, SearchTypeOK, Stages
<1>3. RowsKnown' /\ Collected'
  BY <1>1 DEF SearchInv, RowsKnown, Collected, Second
<1>4. PoolsKept'
  BY <1>1 DEF SearchInv, PoolsKept, Second, Early
<1>5. Named' /\ Centred'
  BY <1>1 DEF SearchInv, Named, Centred, NoNameSettlesForLess, DemoIsAnnounced
<1> QED BY <1>2, <1>3, <1>4, <1>5 DEF SearchInv

LEMMA ReadsKeeps ==
  ASSUME SearchInv, NEW from \in {"reading", "opening"}, NEW S \in SUBSET Place,
         \A p \in S : Indexable(p), ReadsRows(from, S)
  PROVE  SearchInv'
<1>1. stage = from /\ stage' = "pack" /\ rows' = S /\ todo' = S
        /\ UNCHANGED <<centre, pool, found, names, matches, reply>>
  BY DEF ReadsRows
<1>2. pool = {} /\ found = {}
  BY <1>1 DEF SearchInv, PoolsKept, Early, Second
<1>3. SearchTypeOK'
  BY <1>1 DEF SearchInv, SearchTypeOK, Stages, Loops
<1>4. RowsKnown' /\ Collected'
  BY <1>1 DEF SearchInv, RowsKnown, Collected, Second, Seen
<1>5. PoolsKept'
  BY <1>1, <1>2, SoundEmpty DEF SearchInv, PoolsKept, Second, Early
<1>6. Named' /\ Centred'
  BY <1>1 DEF SearchInv, Named, Centred, NoNameSettlesForLess, DemoIsAnnounced
<1> QED BY <1>3, <1>4, <1>5, <1>6 DEF SearchInv

LEMMA AskKeeps == ASSUME SearchInv, AskWikidata PROVE SearchInv'
<1>1. PICK S : rows' = S /\ todo' = {p \in S : Strict(p)} /\ \A p \in S : Usable(p)
  BY DEF AskWikidata
<1>2. stage = "asking" /\ stage' = "strict" /\ UNCHANGED <<centre, pool, found, names, matches, reply>>
  BY DEF AskWikidata
<1>3. S \subseteq Place
  BY <1>1, PlacePoolAssumption DEF Usable, WikiPlace, PlacePoolAssumption
<1>4. pool = {} /\ found = {}
  BY <1>2 DEF SearchInv, PoolsKept, Early, Second
<1>5. SearchTypeOK'
  BY <1>1, <1>2, <1>3 DEF SearchInv, SearchTypeOK, Stages, Loops
<1>6. RowsKnown'
  BY <1>1, <1>2 DEF RowsKnown
<1>7. Collected'
  BY <1>1, <1>2 DEF Collected, Second, Seen
<1>8. PoolsKept'
  BY <1>1, <1>2, <1>4, SoundEmpty DEF SearchInv, PoolsKept, Second, Early
<1>9. Named' /\ Centred'
  BY <1>2 DEF SearchInv, Named, Centred, NoNameSettlesForLess, DemoIsAnnounced
<1> QED BY <1>5, <1>6, <1>7, <1>8, <1>9 DEF SearchInv

\* One more place is considered, and taken or not.
LEMMA ConsiderOutcome ==
  ASSUME SearchInv, NEW p \in Place, Consider(p)
  PROVE  /\ stage \in Loops /\ p \in todo /\ todo' = todo \ {p} /\ p \in rows
         /\ UNCHANGED <<centre, stage, rows, found, names, matches, reply>>
         /\ \/ /\ pool' = pool \union {p}
               /\ Passes(p) /\ \A q \in pool : ~Conflicts(p, q, MayRelax(p, q))
            \/ /\ pool' = pool
               /\ ~Passes(p) \/ \E q \in pool : Conflicts(p, q, MayRelax(p, q))
  BY DEF Consider, Due, SearchInv, PoolsKept

LEMMA ConsiderPools ==
  ASSUME SearchInv, NEW p \in Place, Consider(p)
  PROVE  PoolsKept'
<1> USE ConsiderOutcome
<1>1. rows \subseteq Place /\ pool \subseteq Place
  BY DEF SearchInv, SearchTypeOK
<1>2. stage \notin Early
  BY DEF Loops, Early
<1>3. CASE pool' = pool
  BY <1>3 DEF SearchInv, PoolsKept
<1>4. CASE /\ pool' = pool \union {p}
           /\ Passes(p) /\ \A q \in pool : ~Conflicts(p, q, MayRelax(p, q))
  <2>1. CASE stage \in {"pack", "strict", "soft"}
    <3>1. Serves(p) /\ Specific(p) /\ p \in Inside
      <4>1. CASE stage = "pack"
        BY <1>1, <1>4, <4>1, IndexedIsSpecific, IndexedServes DEF SearchInv, RowsKnown, Passes, Serves
      <4>2. CASE stage \in {"strict", "soft"}
        BY <1>1, <4>2, UsableIsSpecific, UsableServes DEF SearchInv, RowsKnown
      <4> QED BY <2>1, <4>1, <4>2
    <3>2. \A q \in pool : ~SameSpotOrName(p, q) /\ {p, q} \notin Alike
      <4>1. \A q : ~MayRelax(p, q)
        BY <2>1 DEF MayRelax
      <4> QED BY <1>4, <4>1 DEF Conflicts
    <3>3. Sound(pool') /\ NoAlike(pool')
      BY <1>1, <1>4, <2>1, <3>1, <3>2, SoundAdd DEF SearchInv, PoolsKept
    <3> QED BY <1>2, <1>4, <2>1, <3>1, <3>3 DEF SearchInv, PoolsKept, Second
  <2>2. CASE stage = "relaxed"
    <3>1. pool \union {p} \subseteq Wiki /\ Serves(p) /\ Specific(p) /\ p \in Inside
      BY <1>1, <2>2, UsableIsSpecific, UsableServes DEF SearchInv, RowsKnown, PoolsKept
    <3>2. Cardinality(pool) < Target
      <4>1. ~(Cardinality(pool) >= Target)
        BY <2>2 DEF Consider, Full
      <4> QED BY <1>1, <4>1, PoolFinite, PlaceSearchAssumption DEF PlaceSearchAssumption
    <3>3. \A q \in pool : ~SameSpotOrName(p, q)
      BY <1>4 DEF Conflicts
    <3>4. Sound(pool')
      BY <1>1, <1>4, <3>1, <3>2, <3>3, SoundAddWiki DEF SearchInv, PoolsKept
    <3> QED BY <1>2, <1>4, <2>2, <3>1, <3>4 DEF SearchInv, PoolsKept, Second
  <2>3. CASE stage \in {"merge", "again"}
    <3>1. p \in found
      BY <2>3 DEF SearchInv, PoolsKept, Second
    <3>2. Sound(pool')
      BY <1>1, <1>4, <2>3, <3>1, SoundSubset DEF SearchInv, PoolsKept, Second, SearchTypeOK
    <3> QED BY <1>2, <1>4, <2>3, <3>1, <3>2 DEF SearchInv, PoolsKept, Second
  <2> QED BY <2>1, <2>2, <2>3 DEF Loops
<1> QED BY <1>3, <1>4

\* Nothing that the pool has is lost, and a place that was considered is in it
\* or has its reason.
LEMMA ConsiderCollects ==
  ASSUME SearchInv, NEW p \in Place, Consider(p)
  PROVE  Collected'
<1> USE ConsiderOutcome
<1>1. rows \subseteq Place /\ pool \subseteq rows /\ pool \subseteq pool'
  BY DEF SearchInv, SearchTypeOK, PoolsKept
<1>2. \A x : (Twice(x, pool) => Twice(x, pool')) /\ (Near(x, pool) => Near(x, pool'))
  BY <1>1 DEF Twice, Near
<1>3. \A x : Seen(x) => Seen(x)' \/ x = p
  BY <1>1 DEF Seen
<1>4. CASE p \in pool'
  <2>1. \A x : Seen(x) => Seen(x)'
    BY <1>3, <1>4 DEF Seen
  <2>2. stage \in Loops
    OBVIOUS
  <2> QED BY <1>1, <1>2, <2>1, <2>2 DEF SearchInv, Collected, Loops, Second
<1>5. CASE pool' = pool /\ ~Passes(p)
  <2>1. CASE stage = "pack"
    <3>1. ~Serves(p)
      BY <1>1, <1>5, <2>1, IndexedServes DEF SearchInv, RowsKnown, Passes, Serves
    <3> QED BY <1>2, <1>3, <1>5, <2>1, <3>1 DEF SearchInv, Collected, Second
  <2>2. CASE stage \in {"strict", "soft", "relaxed"}
    <3>1. p \in Inside
      BY <1>1, <2>2, UsableServes DEF SearchInv, RowsKnown, Serves
    <3> QED BY <1>5, <2>2, <3>1 DEF Passes
  <2>3. CASE stage \in {"merge", "again"}
    <3>1. Serves(p)
      BY <2>3 DEF SearchInv, PoolsKept, Second
    <3> QED BY <1>5, <2>3, <3>1 DEF Passes, Serves
  <2> QED BY <2>1, <2>2, <2>3 DEF Loops
<1>6. CASE pool' = pool /\ p \notin pool /\ \E q \in pool : Conflicts(p, q, MayRelax(p, q))
  <2>1. PICK q \in pool : Conflicts(p, q, MayRelax(p, q))
    BY <1>6
  <2>2. CASE stage \in {"pack", "strict", "soft", "merge"}
    <3>1. Twice(p, pool') \/ Near(p, pool')
      BY <1>6, <2>1 DEF Conflicts, Twice, Near
    <3>2. stage = "merge" => ~Twice(p, pool')
      <4> SUFFICES ASSUME stage = "merge" PROVE ~Twice(p, pool)
        BY <1>6
      <4>1. p \in found /\ pool \subseteq found /\ Sound(found)
        BY DEF SearchInv, PoolsKept, Second
      <4> QED BY <1>6, <4>1 DEF Sound, Twice
    <3> QED BY <1>2, <1>3, <1>6, <2>2, <3>1, <3>2 DEF SearchInv, Collected, Second
  <2>3. CASE stage = "relaxed"
    <3>1. Twice(p, pool')
      BY <1>6, <2>1, <2>3 DEF Conflicts, Twice, MayRelax
    <3> QED BY <1>2, <1>3, <1>6, <2>3, <3>1 DEF SearchInv, Collected, Second
  <2>4. CASE stage = "again"
    <3>1. p \in found /\ pool \subseteq found /\ Sound(found)
      BY <2>4 DEF SearchInv, PoolsKept, Second
    <3>2. p # q
      BY <1>6, <2>1
    <3> QED BY <2>1, <2>4, <3>1, <3>2 DEF Conflicts, MayRelax, Sound
  <2> QED BY <2>2, <2>3, <2>4 DEF Loops
<1> QED BY <1>4, <1>5, <1>6

LEMMA ConsiderKeeps ==
  ASSUME SearchInv, NEW p \in Place, Consider(p)
  PROVE  SearchInv'
<1> USE ConsiderOutcome
<1>1. SearchTypeOK'
  BY DEF SearchInv, SearchTypeOK
<1>2. RowsKnown'
  BY DEF SearchInv, RowsKnown
<1>3. Named' /\ Centred'
  <2>1. stage # "match" /\ matches = {}
    BY DEF Loops, SearchInv, Named
  <2> QED BY <2>1 DEF SearchInv, Named, Centred, NoNameSettlesForLess, DemoIsAnnounced
<1> QED BY <1>1, <1>2, <1>3, ConsiderPools, ConsiderCollects DEF SearchInv

LEMMA MergesKeep ==
  ASSUME SearchInv, Merges, stage \in {"pack", "soft", "relaxed"},
         \A p \in rows \ pool : Excused(p, pool)
  PROVE  SearchInv'
<1>1. stage' = "merge" /\ found' = pool /\ todo' = pool /\ pool' = {}
        /\ UNCHANGED <<centre, rows, names, matches, reply>>
  BY DEF Merges
<1>2. SearchTypeOK'
  BY <1>1 DEF SearchInv, SearchTypeOK, Stages, Loops
<1>3. RowsKnown'
  BY <1>1 DEF SearchInv, RowsKnown
<1>4. PoolsKept'
  BY <1>1, SoundEmpty DEF SearchInv, PoolsKept, Early, Second
<1>5. Collected'
  BY <1>1 DEF Collected, Second, Seen, Excused, Twice, Near
<1>6. Named' /\ Centred'
  BY <1>1 DEF SearchInv, Named, Centred, NoNameSettlesForLess, DemoIsAnnounced
<1> QED BY <1>2, <1>3, <1>4, <1>5, <1>6 DEF SearchInv

LEMMA NotFull ==
  ASSUME SearchInv, NEW n \in Nat
  PROVE  Cardinality(pool) < n \/ Cardinality(pool) >= n
  BY PoolFinite DEF SearchInv, SearchTypeOK

LEMMA Sizes == {Target, PoolCap, PackCap} \subseteq Nat /\ Target <= PoolCap /\ PoolCap > 0
  BY PlaceSearchAssumption DEF PlaceSearchAssumption

LEMMA EndPackKeeps == ASSUME SearchInv, EndPack PROVE SearchInv'
<1>1. stage = "pack" /\ (todo = {} \/ Cardinality(pool) >= PackCap)
  BY DEF EndPack, Ended, Full
<1>2. CASE pool = {}
  <2>1. stage' = "asking" /\ todo' = {} /\ UNCHANGED <<centre, rows, pool, found, names, matches, reply>>
    BY <1>2 DEF EndPack, GoesOn
  <2>2. SearchTypeOK'
    BY <2>1 DEF SearchInv, SearchTypeOK, Stages
  <2>3. RowsKnown'
    BY <2>1 DEF SearchInv, RowsKnown
  <2>4. Collected'
    BY <2>1 DEF Collected, Second
  <2>5. PoolsKept'
    BY <1>1, <1>2, <2>1 DEF SearchInv, PoolsKept, Early, Second
  <2>6. Named' /\ Centred'
    BY <1>1, <2>1 DEF SearchInv, Named, Centred, NoNameSettlesForLess, DemoIsAnnounced
  <2> QED BY <2>2, <2>3, <2>4, <2>5, <2>6 DEF SearchInv
<1>3. CASE pool # {}
  <2>1. Merges
    BY <1>3 DEF EndPack, Merges
  <2>2. ASSUME NEW p \in rows \ pool PROVE Excused(p, pool)
    <3>1. p \notin Wiki
      BY <1>1, IndexedIsSpecific DEF SearchInv, SearchTypeOK, RowsKnown
    <3> QED BY <1>1, <3>1 DEF SearchInv, Collected, Seen, Excused
  <2> QED BY <1>1, <2>1, <2>2, MergesKeep
<1> QED BY <1>2, <1>3

\* The loop ends and another stage begins with the places S.
LEMMA GoesOnKeeps ==
  ASSUME SearchInv, NEW from \in Loops, NEW to \in {"soft", "relaxed", "again", "web"}, NEW S,
         stage = from, GoesOn(to, S), PoolsKept', Collected',
         to \in {"soft", "relaxed"} => from \in {"strict", "soft"}
  PROVE  SearchInv'
<1>1. stage' = to /\ todo' = S /\ UNCHANGED <<centre, rows, pool, found, names, matches, reply>>
  BY DEF GoesOn
<1>2. SearchTypeOK'
  BY <1>1 DEF SearchInv, SearchTypeOK, Stages, Loops, PoolsKept
<1>3. RowsKnown'
  BY <1>1 DEF SearchInv, RowsKnown
<1>4. Named' /\ Centred'
  BY <1>1 DEF SearchInv, Named, Centred, NoNameSettlesForLess, DemoIsAnnounced, Loops
<1> QED BY <1>2, <1>3, <1>4 DEF SearchInv

LEMMA EndStrictKeeps == ASSUME SearchInv, EndStrict PROVE SearchInv'
<1> DEFINE S == {p \in rows : ~Strict(p)}
<1>1. stage = "strict" /\ todo = {} /\ GoesOn("soft", S)
  BY DEF EndStrict, Ended, Full
<1>2. stage' = "soft" /\ todo' = S /\ UNCHANGED <<centre, rows, pool, found, names, matches, reply>>
  BY <1>1 DEF GoesOn
<1>3. PoolsKept'
  BY <1>1, <1>2 DEF SearchInv, PoolsKept, Early, Second
<1>4. Collected'
  BY <1>1, <1>2 DEF SearchInv, Collected, Second, Seen, Twice, Near
<1> QED BY <1>1, <1>3, <1>4, GoesOnKeeps DEF Loops

LEMMA EndSoftKeeps == ASSUME SearchInv, EndSoft PROVE SearchInv'
<1>1. stage = "soft" /\ \A p \in rows : Strict(p) => p \in pool \/ Twice(p, pool) \/ Near(p, pool)
  BY DEF EndSoft, Ended, SearchInv, Collected
<1>2. CASE Cardinality(pool) < Target
  <2>1. GoesOn("relaxed", rows \ pool)
    BY <1>2 DEF EndSoft, GoesOn
  <2>2. stage' = "relaxed" /\ todo' = rows \ pool
          /\ UNCHANGED <<centre, rows, pool, found, names, matches, reply>>
    BY <2>1 DEF GoesOn
  <2>3. PoolsKept'
    BY <1>1, <2>2 DEF SearchInv, PoolsKept, Early, Second
  <2>4. Collected'
    BY <1>1, <2>2 DEF SearchInv, Collected, Second, Seen, Twice, Near
  <2> QED BY <1>1, <2>1, <2>3, <2>4, GoesOnKeeps DEF Loops
<1>3. CASE ~(Cardinality(pool) < Target)
  <2>1. Merges
    BY <1>3 DEF EndSoft, Merges
  <2>2. Cardinality(pool) >= Target
    BY <1>3, NotFull, Sizes
  <2>3. ASSUME NEW p \in rows \ pool PROVE Excused(p, pool)
    <3>1. p \in Wiki
      BY <1>1, UsableIsSpecific DEF SearchInv, SearchTypeOK, RowsKnown
    <3> QED BY <1>1, <2>2, <3>1 DEF Excused
  <2> QED BY <1>1, <2>1, <2>3, MergesKeep
<1> QED BY <1>2, <1>3

LEMMA EndRelaxedKeeps == ASSUME SearchInv, EndRelaxed PROVE SearchInv'
<1>1. stage = "relaxed" /\ Merges /\ (todo = {} \/ Cardinality(pool) >= Target)
  BY DEF EndRelaxed, Ended, Full
<1>2. ASSUME NEW p \in rows \ pool PROVE Excused(p, pool)
  <2>1. p \in Wiki
    BY <1>1, UsableIsSpecific DEF SearchInv, SearchTypeOK, RowsKnown
  <2>2. CASE todo = {}
    BY <1>1, <2>2 DEF SearchInv, Collected, Seen, Excused
  <2>3. CASE Cardinality(pool) >= Target
    BY <1>1, <2>1, <2>3 DEF SearchInv, Collected, Excused
  <2> QED BY <1>1, <2>2, <2>3
<1> QED BY <1>1, <1>2, MergesKeep

\* After the merge only near namesakes are missing, and then the pool is small.
LEMMA MergedIsAll ==
  ASSUME SearchInv, stage = "merge", todo = {}, Cardinality(pool) >= Target
  PROVE  found \subseteq pool
<1>1. Sound(found) /\ pool \subseteq found /\ found \subseteq Place
  BY DEF SearchInv, PoolsKept, Second, SearchTypeOK
<1>2. SUFFICES ASSUME NEW p \in found \ pool PROVE FALSE
  OBVIOUS
<1>3. PICK q \in pool : {p, q} \in Alike
  BY <1>2 DEF SearchInv, Collected, Seen, Near
<1>4. Cardinality(found) <= Target
  BY <1>1, <1>2, <1>3 DEF Sound
<1>5. /\ Cardinality(found) \in Nat /\ Cardinality(pool) \in Nat
      /\ Cardinality(pool) <= Cardinality(found)
      /\ Cardinality(pool) = Cardinality(found) => found = pool
  <2>1. IsFiniteSet(found) /\ pool \in SUBSET Place
    BY <1>1, PoolFinite
  <2> QED BY <1>1, <2>1, FS_Subset, PoolFinite
<1> QED BY <1>2, <1>4, <1>5, Sizes

LEMMA EndMergeKeeps == ASSUME SearchInv, EndMerge PROVE SearchInv'
<1>1. stage = "merge" /\ (todo = {} \/ Cardinality(pool) >= PoolCap)
  BY DEF EndMerge, Ended, Full
<1>2. CASE Cardinality(pool) < Target
  <2>1. GoesOn("again", found \ pool)
    BY <1>2 DEF EndMerge, GoesOn
  <2>2. stage' = "again" /\ todo' = found \ pool
          /\ UNCHANGED <<centre, rows, pool, found, names, matches, reply>>
    BY <2>1 DEF GoesOn
  <2>3. PoolsKept'
    BY <1>1, <2>2 DEF SearchInv, PoolsKept, Early, Second
  <2>4. Collected'
    BY <1>1, <2>2 DEF SearchInv, Collected, Second, Seen, Excused, Twice, Near
  <2> QED BY <1>1, <2>1, <2>3, <2>4, GoesOnKeeps DEF Loops
<1>3. CASE ~(Cardinality(pool) < Target)
  <2>1. GoesOn("web", {})
    BY <1>3 DEF EndMerge, GoesOn
  <2>2. stage' = "web" /\ todo' = {} /\ UNCHANGED <<centre, rows, pool, found, names, matches, reply>>
    BY <2>1 DEF GoesOn
  <2>3. PoolsKept'
    BY <1>1, <2>2 DEF SearchInv, PoolsKept, Early, Second
  <2>4. found \subseteq pool \/ Cardinality(pool) >= PoolCap
    BY <1>1, <1>3, MergedIsAll, NotFull, Sizes
  <2>5. Collected'
    BY <1>1, <2>2, <2>4 DEF SearchInv, Collected, Second, Seen, Excused, Twice, Near
  <2> QED BY <1>1, <2>1, <2>3, <2>5, GoesOnKeeps DEF Loops
<1> QED BY <1>2, <1>3

LEMMA EndAgainKeeps == ASSUME SearchInv, EndAgain PROVE SearchInv'
<1>1. stage = "again" /\ GoesOn("web", {}) /\ (todo = {} \/ Cardinality(pool) >= PoolCap)
  BY DEF EndAgain, Ended, Full
<1>2. stage' = "web" /\ todo' = {} /\ UNCHANGED <<centre, rows, pool, found, names, matches, reply>>
  BY <1>1 DEF GoesOn
<1>3. PoolsKept'
  BY <1>1, <1>2 DEF SearchInv, PoolsKept, Early, Second
<1>4. Collected'
  BY <1>1, <1>2 DEF SearchInv, Collected, Second, Seen, Excused, Twice, Near
<1> QED BY <1>1, <1>3, <1>4, GoesOnKeeps DEF Loops

LEMMA DiscoverKeeps == ASSUME SearchInv, Discover PROVE SearchInv'
<1>1. names' \subseteq Phrases
  BY DEF Discover, Heard
<1>2. stage = "web" /\ stage' = "match" /\ UNCHANGED <<centre, rows, todo, pool, found, matches, reply>>
  BY DEF Discover
<1>3. SearchTypeOK'
  BY <1>1, <1>2 DEF SearchInv, SearchTypeOK, Stages
<1>4. RowsKnown'
  BY <1>2 DEF SearchInv, RowsKnown
<1>5. PoolsKept'
  BY <1>2 DEF SearchInv, PoolsKept, Early, Second
<1>6. Collected'
  BY <1>2 DEF SearchInv, Collected, Second, Seen, Excused, Twice, Near
<1>7. Named' /\ Centred'
  BY <1>2 DEF SearchInv, Named, Centred, NoNameSettlesForLess, DemoIsAnnounced
<1> QED BY <1>3, <1>4, <1>5, <1>6, <1>7 DEF SearchInv

\* The place is the best of those left, so a better one has gone to another name.
LEMMA MatchSettlesForNoLess ==
  ASSUME SearchInv, NEW x \in Phrases, MatchName(x)
  PROVE  Named'
<1>1. stage = "match" /\ x \in names /\ names' = names \ {x} /\ pool' = pool /\ stage' = stage
  BY DEF MatchName
<1>2. CASE matches' = matches
  BY <1>1, <1>2 DEF SearchInv, Named, NoNameSettlesForLess
<1>3. CASE matches' # matches
  <2>1. PICK p \in Likes(x) : /\ \A q \in Likes(x) : Likeness[x][q] <= Likeness[x][p]
                              /\ matches' = matches \union {<<x, p>>}
    BY <1>3 DEF MatchName
  <2>2. \A m \in matches' : (m \in matches /\ m[1] # x) \/ m = <<x, p>>
    BY <1>1, <2>1 DEF SearchInv, Named
  <2>3. \A m \in matches' : m[1] \notin names'
    BY <1>1, <2>2 DEF SearchInv, Named
  <2>4. ASSUME NEW m \in matches', NEW q \in pool, Likeness[m[1]][q] > Likeness[m[1]][m[2]]
        PROVE  \E n \in matches' : n[2] = q /\ n[1] # m[1]
    <3>1. CASE m \in matches
      BY <2>1, <2>4, <3>1 DEF SearchInv, Named, NoNameSettlesForLess
    <3>2. CASE m = <<x, p>>
      <4>1. pool \subseteq Place
        BY DEF SearchInv, SearchTypeOK
      <4>2. Likeness[x][p] \in Int /\ Likeness[x][q] \in Int /\ Likeness[x][p] >= MinScore
        <5>1. p \in pool /\ Likeness[x][p] >= MinScore
          BY <2>1 DEF Likes
        <5>2. Likeness[x] \in [Place -> 0..1000]
          BY PlaceSearchAssumption DEF PlaceSearchAssumption
        <5> QED BY <4>1, <5>1, <5>2
      <4>3. q \notin Likes(x)
        BY <2>1, <2>4, <3>2, <4>2
      <4>4. Likeness[x][q] >= MinScore
        BY <2>4, <3>2, <4>2 DEF MinScore
      <4>5. q \in Matched
        BY <4>3, <4>4 DEF Likes
      <4>6. PICK n \in matches : n[2] = q
        BY <4>5 DEF Matched
      <4>7. n[1] # x
        BY <1>1, <4>6 DEF SearchInv, Named
      <4> QED BY <2>1, <3>2, <4>6, <4>7
    <3> QED BY <2>2, <3>1, <3>2
  <2> QED BY <1>1, <2>3, <2>4 DEF Named, NoNameSettlesForLess
<1> QED BY <1>2, <1>3

LEMMA MatchKeeps ==
  ASSUME SearchInv, NEW x \in Phrases, MatchName(x)
  PROVE  SearchInv'
<1>1. stage = "match" /\ names' = names \ {x} /\ UNCHANGED <<centre, stage, rows, todo, pool, found, reply>>
  BY DEF MatchName
<1>2. matches' \subseteq Phrases \X Place
  <2>1. CASE matches' = matches
    BY <2>1 DEF SearchInv, SearchTypeOK
  <2>2. CASE matches' # matches
    <3>1. PICK p \in Likes(x) : matches' = matches \union {<<x, p>>}
      BY <2>2 DEF MatchName
    <3>2. p \in Place
      BY <3>1 DEF Likes, SearchInv, SearchTypeOK
    <3> QED BY <3>1, <3>2 DEF SearchInv, SearchTypeOK
  <2> QED BY <2>1, <2>2
<1>3. SearchTypeOK'
  BY <1>1, <1>2 DEF SearchInv, SearchTypeOK
<1>4. RowsKnown'
  BY <1>1 DEF SearchInv, RowsKnown
<1>5. PoolsKept'
  BY <1>1 DEF SearchInv, PoolsKept
<1>6. Collected'
  BY <1>1 DEF SearchInv, Collected, Seen, Excused, Twice, Near
<1>7. Centred'
  BY <1>1 DEF SearchInv, Centred, DemoIsAnnounced
<1> QED BY <1>3, <1>4, <1>5, <1>6, <1>7, MatchSettlesForNoLess DEF SearchInv

LEMMA AnswerKeeps == ASSUME SearchInv, AnswerSearch PROVE SearchInv'
<1>1. pool \subseteq Place /\ Sound(pool) /\ centre \in {"unknown", "lost", "nameless", "found"}
        /\ centre' = centre
  BY DEF SearchInv, SearchTypeOK, PoolsKept, AnswerSearch
<1>2. CASE stage = "web" /\ pool = {} /\ Answers(Demo(found = {}))
  <2>1. found = {}
    <3>1. Cardinality(pool) = 0
      BY <1>2, FS_EmptySet
    <3> QED BY <1>2, <3>1, Sizes DEF SearchInv, Collected
  <2>2. Answers(Demo(TRUE))
    BY <1>2, <2>1
  <2> QED BY <1>1, <2>2, AnswersKeep, SoundEmpty DEF Demo
<1>3. CASE /\ stage = "match"
           /\ Answers([kind |-> "real", places |-> pool, first |-> Boosted, warned |-> FALSE])
  <2>1. Boosted \subseteq Place
    BY DEF Boosted, SearchInv, SearchTypeOK
  <2>2. centre # "lost"
    BY <1>3 DEF SearchInv, Centred
  <2> QED BY <1>1, <1>3, <2>1, <2>2, AnswersKeep
<1> QED BY <1>2, <1>3 DEF AnswerSearch

LEMMA SearchInvInit == SearchInit => SearchInv
<1> SUFFICES ASSUME SearchInit PROVE SearchInv
  OBVIOUS
<1>1. SearchTypeOK
  BY DEF SearchInit, SearchTypeOK, NoAnswer, Stages
<1>2. RowsKnown /\ Collected
  BY DEF SearchInit, RowsKnown, Collected, Second
<1>3. PoolsKept
  <2>1. reply.places = {}
    BY DEF SearchInit, NoAnswer
  <2> QED BY <2>1, SoundEmpty DEF SearchInit, PoolsKept, Early, Second
<1>4. Named /\ Centred
  BY DEF SearchInit, Named, Centred, NoNameSettlesForLess, DemoIsAnnounced, NoAnswer
<1> QED BY <1>1, <1>2, <1>3, <1>4 DEF SearchInv

LEMMA NothingKeeps == ASSUME SearchInv, UNCHANGED searchVars PROVE SearchInv'
<1>1. UNCHANGED <<centre, stage, rows, todo, pool, found, names, matches, reply>>
  BY DEF searchVars
<1>2. SearchTypeOK' /\ RowsKnown' /\ PoolsKept'
  BY <1>1 DEF SearchInv, SearchTypeOK, RowsKnown, PoolsKept
<1>3. Collected'
  BY <1>1 DEF SearchInv, Collected, Seen, Excused, Twice, Near
<1>4. Named' /\ Centred'
  BY <1>1 DEF SearchInv, Named, Centred, NoNameSettlesForLess, DemoIsAnnounced
<1> QED BY <1>2, <1>3, <1>4 DEF SearchInv

LEMMA NoAnswerType ==
  \A k \in {"none", "error"} :
    LET a == [NoAnswer EXCEPT !.kind = k]
    IN  /\ a \in [kind : {"none", "real", "demo", "error"}, places : SUBSET Place,
                  first : SUBSET Place, warned : BOOLEAN]
        /\ a.kind = k /\ Sound(a.places)
  BY SoundEmpty DEF NoAnswer

LEMMA SearchInvStep == SearchInv /\ [SearchNext]_searchVars => SearchInv'
<1> SUFFICES ASSUME SearchInv, [SearchNext]_searchVars PROVE SearchInv'
  OBVIOUS
<1>1. CASE StartSearch
  BY <1>1, StartKeeps
<1>2. CASE AskWikidata
  BY <1>2, AskKeeps
<1>3. ASSUME NEW p \in Place, Consider(p) PROVE SearchInv'
  BY <1>3, ConsiderKeeps
<1>4. CASE EndPack \/ EndStrict \/ EndSoft \/ EndRelaxed \/ EndMerge \/ EndAgain
  BY <1>4, EndPackKeeps, EndStrictKeeps, EndSoftKeeps, EndRelaxedKeeps, EndMergeKeeps, EndAgainKeeps
<1>5. CASE Discover
  BY <1>5, DiscoverKeeps
<1>6. ASSUME NEW x \in Phrases, MatchName(x) PROVE SearchInv'
  BY <1>6, MatchKeeps
<1>7. CASE AnswerSearch
  BY <1>7, AnswerKeeps
<1>8. CASE Goes("begun", "asking") \/ Goes("begun", "reading") \/ Goes("reading", "opening")
  BY <1>8, GoesKeeps
<1>9. CASE ReadsRows("reading", {})
  BY <1>9, ReadsKeeps
<1>10. ASSUME NEW S \in SUBSET {p \in Place : Indexable(p)}, ReadsRows("opening", S) PROVE SearchInv'
  BY <1>10, ReadsKeeps
<1>11. CASE ReadFails
  <2>1. Answers([NoAnswer EXCEPT !.kind = "error"]) /\ centre' = centre /\ stage = "opening"
    BY <1>11 DEF ReadFails
  <2>2. centre \in {"unknown", "lost", "nameless", "found"} /\ centre # "lost"
    BY <2>1 DEF SearchInv, SearchTypeOK, Centred
  <2> QED BY <2>1, <2>2, AnswersKeep, NoAnswerType
<1>12. CASE Answers(NoAnswer) /\ centre' = "unknown"
  <2>1. NoAnswer = [NoAnswer EXCEPT !.kind = "none"]
    BY DEF NoAnswer
  <2> QED BY <1>12, <2>1, AnswersKeep, NoAnswerType
<1>13. CASE UNCHANGED searchVars
  BY <1>13, NothingKeeps
<1>14. CASE DiscoverFails
  <2>1. Answers([NoAnswer EXCEPT !.kind = "error"]) /\ centre' = centre /\ stage = "web"
    BY <1>14 DEF DiscoverFails
  <2>2. centre \in {"unknown", "lost", "nameless", "found"} /\ centre # "lost"
    BY <2>1 DEF SearchInv, SearchTypeOK, Centred
  <2> QED BY <2>1, <2>2, AnswersKeep, NoAnswerType
<1> QED BY <1>1, <1>2, <1>3, <1>4, <1>5, <1>6, <1>7, <1>8, <1>9, <1>10, <1>11, <1>12, <1>13, <1>14
        DEF SearchNext, SearchStep

LEMMA SearchInvHolds ==
  SearchInv => PoolIsSound /\ PoolIsMaximal /\ NoNameSettlesForLess /\ DemoIsAnnounced
<1> SUFFICES ASSUME SearchInv PROVE PoolIsSound /\ PoolIsMaximal /\ NoNameSettlesForLess /\ DemoIsAnnounced
  OBVIOUS
<1>1. PoolIsSound /\ NoNameSettlesForLess /\ DemoIsAnnounced
  BY DEF SearchInv, PoolsKept, Named, Centred, PoolIsSound
<1>2. PoolIsMaximal
  <2> SUFFICES ASSUME stage \in {"web", "match"}, NEW p \in rows \ pool,
                      ~(Cardinality(pool) >= PoolCap)
               PROVE  \/ ~PoolAccepts(p) \/ p \notin Inside
                      \/ Cardinality(found) >= PackCap
                      \/ \E q \in pool : SameSpotOrName(p, q)
                      \/ /\ \E q \in pool : {p, q} \in Alike
                         /\ p \in Wiki => Cardinality(pool) >= Target
                      \/ p \in Wiki /\ ~Strict(p) /\ Cardinality(pool) >= Target
    BY DEF PoolIsMaximal
  <2>1. found = pool
    BY DEF SearchInv, PoolsKept, Collected, Second
  <2>2. Excused(p, pool)
    BY <2>1 DEF SearchInv, Collected, Second
  <2> QED BY <2>1, <2>2 DEF Excused, Serves, Twice, Near
<1> QED BY <1>1, <1>2

LEMMA SearchInvAlways == SearchSpec => []SearchInv
<1> QED BY SearchInvInit, SearchInvStep, PTL DEF SearchSpec

(***************************************************************************)
(* The pack of the city.                                                   *)
(***************************************************************************)

\* The index knows only what belongs there, and one that is not whole has
\* a writer, a dead one or a reader to answer for it.
IndexKnown ==
    /\ poi.rows \in {{}, Indexed}
    /\ poi.table # "none" =>
         \/ poi.rows = Indexed
         \/ poi.by \in {"dead", "reader"}
         \/ poi.by \in Runners /\ run[poi.by] \in {"tables", "fill"}

PacksInv == PacksTypeOK /\ SearchInv /\ IndexKnown /\ InFlightHasJob

LEMMA PacksInvInit == PacksInit => PacksInv
<1> SUFFICES ASSUME PacksInit PROVE PacksInv
  OBVIOUS
<1>1. SearchInv
  BY SearchInvInit DEF PacksInit
<1>2. PacksTypeOK
  <2>1. SearchTypeOK
    BY <1>1 DEF SearchInv
  <2>2. NoFile \in [there : BOOLEAN, whole : BOOLEAN, by : Writers]
    BY DEF NoFile, Writers
  <2>3. NoIndex \in [table : {"none", "bare", "made"}, rows : SUBSET Place, by : Writers]
    BY DEF NoIndex, Writers
  <2>4. run \in [Runners -> Steps]
    BY DEF PacksInit, Runners, Steps
  <2>5. deaths \in 0..MaxDeaths
    BY CityPacksAssumption DEF PacksInit, CityPacksAssumption
  <2> QED BY <2>1, <2>2, <2>3, <2>4, <2>5 DEF PacksInit, PacksTypeOK
<1>3. IndexKnown /\ InFlightHasJob
  BY DEF PacksInit, IndexKnown, InFlightHasJob, NoIndex
<1> QED BY <1>1, <1>2, <1>3 DEF PacksInv

\* Each step of the packs is one of the search or leaves it alone.
LEMMA PacksStepSearches ==
  ASSUME PacksInv, [PacksNext]_packsVars
  PROVE  [SearchNext]_searchVars
<1>1. CASE Search
  BY <1>1 DEF Search, SearchNext
<1>2. CASE SearchWithoutPack \/ SearchSeesPack \/ EnsurePack
  BY <1>2 DEF SearchWithoutPack, SearchSeesPack, EnsurePack, SearchNext
<1>3. CASE SearchLooksAgain
  BY <1>3, Zenon DEF SearchLooksAgain, SearchNext
<1>4. CASE SearchOpens
  <2>1. poi.rows \in SUBSET {p \in Place : Indexable(p)}
    BY DEF PacksInv, IndexKnown, Indexed
  <2>2. CASE ReadsRows("opening", poi.rows)
    BY <2>1, <2>2 DEF SearchNext
  <2>3. CASE ReadFails
    BY <2>3 DEF SearchNext
  <2> QED BY <1>4, <2>2, <2>3, Zenon DEF SearchOpens
<1>5. ASSUME NEW r \in Runners, ScriptStep(r) PROVE UNCHANGED searchVars
  BY <1>5 DEF ScriptStep
<1>6. CASE PopJob \/ EndJob \/ StartRefresh \/ EndRefresh
  BY <1>6 DEF PopJob, EndJob, StartRefresh, EndRefresh
<1>7. CASE WorkerDies
  BY <1>7 DEF WorkerDies, SearchNext
<1>8. CASE UNCHANGED packsVars
  BY <1>8 DEF packsVars
<1> QED BY <1>1, <1>2, <1>3, <1>4, <1>5, <1>6, <1>7, <1>8 DEF PacksNext

FileType == [there : BOOLEAN, whole : BOOLEAN, by : Writers]
IndexType == [table : {"none", "bare", "made"}, rows : SUBSET Place, by : Writers]

FilesTypeOK ==
    /\ partial \in FileType /\ extract \in FileType
    /\ poi \in IndexType
    /\ meta \in BOOLEAN /\ inFlight \in BOOLEAN
    /\ status \in {"queued", "building", "ready", "failed"}
    /\ queued \in Nat
    /\ run \in [Runners -> Steps]
    /\ deaths \in 0..MaxDeaths

LEMMA FilesTypes == PacksTypeOK <=> SearchTypeOK /\ FilesTypeOK
  BY DEF PacksTypeOK, FilesTypeOK, FileType, IndexType

\* What a step of the script keeps, of the files and of who is where.
ScriptKeeps(r) ==
    /\ FilesTypeOK'
    /\ IndexKnown'
    /\ \E s \in Steps \ {"off"} : run' = [run EXCEPT ![r] = s]

LEMMA FileBy ==
  ASSUME NEW r \in Runners, NEW f \in FileType, NEW ok \in BOOLEAN
  PROVE  Closed(f, r, ok) \in FileType
  BY DEF Closed, FileType, Writers, Runners

LEMMA NoFiles == NoFile \in FileType /\ NoIndex \in IndexType
  BY DEF NoFile, NoIndex, FileType, IndexType, Writers

\* The steps that leave the index alone.
LEMMA IndexLeftAlone ==
  ASSUME FilesTypeOK, IndexKnown, NEW r \in Runners, NEW s \in Steps,
         run[r] \notin {"tables", "fill"}, poi' = poi, run' = [run EXCEPT ![r] = s]
  PROVE  IndexKnown' /\ run' \in [Runners -> Steps]
<1>1. \A q \in Runners : run'[q] = IF q = r THEN s ELSE run[q]
  BY DEF FilesTypeOK
<1>2. run' \in [Runners -> Steps]
  BY DEF FilesTypeOK
<1> QED BY <1>1, <1>2 DEF IndexKnown, Indexed

LEMMA QuietSteps ==
  ASSUME FilesTypeOK, IndexKnown, NEW r \in Runners, ScriptStep(r),
         Locate(r) \/ CheckExtract(r) \/ StartCut(r) \/ Cut(r) \/ Verify(r) \/ Move(r) \/ StartIndex(r)
           \/ WriteMeta(r) \/ Finish(r)
  PROVE  ScriptKeeps(r)
<1> USE DEF At, To, Steps
<1>1. run[r] \notin {"tables", "fill"} /\ poi' = poi
  BY DEF Locate, CheckExtract, StartCut, Cut, Verify, Move, StartIndex, WriteMeta, Finish
<1>2. \E s \in Steps \ {"off"} : run' = [run EXCEPT ![r] = s]
  BY DEF Locate, CheckExtract, StartCut, Cut, Verify, Move, StartIndex, WriteMeta, Finish
<1>3. partial' \in FileType /\ extract' \in FileType
  <2>1. CASE Locate(r) \/ CheckExtract(r) \/ StartIndex(r) \/ WriteMeta(r) \/ Finish(r)
    BY <2>1 DEF FilesTypeOK, Locate, CheckExtract, StartIndex, WriteMeta, Finish
  <2>2. CASE StartCut(r)
    <3>1. [there |-> TRUE, whole |-> FALSE, by |-> r] \in FileType
      BY DEF FileType, Writers
    <3> QED BY <2>2, <3>1, NoFiles DEF StartCut
  <2>3. CASE Cut(r)
    BY <2>3, FileBy DEF Cut, FilesTypeOK
  <2>4. CASE Verify(r) \/ Move(r)
    BY <2>4, NoFiles DEF Verify, Move, FilesTypeOK
  <2> QED BY <2>1, <2>2, <2>3, <2>4
<1>4. meta' \in BOOLEAN
  BY DEF FilesTypeOK, Locate, CheckExtract, StartCut, Cut, Verify, Move, StartIndex, WriteMeta, Finish
<1>5. PICK s \in Steps \ {"off"} : run' = [run EXCEPT ![r] = s]
  BY <1>2
<1>6. IndexKnown' /\ run' \in [Runners -> Steps]
  BY <1>1, <1>5, IndexLeftAlone
<1>7. FilesTypeOK'
  BY <1>1, <1>3, <1>4, <1>6 DEF FilesTypeOK, ScriptStep
<1> QED BY <1>2, <1>6, <1>7 DEF ScriptKeeps

\* The steps on the index itself: the other runner is not its writer when this one is.
LEMMA IndexSteps ==
  ASSUME FilesTypeOK, IndexKnown, NEW r \in Runners, ScriptStep(r), Scan(r) \/ MakeTables(r) \/ Fill(r)
  PROVE  ScriptKeeps(r)
<1> USE DEF At, To
<1>1. PICK s \in Steps \ {"off"} : run' = [run EXCEPT ![r] = s]
  BY DEF Scan, MakeTables, Fill, Steps
<1>2. run' \in [Runners -> Steps] /\ \A q \in Runners : run'[q] = IF q = r THEN s ELSE run[q]
  BY <1>1 DEF FilesTypeOK
<1>3. UNCHANGED <<partial, extract, meta, status, inFlight, queued, deaths>>
  BY DEF Scan, MakeTables, Fill, ScriptStep
<1>4. Indexed \subseteq Place /\ poi \in IndexType /\ r \in Writers /\ {"dead", "nobody"} \subseteq Writers
        /\ r \notin {"dead", "nobody", "reader"}
  BY DEF Indexed, FilesTypeOK, Writers, Runners
<1>5. CASE Scan(r)
  <2>1. CASE poi' = poi
    <3>1. run[r] \notin {"tables", "fill"}
      BY <1>5 DEF Scan
    <3>2. IndexKnown'
      BY <1>1, <2>1, <3>1, IndexLeftAlone
    <3> QED BY <1>1, <1>2, <1>3, <2>1, <3>2 DEF FilesTypeOK, ScriptKeeps
  <2>2. CASE poi' # poi
    <3>1. poi' = [table |-> "bare", rows |-> {}, by |-> r] /\ run'[r] = "tables"
      BY <1>2, <1>5, <2>2 DEF Scan, FilesTypeOK
    <3>2. poi' \in IndexType /\ poi'.rows = {} /\ poi'.by = r
      BY <1>4, <3>1 DEF IndexType
    <3>3. IndexKnown'
      BY <3>1, <3>2 DEF IndexKnown
    <3> QED BY <1>1, <1>2, <1>3, <3>2, <3>3 DEF FilesTypeOK, ScriptKeeps
  <2> QED BY <2>1, <2>2
<1>6. CASE MakeTables(r)
  <2>1. CASE poi.by = r /\ poi' = [poi EXCEPT !.table = "made"] /\ run'[r] = "fill"
    <3>1. poi' \in IndexType /\ poi'.rows = poi.rows /\ poi'.by = r
      BY <1>4, <2>1 DEF IndexType
    <3>2. IndexKnown'
      BY <2>1, <3>1 DEF IndexKnown, Indexed
    <3> QED BY <1>1, <1>2, <1>3, <3>1, <3>2 DEF FilesTypeOK, ScriptKeeps
  <2>2. CASE poi' = Leaves(poi, r)
    <3>1. poi' \in IndexType /\ poi'.rows = poi.rows /\ poi'.table = poi.table
            /\ poi'.by = IF poi.by = r THEN "dead" ELSE poi.by
      BY <1>4, <2>2 DEF IndexType, Leaves
    <3>2. IndexKnown'
      BY <1>2, <3>1 DEF IndexKnown, Indexed
    <3> QED BY <1>1, <1>2, <1>3, <3>1, <3>2 DEF FilesTypeOK, ScriptKeeps
  <2> QED BY <1>2, <1>6, <2>1, <2>2 DEF MakeTables, FilesTypeOK
<1>7. CASE Fill(r)
  <2>1. CASE poi.by = r /\ poi' = [poi EXCEPT !.rows = Indexed, !.by = "nobody"]
    <3>1. poi' \in IndexType /\ poi'.rows = Indexed
      BY <1>4, <2>1 DEF IndexType
    <3>2. IndexKnown'
      BY <3>1 DEF IndexKnown, Indexed
    <3> QED BY <1>1, <1>2, <1>3, <3>1, <3>2 DEF FilesTypeOK, ScriptKeeps
  <2>2. CASE poi' = poi /\ poi.by # r
    <3>1. IndexKnown'
      BY <1>2, <2>2 DEF IndexKnown, Indexed
    <3> QED BY <1>1, <1>2, <1>3, <2>2, <3>1 DEF FilesTypeOK, ScriptKeeps
  <2>3. CASE poi' = Leaves(poi, r)
    <3>1. poi' \in IndexType /\ poi'.rows = poi.rows /\ poi'.table = poi.table
            /\ poi'.by = IF poi.by = r THEN "dead" ELSE poi.by
      BY <1>4, <2>3 DEF IndexType, Leaves
    <3>2. IndexKnown'
      BY <1>2, <3>1 DEF IndexKnown, Indexed
    <3> QED BY <1>1, <1>2, <1>3, <3>1, <3>2 DEF FilesTypeOK, ScriptKeeps
  <2> QED BY <1>7, <2>1, <2>2, <2>3 DEF Fill
<1> QED BY <1>5, <1>6, <1>7

\* A step that does not touch the files, but may open the index or ask for a pack.
LEMMA SearchActs ==
  ASSUME FilesTypeOK, IndexKnown, InFlightHasJob,
         Search \/ SearchWithoutPack \/ SearchSeesPack \/ EnsurePack \/ SearchLooksAgain \/ SearchOpens
  PROVE  FilesTypeOK' /\ IndexKnown' /\ InFlightHasJob'
<1>1. CASE UNCHANGED fileVars
  BY <1>1 DEF fileVars, FilesTypeOK, IndexKnown, Indexed, InFlightHasJob
<1>2. CASE EnsurePack
  <2>1. UNCHANGED <<partial, extract, poi, meta, run, deaths>>
    BY <1>2 DEF EnsurePack
  <2>2. \/ UNCHANGED <<inFlight, queued, status>>
        \/ inFlight' = TRUE /\ status' = "queued" /\ queued' = queued + 1
        \/ status' \in {status, "queued"} /\ UNCHANGED <<inFlight, queued>>
    BY <1>2, Zenon DEF EnsurePack
  <2>3. queued' \in Nat /\ status' \in {"queued", "building", "ready", "failed"}
    BY <2>2 DEF FilesTypeOK
  <2>4. inFlight' \in BOOLEAN
    BY <2>2, Zenon DEF FilesTypeOK
  <2>5. ASSUME UNCHANGED <<inFlight, queued>> PROVE InFlightHasJob'
    <3>1. inFlight' = inFlight /\ queued' = queued /\ run' = run
      BY <2>1, <2>5
    <3> QED BY <3>1, Zenon DEF InFlightHasJob
  <2>6. ASSUME queued' = queued + 1 PROVE InFlightHasJob'
    <3>1. queued' > 0
      BY <2>6 DEF FilesTypeOK
    <3> QED BY <3>1, Zenon DEF InFlightHasJob
  <2>7. InFlightHasJob'
    BY <2>2, <2>5, <2>6
  <2> QED BY <2>1, <2>3, <2>4, <2>7 DEF FilesTypeOK, IndexKnown, Indexed
<1>3. CASE SearchOpens
  <2>1. UNCHANGED <<partial, extract, meta, status, inFlight, queued, run, deaths>>
    BY <1>3 DEF SearchOpens
  <2>2. CASE poi' = poi
    BY <2>1, <2>2 DEF FilesTypeOK, IndexKnown, Indexed, InFlightHasJob
  <2>3. CASE poi' = [table |-> "bare", rows |-> {}, by |-> "reader"]
    <3>1. poi' \in IndexType /\ poi'.rows = {} /\ poi'.by = "reader"
      BY <2>3 DEF IndexType, Writers
    <3> QED BY <2>1, <3>1 DEF FilesTypeOK, IndexKnown, InFlightHasJob
  <2> QED BY <1>3, <2>2, <2>3 DEF SearchOpens
<1>4. Search \/ SearchWithoutPack \/ SearchSeesPack \/ SearchLooksAgain => UNCHANGED fileVars
  BY DEF Search, SearchWithoutPack, SearchSeesPack, SearchLooksAgain
<1> QED BY <1>1, <1>2, <1>3, <1>4

LEMMA ScriptActs ==
  ASSUME FilesTypeOK, IndexKnown, InFlightHasJob, NEW r \in Runners, ScriptStep(r)
  PROVE  FilesTypeOK' /\ IndexKnown' /\ InFlightHasJob'
<1>1. ScriptKeeps(r)
  BY QuietSteps, IndexSteps DEF ScriptStep
<1>2. PICK s \in Steps \ {"off"} : run' = [run EXCEPT ![r] = s]
  BY <1>1 DEF ScriptKeeps
<1>3. run["job"] # "off" => run'["job"] # "off"
  BY <1>2 DEF FilesTypeOK, Runners
<1>4. UNCHANGED <<inFlight, queued>>
  BY DEF ScriptStep
<1> QED BY <1>1, <1>3, <1>4 DEF ScriptKeeps, InFlightHasJob

LEMMA JobActs ==
  ASSUME FilesTypeOK, IndexKnown, InFlightHasJob, PopJob \/ EndJob \/ StartRefresh
  PROVE  FilesTypeOK' /\ IndexKnown' /\ InFlightHasJob'
<1> USE DEF At, To, Runners
<1>1. UNCHANGED <<partial, extract, poi, meta, deaths>>
  BY DEF PopJob, EndJob, StartRefresh
<1>2. PICK r \in Runners, s \in Steps : run[r] \notin {"tables", "fill"} /\ run' = [run EXCEPT ![r] = s]
  <2>1. CASE PopJob
    BY <2>1 DEF PopJob, WorkerFree, Steps
  <2>2. CASE EndJob
    BY <2>2 DEF EndJob, Steps
  <2>3. CASE StartRefresh
    BY <2>3 DEF StartRefresh, Steps
  <2> QED BY <2>1, <2>2, <2>3
<1>3. IndexKnown' /\ run' \in [Runners -> Steps]
  BY <1>1, <1>2, IndexLeftAlone
<1>4. queued' \in Nat /\ status' \in {"queued", "building", "ready", "failed"}
  BY DEF FilesTypeOK, PopJob, EndJob, StartRefresh
<1>5. inFlight' \in BOOLEAN
  BY Zenon DEF FilesTypeOK, PopJob, EndJob, StartRefresh
<1>6. InFlightHasJob'
  <2>1. CASE PopJob
    BY <2>1 DEF PopJob, FilesTypeOK, InFlightHasJob
  <2>2. CASE EndJob
    BY <2>2 DEF EndJob, InFlightHasJob
  <2>3. CASE StartRefresh
    BY <2>3 DEF StartRefresh, FilesTypeOK, InFlightHasJob
  <2> QED BY <2>1, <2>2, <2>3
<1> QED BY <1>1, <1>3, <1>4, <1>5, <1>6 DEF FilesTypeOK

\* What _cleanup_failed_pack takes away it takes away whole.
LEMMA RefreshEnds ==
  ASSUME FilesTypeOK, IndexKnown, InFlightHasJob, EndRefresh
  PROVE  FilesTypeOK' /\ IndexKnown' /\ InFlightHasJob'
<1> USE DEF At, To, Runners
<1>1. UNCHANGED <<meta, inFlight, queued, deaths>> /\ run' = [run EXCEPT !["refresh"] = "off"]
        /\ run["refresh"] \notin {"tables", "fill"}
  BY DEF EndRefresh
<1>2. /\ partial' \in {partial, NoFile} /\ extract' \in {extract, NoFile} /\ poi' \in {poi, NoIndex}
      /\ status' \in {status, "ready"}
  BY DEF EndRefresh
<1>3. IndexKnown' /\ run' \in [Runners -> Steps]
  <2>1. run' \in [Runners -> Steps]
    BY <1>1 DEF FilesTypeOK, Steps
  <2>2. CASE poi' = poi
    BY <1>1, <2>2, IndexLeftAlone DEF Steps
  <2>3. CASE poi' = NoIndex
    <3>1. poi'.table = "none" /\ poi'.rows = {}
      BY <2>3 DEF NoIndex
    <3> QED BY <2>1, <3>1 DEF IndexKnown
  <2> QED BY <1>2, <2>1, <2>2, <2>3
<1>4. run'["job"] = run["job"]
  BY <1>1 DEF FilesTypeOK
<1> QED BY <1>1, <1>2, <1>3, <1>4, NoFiles DEF FilesTypeOK, InFlightHasJob

LEMMA DeathActs ==
  ASSUME FilesTypeOK, IndexKnown, WorkerDies
  PROVE  FilesTypeOK' /\ IndexKnown' /\ InFlightHasJob'
<1> DEFINE dies(f) == IF f.by \in Runners THEN [f EXCEPT !.by = "dead"] ELSE f
<1>1. /\ partial' = dies(partial) /\ extract' = dies(extract) /\ poi' = dies(poi)
      /\ run' = [r \in Runners |-> "off"] /\ inFlight' = FALSE /\ deaths' = deaths + 1
      /\ deaths < MaxDeaths /\ UNCHANGED <<meta, status, queued>>
  BY DEF WorkerDies
<1>2. \A f \in FileType : dies(f) \in FileType
  BY DEF FileType, Writers
<1>3. poi' \in IndexType /\ poi'.rows = poi.rows /\ poi'.table = poi.table
        /\ poi'.by = IF poi.by \in Runners THEN "dead" ELSE poi.by
  BY <1>1 DEF FilesTypeOK, IndexType, Writers
<1>4. IndexKnown'
  BY <1>3 DEF IndexKnown, Indexed
<1>5. deaths' \in 0..MaxDeaths
  BY <1>1, CityPacksAssumption DEF FilesTypeOK, CityPacksAssumption
<1>6. run' \in [Runners -> Steps]
  BY <1>1 DEF Steps
<1>7. partial' \in FileType /\ extract' \in FileType
  BY <1>1, <1>2 DEF FilesTypeOK
<1> HIDE DEF dies
<1> QED BY <1>1, <1>3, <1>4, <1>5, <1>6, <1>7 DEF FilesTypeOK, InFlightHasJob

LEMMA PacksInvStep == PacksInv /\ [PacksNext]_packsVars => PacksInv'
<1> SUFFICES ASSUME PacksInv, [PacksNext]_packsVars PROVE PacksInv'
  OBVIOUS
<1>1. SearchInv'
  BY PacksStepSearches, SearchInvStep DEF PacksInv
<1>2. FilesTypeOK /\ IndexKnown /\ InFlightHasJob
  BY FilesTypes DEF PacksInv
<1>3. FilesTypeOK' /\ IndexKnown' /\ InFlightHasJob'
  <2>1. CASE UNCHANGED packsVars
    BY <1>2, <2>1 DEF packsVars, fileVars, FilesTypeOK, IndexKnown, Indexed, InFlightHasJob
  <2>2. CASE PacksNext
    BY <1>2, <2>2, SearchActs, ScriptActs, JobActs, RefreshEnds, DeathActs DEF PacksNext
  <2> QED BY <2>1, <2>2
<1>4. PacksTypeOK'
  BY <1>1, <1>3 DEF SearchInv, PacksTypeOK, FilesTypeOK, FileType, IndexType
<1> QED BY <1>1, <1>3, <1>4 DEF PacksInv

LEMMA PacksInvAlways == PacksSpec => []PacksInv
<1> QED BY PacksInvInit, PacksInvStep, PTL DEF PacksSpec

(***************************************************************************)
(* The theorems.                                                           *)
(***************************************************************************)

\* The variables of the packs and of the search in them keep their types.
THEOREM PacksTypes == PacksSpec => []PacksTypeOK
<1>1. PacksInv => PacksTypeOK
  BY DEF PacksInv
<1> QED BY <1>1, PacksInvAlways, PTL

\* The worker with its packs runs a search of PlaceSearch: whatever the scripts
\* do to the index, a search sees no more than an index that holds some of the
\* places that belong there, is gone, or cannot be read.
THEOREM PacksSearch == PacksSpec => SearchSpec
<1>1. PacksInit => SearchInit
  BY DEF PacksInit
<1>2. PacksInv /\ [PacksNext]_packsVars => [SearchNext]_searchVars
  BY PacksStepSearches
<1> QED BY <1>1, <1>2, PacksInvAlways, PTL DEF PacksSpec, SearchSpec

LEMMA SearchInvInPacks == PacksSpec => []SearchInv
<1> QED BY PacksSearch, SearchInvAlways, PTL

\* A pool, and the answer made of it, has no place twice and no address or hub,
\* and near namesakes only of Wikidata, while it is small (merge_poi_pools).
THEOREM PoolsAreSound == PacksSpec => []PoolIsSound
<1> QED BY SearchInvInPacks, SearchInvHolds, PTL

\* No place is left out of a pool without a reason, although the pool of the
\* source is thrown away and collected again (merge_poi_pools).
THEOREM PoolsAreMaximal == PacksSpec => []PoolIsMaximal
<1> QED BY SearchInvInPacks, SearchInvHolds, PTL

\* A name gets the place it is most like, of those that no other name has
\* (match_landmarks_to_osm).
THEOREM NamesGetTheirBest == PacksSpec => []NoNameSettlesForLess
<1> QED BY SearchInvInPacks, SearchInvHolds, PTL

\* Demo points are announced, unless the centre is lost (leisure_search.py).
THEOREM DemosAreAnnounced == PacksSpec => []DemoIsAnnounced
<1> QED BY SearchInvInPacks, SearchInvHolds, PTL

\* An index that can be searched is whole, being written, or one that a dead
\* script or a reader has left behind (write_poi_sqlite).
THEOREM ReadyPacksAreWhole == PacksSpec => []ReadyPackIsWhole
<1>1. PacksInv => ReadyPackIsWhole
  BY DEF PacksInv, IndexKnown, ReadyPackIsWhole, PackReady
<1> QED BY <1>1, PacksInvAlways, PTL

\* The mark _PREPARE_IN_FLIGHT always has a job that will take it away.
THEOREM MarksHaveJobs == PacksSpec => []InFlightHasJob
<1>1. PacksInv => InFlightHasJob
  BY DEF PacksInv
<1> QED BY <1>1, PacksInvAlways, PTL

=============================================================================
