------------------------------ MODULE Previews ------------------------------
(***************************************************************************)
(* How a score file becomes a preview: the panel it is chosen in           *)
(* (src/src/components/score-import.tsx), the two workers files are read   *)
(* by (features/score/isolated-parser.ts) and what such a worker makes of  *)
(* the rows (normalizeRows, features/score/parser.ts).  What the server    *)
(* keeps of a preview is in ScoreImports.                                  *)
(*                                                                         *)
(* What the lines of a file are comes out as they are read; any file may   *)
(* turn out to be any, for nothing here depends on it.  Two columns are    *)
(* mapped to what names a driver, or ignored; of the other cells matters   *)
(* whether there are any and whether week and numbers are right.           *)
(***************************************************************************)
EXTENDS Values, Naturals, Sequences, FiniteSets

CONSTANTS
    Crew,           \* driver profiles
    Texts,          \* e-mail addresses, case left aside, and transporter ids
    Uploads,        \* requests to read a file, of the panel and of others
    Books, Weeks, Sheets, Mappings,
    MaxHeader,      \* bound on header rows
    MaxLines        \* bound on rows below the header

(* The drivers of an organisation are finitely many.                       *)
ASSUME PreviewsAssumption ==
    IsFiniteSet(Crew) /\ Nil \notin {"inspect", "preview", "history", "change"}

VARIABLES
    address, code,  \* e-mail and transporter id of each driver
    reader,         \* requests and how far their workers have come
    active,         \* the count of workers
    chosen,         \* what the panel shows as chosen
    book, draft,    \* the answers it shows
    confirmed,      \* whether a replacement is confirmed
    busy, sent      \* what the panel waits for, asked by which upload and with
                    \* which choices

previews == <<address, code, reader, active, chosen, book, draft, confirmed, busy, sent>>

NoReader == [phase |-> "free"]
NoChoice == [book |-> Nil, week |-> Nil, header |-> 1, sheet |-> Nil, mapping |-> Nil]
NoUpload == [by |-> Nil, with |-> NoChoice]

Line == [cells : [{1, 2} -> Texts \cup {Nil}], rest : {"blank", "fits", "wrong"}]
Mapped == [{1, 2} -> {"email", "transporterId", "ignore"}]

-----------------------------------------------------------------------------
(* The worker.                                                             *)

(* No two columns are mapped to the same.                                  *)
Readable(fields) == fields[1] = fields[2] => fields[1] = "ignore"

Blank(line) == line.rest = "blank" /\ \A j \in {1, 2} : line.cells[j] = Nil

(* The cell of the column mapped to a field, if there is one.              *)
Cell(fields, line, field) ==
    IF \E j \in {1, 2} : fields[j] = field
    THEN line.cells[CHOOSE j \in {1, 2} : fields[j] = field] ELSE Nil

(* Mutant: a driver found by one of the two is not held against the other. *)
Identified_Either(email, id) ==
    LET matches == {d \in Crew : email # Nil /\ address[d] = email}
                   \cup {d \in Crew : id # Nil /\ code[d] = id}
    IN  IF Cardinality(matches) = 1 THEN matches ELSE {}

(* The driver of a line: the only one e-mail or transporter id lead to,    *)
(* and both of them if both are given; none for a line without.            *)
Identified(email, id) ==
    LET matches == {d \in Crew : email # Nil /\ address[d] = email}
                   \cup {d \in Crew : id # Nil /\ code[d] = id}
    IN  IF Cardinality(matches) = 1
        THEN {d \in matches : /\ email # Nil => address[d] = email
                              /\ id # Nil => code[d] = id}
        ELSE {}

(* One line.  A driver has been seen even if the line turns out wrong.     *)
AfterLine(r, line) ==
    LET driver == Identified(Cell(r.fields, line, "email"), Cell(r.fields, line, "transporterId"))
        next   == [r EXCEPT !.lines = Append(@, line)]
        n      == Len(next.lines)
    IN  CASE Blank(line) -> next
          [] ~ Blank(line) /\ driver \subseteq r.seen -> [next EXCEPT !.errors = @ \cup {n}]
          [] OTHER -> IF line.rest = "wrong"
                      THEN [next EXCEPT !.seen = @ \cup driver, !.errors = @ \cup {n}]
                      ELSE [next EXCEPT !.seen = @ \cup driver, !.rows = @ \cup {<<n, d>> : d \in driver}]

ReadLine(u) ==
    /\ reader[u].phase = "reading" /\ ~ reader[u].inspect /\ Readable(reader[u].fields)
    /\ Len(reader[u].lines) < MaxLines
    /\ \E line \in Line : reader' = [reader EXCEPT ![u] = AfterLine(@, line)]
    /\ UNCHANGED <<address, code, active, chosen, book, draft, confirmed, busy, sent>>

-----------------------------------------------------------------------------
(* The pool.                                                               *)

(* The panel's request arrives, or an upload of somebody else.             *)
Upload(u) ==
    /\ reader[u] = NoReader /\ active < 2
    /\ active' = active + 1
    /\ \E fields \in Mapped :
         reader' = [reader EXCEPT ![u] =
             [phase |-> "reading", inspect |-> sent.by = u /\ busy = "inspect",
              fields |-> fields, lines |-> <<>>, seen |-> {}, rows |-> {}, errors |-> {}]]
    /\ UNCHANGED <<address, code, chosen, book, draft, confirmed, busy, sent>>

(* The first to come of message, time limit, exit and error settles the    *)
(* request, and its slot is free.                                          *)
Settle(u, outcome) ==
    /\ reader[u].phase = "reading"
    /\ active' = active - 1
    /\ reader' = [reader EXCEPT ![u] = IF u = sent.by THEN [@ EXCEPT !.phase = outcome] ELSE NoReader]
    /\ UNCHANGED <<address, code, chosen, book, draft, confirmed, busy, sent>>

WorkerAnswers(u) ==
    /\ reader[u].phase = "reading"
    /\ reader[u].inspect \/ Readable(reader[u].fields)
    /\ Settle(u, "read")

(* The file, its columns or its mapping are refused, or it takes too long. *)
WorkerBreaks(u) == Settle(u, "refused")

-----------------------------------------------------------------------------
(* The panel.                                                              *)
Idle == busy = Nil

Invalidate == draft' = Nil /\ confirmed' = FALSE

Choose(choice) ==
    /\ Idle /\ chosen' = choice
    /\ Invalidate
    /\ UNCHANGED <<address, code, reader, active, busy, sent>>

ChooseFile ==
    \E b \in Books \ {chosen.book} :
        /\ Choose([NoChoice EXCEPT !.book = b, !.week = chosen.week])
        /\ book' = Nil

ChooseWeek ==
    \E w \in Weeks \ {chosen.week} : Choose([chosen EXCEPT !.week = w]) /\ UNCHANGED book

ChooseHeader ==
    \E n \in 1..MaxHeader \ {chosen.header} :
        /\ Choose([chosen EXCEPT !.header = n, !.mapping = Nil])
        /\ book' = Nil

ChooseSheet ==
    /\ book # Nil
    /\ \E s \in Sheets \ {chosen.sheet} : Choose([chosen EXCEPT !.sheet = s, !.mapping = Nil])
    /\ UNCHANGED book

(* The columns are offered as they were found in this sheet.               *)
Mappable == book # Nil /\ book.sheet = chosen.sheet /\ book.mapping # Nil

(* A column is mapped otherwise, or all of them as in an earlier import.   *)
ChooseMapping ==
    /\ Mappable
    /\ \E m \in Mappings : Choose([chosen EXCEPT !.mapping = m])
    /\ UNCHANGED book

(* The panel is closed and opened again, even while it waits: a new form   *)
(* is without file and week, all else is as it was.                        *)
Reopen ==
    /\ chosen' = [chosen EXCEPT !.book = Nil, !.week = Nil]
    /\ UNCHANGED <<address, code, reader, active, book, draft, confirmed, busy, sent>>

AskPreview(what) ==
    /\ Idle /\ chosen.book # Nil /\ chosen.week # Nil
    /\ what = "preview" => Mappable
    /\ busy' = what
    /\ \E u \in Uploads : reader[u] = NoReader /\ sent' = [by |-> u, with |-> chosen]
    /\ Invalidate
    /\ UNCHANGED <<address, code, reader, active, chosen, book>>

Asking == busy \in {"inspect", "preview"}

(* The panel has its answer.                                               *)
Told(next) ==
    /\ busy' = next /\ sent' = NoUpload
    /\ reader' = [u \in Uploads |-> IF u = sent.by /\ reader[u].phase # "reading"
                                    THEN NoReader ELSE reader[u]]

(* Refused, lost on the way, or the draft could not be recorded; a worker  *)
(* that is still reading goes on.                                          *)
PreviewFails ==
    /\ Asking /\ Told(Nil)
    /\ UNCHANGED <<address, code, active, chosen, book, draft, confirmed>>

(* Sheet and mapping are those the file was read with; a sheet that could  *)
(* only be inspected may have no columns.                                  *)
ShowPreview ==
    /\ Asking /\ reader[sent.by].phase = "read"
    /\ LET r == reader[sent.by]
       IN  \E s \in IF sent.with.sheet = Nil THEN Sheets ELSE {sent.with.sheet},
              m \in IF busy = "inspect" THEN Mappings \cup {Nil} ELSE Mappings :
             /\ book' = [sheet |-> s, mapping |-> m]
             /\ chosen' = [chosen EXCEPT !.sheet = s, !.mapping = m]
             /\ IF busy = "inspect" THEN Told(Nil) /\ UNCHANGED draft
                ELSE /\ Told("history")
                     /\ \E replaces \in BOOLEAN :
                          draft' = [shows |-> [sent.with EXCEPT !.sheet = s, !.mapping = m],
                                    replaces |-> replaces,
                                    sound |-> r.rows # {} /\ r.errors = {}]
    /\ UNCHANGED <<address, code, active, confirmed>>

(* The history is loaded, or fails to load.                                *)
HistoryLoads ==
    /\ busy = "history" /\ busy' = Nil
    /\ UNCHANGED <<address, code, reader, active, chosen, book, draft, confirmed, sent>>

Confirm ==
    /\ Idle /\ draft # Nil /\ draft.replaces
    /\ confirmed' = ~ confirmed
    /\ UNCHANGED <<address, code, reader, active, chosen, book, draft, busy, sent>>

(* The draft is published, or the published revision taken back.           *)
AskCommit ==
    /\ Idle /\ draft # Nil /\ draft.sound /\ (draft.replaces => confirmed)
    /\ busy' = "change"
    /\ UNCHANGED <<address, code, reader, active, chosen, book, draft, confirmed, sent>>

AskRevert ==
    /\ Idle /\ busy' = "change"
    /\ UNCHANGED <<address, code, reader, active, chosen, book, draft, confirmed, sent>>

ChangeDone ==
    /\ busy = "change" /\ busy' = "history"
    /\ Invalidate
    /\ UNCHANGED <<address, code, reader, active, chosen, book, sent>>

(* Also if it was done and the answer is lost: the draft stays.            *)
ChangeFails ==
    /\ busy = "change" /\ busy' = Nil
    /\ UNCHANGED <<address, code, reader, active, chosen, book, draft, confirmed, sent>>

-----------------------------------------------------------------------------
(* Two drivers may share an address but for case, none a transporter id.   *)
PreviewsInit ==
    /\ address \in [Crew -> Texts]
    /\ code \in {f \in [Crew -> Texts \cup {Nil}] :
                   \A d, e \in Crew : f[d] = f[e] /\ f[d] # Nil => d = e}
    /\ reader = [u \in Uploads |-> NoReader]
    /\ active = 0
    /\ chosen = NoChoice /\ book = Nil /\ draft = Nil /\ confirmed = FALSE
    /\ busy = Nil /\ sent = NoUpload

PreviewsNext ==
    \/ ChooseFile \/ ChooseWeek \/ ChooseHeader \/ ChooseSheet \/ ChooseMapping \/ Reopen
    \/ AskPreview("inspect") \/ AskPreview("preview") \/ PreviewFails \/ ShowPreview
    \/ HistoryLoads \/ Confirm \/ AskCommit \/ AskRevert \/ ChangeDone \/ ChangeFails
    \/ \E u \in Uploads : Upload(u) \/ ReadLine(u) \/ WorkerAnswers(u) \/ WorkerBreaks(u)

PreviewsSpec == PreviewsInit /\ [][PreviewsNext]_previews

-----------------------------------------------------------------------------
(* The draft that can be published is of what the form shows, but for file *)
(* and week of a panel opened again; a replacement is only confirmed for   *)
(* the draft that makes it.                                                *)
DraftAsShown ==
    /\ draft # Nil =>
         /\ chosen.book \in {Nil, draft.shows.book} /\ chosen.week \in {Nil, draft.shows.week}
         /\ chosen = [draft.shows EXCEPT !.book = chosen.book, !.week = chosen.week]
    /\ confirmed => draft # Nil /\ draft.replaces

(* The drivers to whom, and to nobody else, each text of a line leads.     *)
NamedBy(fields, line) ==
    LET email == Cell(fields, line, "email")
        id    == Cell(fields, line, "transporterId")
    IN  {d \in Crew : /\ email # Nil \/ id # Nil
                      /\ email # Nil => {e \in Crew : address[e] = email} = {d}
                      /\ id # Nil => {e \in Crew : code[e] = id} = {d}}

(* "Transporter-ID oder E-Mail muss einen Fahrer eindeutig erkennen"       *)
(* (score-import.tsx:228): every line with something in it is a score of   *)
(* the one driver all it says leads to, or an error; no driver has two.    *)
(* Whether there are errors at all does not depend on the order of lines.  *)
LinesAsWritten ==
    \A u \in {v \in Uploads : reader[v].phase \in {"reading", "read"}} :
        LET r     == reader[u]
            past  == {i \in DOMAIN r.lines : ~ Blank(r.lines[i])}
            named == [i \in past |-> NamedBy(r.fields, r.lines[i])]
        IN  /\ {x[1] : x \in r.rows} \cup r.errors = past
            /\ \A x \in r.rows : x[1] \notin r.errors /\ named[x[1]] = {x[2]}
            /\ \A x, y \in r.rows : x[2] = y[2] => x = y
            /\ r.errors = {} <=>
                 /\ \A i \in past : r.lines[i].rest # "wrong" /\ named[i] # {}
                 /\ \A i, j \in past : named[i] = named[j] => i = j

(* Every worker is counted, and none that has ended.                       *)
Counted == active = Cardinality({u \in Uploads : reader[u].phase = "reading"})

AsTheFileSays == DraftAsShown /\ LinesAsWritten /\ Counted
=============================================================================
