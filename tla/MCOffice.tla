------------------------------ MODULE MCOffice ------------------------------
(* An instance of Office for TLC.  The constraint keeps the instance small *)
(* where one more actor at the same time would show nothing new.           *)
EXTENDS Office, TLC

CONSTANTS a1, a2, a3, c1, c2, q1, q2, k1, k2, n1, n2, b1, b2, w1, w2,
          i1, i2, i3, d1, d2, p1, p2, f1, f2, r1, r2, u1, u2, v1, v2, g1, g2, t1, s1, o1, o2,
          e1, e2, x1, x2, y1, y2, z1, z2, h1, h2, m1, m2, l1, l2, l3

(* Two requests of the evidence at a time, one of them perhaps left over,  *)
(* and inspections apart from uploads.                                     *)
FewRequests ==
    /\ Cardinality({a \in Attempts : attempt[a].phase \notin {"free", "done"}}) < 3
    /\ Cardinality({a \in Attempts : attempt[a].client # "gone"}) < 2
    /\ Cardinality(excused) < 2
    /\ Cardinality({attempt[a].op = "inspect" : a \in {b \in Attempts : attempt[b].phase # "free"}}) < 2

(* One panel moves between drivers and kinds, the other stays.             *)
OnePanelMoves == panel[p2].kind = "PHR" /\ panel[p2].driver = d1 /\ panel[p2].editing # "new"

(* While a request runs there are rows of the kind it asks for, its reader *)
(* goes at most from one van to the other; nobody has a role or van that   *)
(* it does not look at, and only messages need two people with a role.     *)
(* There is one row at a time, but messages, and the documents of a        *)
(* renewal.                                                                *)
OneTopic ==
    /\ Cardinality(rows) > 1 => \/ \A r \in rows : r.of = "messages"
                                \/ \E r \in rows : r.of = "documents" /\ r.gone
    /\ (\E r \in rows : r.of # "messages") => \E u \in People : role[u] = "none"
    /\ \A s \in Sessions : ask[s] # NoAsk =>
         /\ Cardinality(ask[s].tours) < 4
         /\ \A u \in People \ {ask[s].p.who} : ask[s].what.op # "write" => role[u] = "none"
         /\ \A v \in Vans : tour[v] # Nil =>
              tour[v] = ask[s].p.who /\ Own(ask[s].p) /\ ask[s].what.op # "write"
         /\ LET w == ask[s].what
            IN  CASE w.op = "list" -> \A r \in rows :
                       \/ r.of = w.of \/ w.of = "dashboard"
                       \/ w.of = "corrections" /\ r.of = "documents"
                  [] w.op = "file" -> \A r \in rows : r.file # Nil
                  [] OTHER -> \A r \in rows : r.of \in {"messages", "planning", "documents"}

(* Two backups and so many databases left behind.                          *)
FewBackups == Cardinality(archives) < 3 /\ UpkeepBound

(* Either a file is read thoroughly, or the panel is used with short ones, *)
(* or three of those come at once.                                         *)
UnderWay == {u \in Uploads : reader[u] # NoReader}
Short(u) ==
    /\ reader[u].fields = <<"email", "transporterId">> /\ Len(reader[u].lines) < 2
    /\ \A i \in DOMAIN reader[u].lines :
          reader[u].lines[i].cells = <<x1, Nil>> /\ reader[u].lines[i].rest # "blank"

OneMatter ==
    /\ address[e1] = x1
    /\ \A u \in UnderWay :
         /\ reader[u].fields[2] = "email" => reader[u].fields[1] = "email"
         /\ reader[u].fields[1] = "ignore" => reader[u].fields[2] = "ignore"
         /\ \A i \in DOMAIN reader[u].lines : reader[u].lines[i].rest = "blank" => Blank(reader[u].lines[i])
    /\ UnderWay # {l1} => \A u \in UnderWay : Short(u)
    /\ chosen # NoChoice =>
         /\ UnderWay \subseteq {l1, l2} /\ \A u \in UnderWay : Short(u)
         /\ \A u \in UnderWay \ {sent.by} : reader[u].lines = <<>>
         /\ address[e2] = x2 /\ code[e1] = Nil /\ code[e2] = Nil
    /\ l2 \in UnderWay => l1 \in UnderWay \/ sent.by = l2
    /\ sent.by # l3

Small ==
    CASE part = "evidence" -> FewRequests
      [] part = "deliveries" -> OnePanelMoves
      [] part = "views" -> OneTopic
      [] part = "upkeep" -> FewBackups
      [] OTHER -> TRUE

(* A file that would not be looked into further is not read at all; second *)
(* choices come after the first.                                           *)
Focused == part = "previews" =>
    /\ OneMatter'
    /\ sent'.by = l2 => sent.by = l2 \/ l1 \in UnderWay
    /\ chosen'.book = y2 => chosen.book # Nil \/ draft # Nil
    /\ chosen'.week = z2 => chosen.week # Nil \/ draft # Nil
    /\ chosen'.sheet = h2 => chosen.sheet # Nil
    /\ chosen'.mapping = m2 => chosen.mapping # Nil \/ book # Nil

(* What was read is answered before anything else happens.                 *)
Prompt == part = "views" => \A s \in Sessions : ask[s].phase = "done" => ask'[s] = NoAsk

(* Names that mean nothing are taken in order: one is only used while the  *)
(* one before it is, or was.                                               *)
InOrder ==
    /\ part = "evidence" =>
         /\ attempt[a1].phase = "free" => attempt'[a2].phase = "free"
         /\ attempt[a2].phase = "free" => attempt'[a3].phase = "free"
         /\ duty' = c2 => c1 \in {form.visit} \cup {attempt[a].visit : a \in Attempts}
         /\ (\A a \in Attempts : attempt[a].id # q1) => \A a \in Attempts : attempt'[a].id # q2
         /\ form.open /\ ~ form'.open => \E a \in Attempts : Waiting(a)
         /\ assigned' = (duty' # Nil) \/ \A a \in Attempts : attempt'[a].op \in {Nil, "photo"}
    /\ part = "deliveries" =>
         /\ detail[i1] = Nil => detail'[i2] = Nil
         /\ detail[i2] = Nil => detail'[i3] = Nil
    /\ part = "views" => ((\A r \in rows : r.file # g1) => (\A r \in rows' : r.file # g2))
    /\ part = "upkeep" => (op[o1] = NoCommand /\ op[o2] = NoCommand => op'[o2] = NoCommand)

Orderly == Prompt /\ InOrder /\ Focused
=============================================================================
