---------------------------- MODULE AccessSafety ----------------------------
(***************************************************************************)
(* Who gets in, for any number of people, drivers, invitations and         *)
(* requests: the rows a transaction has locked keep what it checked until  *)
(* it commits, and so the properties of Access hold.                       *)
(***************************************************************************)
EXTENDS Access, TLAPS

TypeOK ==
    /\ member \in [Users -> MemberRow \cup {Nil}]
    /\ email \in [Users -> Emails \cup Users \cup {Nil}]
    /\ driver \in [Drivers -> DriverRow]
    /\ invitation \in [Invitations -> InvitationRow \cup {Nil}]
    /\ mail \in [Tokens -> [state : {"unused", "sending", "SENT", "FAILED", "MANUAL"},
                            id : Invitations \cup {Nil}]]
    /\ phase \in [Sessions -> {"idle", "begun", "checked"}]
    /\ DOMAIN req = Sessions

Made(i) == i \in Invitations /\ invitation[i] # Nil

(* What a transaction under way is about exists.                           *)
Sensible(r) ==
    /\ r.op \in {"invite", "resend", "revoke", "accept", "change"}
    /\ r.op # "accept" => r.user \in Users /\ Exists(r.user)
    /\ r.op = "invite" => /\ r.role \in Roles /\ r.driver \in Drivers \cup {Nil}
                          /\ r.email \in Emails \cup {Nil}
    /\ r.op \in {"resend", "revoke", "accept"} => Made(r.id)
    /\ r.op = "change" => /\ r.target \in Users /\ Exists(r.target)
                          /\ r.role \in Roles /\ r.active \in BOOLEAN
Requests == \A s \in Sessions : phase[s] # "idle" => Sensible(req[s])

(* Transactions that have checked hold locks that exclude one another.     *)
Apart ==
    \A s, t \in Sessions : s # t =>
        \A p \in Held(s), q \in Held(t) : ~ Conflict(p, q)

(* What an acceptance checked is true until it commits.                    *)
Admitted(r) ==
    /\ Pending(r.id) /\ invitation[r.id].token = r.token
    /\ IssuerLive(r.id) /\ DriverFits(r.id)
Accepting(s) == phase[s] = "checked" /\ req[s].op = "accept"
AcceptStands == \A s \in Sessions : Accepting(s) => Admitted(req[s])

(* Only accounts that exist are linked.                                    *)
Linkage ==
    /\ \A d \in Drivers : driver[d].account # Nil => Exists(driver[d].account)
    /\ \A i \in Invitations : Made(i) /\ invitation[i].status = "ACCEPTED" =>
          invitation[i].account \in Users /\ Exists(invitation[i].account)

(* The newest token of an invitation was mailed for it.                    *)
Mailed ==
    /\ \A t \in Tokens : ~ Fresh(t) => mail[t].id \in Invitations
    /\ \A i \in Invitations : Made(i) =>
          ~ Fresh(invitation[i].token) /\ mail[invitation[i].token].id = i

Locking == Requests /\ Apart /\ AcceptStands
IInv == TypeOK /\ Locking /\ Linkage /\ Mailed /\ OneAccount /\ DeliveryTold

-----------------------------------------------------------------------------
(* Requests and types.                                                     *)

LEMMA InitInv == Init => IInv
  <1> SUFFICES ASSUME Init PROVE IInv
    OBVIOUS
  <1>1. TypeOK
    <2>1. \A u \in Users : SeedRole[u] # Nil =>
            [role |-> SeedRole[u], active |-> TRUE, version |-> 1] \in MemberRow
      BY AccessAssumption DEF MemberRow
    <2>2. member \in [Users -> MemberRow \cup {Nil}]
      BY <2>1 DEF Init
    <2>3. QED
      BY <2>2, AccessAssumption DEF Init, TypeOK, DriverRow
  <1>2. Locking
    BY DEF Init, Locking, Requests, Apart, AcceptStands, Accepting, Held
  <1>3. Linkage /\ Mailed /\ DeliveryTold
    BY DEF Init, Linkage, Mailed, DeliveryTold, Made, Fresh
  <1>4. OneAccount
    BY DEF Init, OneAccount, Pending
  <1>5. QED
    BY <1>1, <1>2, <1>3, <1>4 DEF IInv

Opens(s) == BeginInvite(s) \/ BeginChangeInvitation(s) \/ BeginAccept(s) \/ BeginChange(s)

LEMMA Opening ==
    ASSUME TypeOK, Mailed, NEW s \in Sessions, Opens(s)
    PROVE  \E r : Sensible(r) /\ Begin(s, r)
  <1>1. CASE BeginInvite(s)
    <2>1. PICK u \in Users, o \in Offers :
            /\ Exists(u)
            /\ Begin(s, [op |-> "invite", user |-> u, role |-> o.role, driver |-> o.driver,
                         email |-> IF o.driver = Nil THEN o.email ELSE driver[o.driver].email])
      BY <1>1 DEF BeginInvite, IsAdmin, IsLive
    <2>2. /\ o.role \in Roles /\ o.driver \in Drivers \cup {Nil} /\ o.email \in Emails \cup {Nil}
          /\ o.driver # Nil => driver[o.driver].email \in Emails
      BY AccessAssumption DEF TypeOK, DriverRow
    <2>3. Sensible([op |-> "invite", user |-> u, role |-> o.role, driver |-> o.driver,
                    email |-> IF o.driver = Nil THEN o.email ELSE driver[o.driver].email])
      BY <2>1, <2>2 DEF Sensible
    <2>4. QED
      BY <2>1, <2>3
  <1>2. CASE BeginChangeInvitation(s)
    <2>1. PICK u \in Users, i \in Invitations, op \in {"resend", "revoke"} :
            Pending(i) /\ Exists(u) /\ Begin(s, [op |-> op, user |-> u, id |-> i])
      BY <1>2 DEF BeginChangeInvitation, IsAdmin, IsLive
    <2>2. Sensible([op |-> op, user |-> u, id |-> i])
      BY <2>1 DEF Sensible, Pending, Made
    <2>3. QED
      BY <2>1, <2>2
  <1>3. CASE BeginAccept(s)
    <2>1. PICK t \in Tokens :
            /\ ~ Fresh(t) /\ Pending(mail[t].id)
            /\ Begin(s, [op |-> "accept", id |-> mail[t].id, token |-> t])
      BY <1>3 DEF BeginAccept, Usable
    <2>2. Sensible([op |-> "accept", id |-> mail[t].id, token |-> t])
      BY <2>1 DEF Sensible, Pending, Made, Mailed
    <2>3. QED
      BY <2>1, <2>2
  <1>4. CASE BeginChange(s)
    <2>1. PICK u \in Users, v \in Users, new \in Rights :
            /\ Exists(u) /\ Exists(v)
            /\ Begin(s, [op |-> "change", user |-> u, target |-> v, role |-> new.role,
                         active |-> new.active, version |-> member[v].version])
      BY <1>4 DEF BeginChange, IsAdmin, IsLive
    <2>2. new.role \in Roles /\ new.active \in BOOLEAN
      BY AccessAssumption
    <2>3. Sensible([op |-> "change", user |-> u, target |-> v, role |-> new.role,
                    active |-> new.active, version |-> member[v].version])
      BY <2>1, <2>2 DEF Sensible
    <2>4. QED
      BY <2>1, <2>3
  <1>5. QED
    BY <1>1, <1>2, <1>3, <1>4 DEF Opens

(* The row an invitation becomes when it is issued.                        *)
LEMMA IssuedRow ==
    ASSUME TypeOK, NEW row \in InvitationRow, NEW u \in Users, Exists(u), NEW t \in Tokens
    PROVE  /\ Issued(row, u, t) \in InvitationRow
           /\ Issued(row, u, t).email = row.email /\ Issued(row, u, t).role = row.role
           /\ Issued(row, u, t).driver = row.driver /\ Issued(row, u, t).status = row.status
           /\ Issued(row, u, t).account = row.account
           /\ Issued(row, u, t).token = t /\ Issued(row, u, t).delivery = "PENDING"
  <1>1. member[u] \in MemberRow
    BY DEF TypeOK, Exists
  <1>2. member[u].version \in Nat
    BY <1>1 DEF MemberRow
  <1>3. QED
    BY <1>2 DEF Issued, InvitationRow

LEMMA NewRow ==
    ASSUME TypeOK, NEW r, Sensible(r), r.op = "invite", NEW t \in Tokens
    PROVE  /\ Issued(Blank(r), r.user, t) \in InvitationRow
           /\ Issued(Blank(r), r.user, t).email = r.email
           /\ Issued(Blank(r), r.user, t).status = "PENDING"
           /\ Issued(Blank(r), r.user, t).token = t
           /\ Issued(Blank(r), r.user, t).delivery = "PENDING"
  <1>1. member[r.user] \in MemberRow /\ r.user \in Users
    BY DEF TypeOK, Exists, Sensible
  <1>2. member[r.user].version \in Nat
    BY <1>1 DEF MemberRow
  <1>3. QED
    BY <1>1, <1>2 DEF Issued, Blank, InvitationRow, Sensible

-----------------------------------------------------------------------------
(***************************************************************************)
(* A step changes no more than the rows in h: what an invitation is for    *)
(* and who an account is linked to never change.                           *)
(***************************************************************************)
Frame(h) ==
    /\ \A i \in Invitations : Made(i) =>
          /\ Made(i)'
          /\ invitation'[i].email = invitation[i].email
          /\ invitation'[i].role = invitation[i].role
          /\ invitation'[i].driver = invitation[i].driver
          /\ <<"invitation", i>> \notin h =>
                /\ invitation'[i].by = invitation[i].by
                /\ invitation'[i].byVersion = invitation[i].byVersion
                /\ invitation'[i].token = invitation[i].token
                /\ invitation'[i].status = invitation[i].status
    /\ \A u \in Users : Exists(u) =>
          /\ Exists(u)' /\ Linked(u)' = Linked(u)
          /\ <<"member", u>> \notin h => member'[u] = member[u]
    /\ \A d \in Drivers : <<"driver", d>> \notin h => driver'[d] = driver[d]

(* What a transaction has locked, and what it has checked, survives a step *)
(* that changes rows it does not conflict with.                            *)
LEMMA Survives ==
    ASSUME TypeOK, Locking, NEW h, Frame(h), NEW t \in Sessions,
           phase'[t] = phase[t], req'[t] = req[t], phase[t] # "idle",
           \A p \in h, q \in Held(t) : ~ Conflict(p, q)
    PROVE  /\ Sensible(req[t])'
           /\ Held(t)' = Held(t)
           /\ Accepting(t) => Admitted(req[t])'
  <1> DEFINE r == req[t]
  <1>1. Sensible(r)
    BY DEF Locking, Requests
  <1>2. Sensible(req[t])'
    BY <1>1 DEF Sensible, Frame, Made
  <1>3. ASSUME phase[t] = "checked" PROVE Rows(r)' = Rows(r)
    <2>1. Held(t) = Rows(r) /\ req'[t] = r
      BY <1>3 DEF Held
    <2>2. CASE r.op = "accept"
      <3>1. Made(r.id) /\ <<"invitation", r.id>> \in Held(t)
        BY <1>1, <2>1, <2>2 DEF Sensible, Rows
      <3>2. <<"invitation", r.id>> \notin h
        BY <3>1, AccessAssumption DEF Conflict, Made
      <3>3. invitation'[r.id].by = invitation[r.id].by
            /\ invitation'[r.id].driver = invitation[r.id].driver
        BY <3>1, <3>2 DEF Frame, Made
      <3>4. QED
        BY <2>1, <2>2, <3>3 DEF Rows
    <2>3. CASE r.op = "resend"
      <3>1. invitation'[r.id].driver = invitation[r.id].driver
        BY <1>1, <2>3 DEF Frame, Made, Sensible
      <3>2. QED
        BY <2>1, <2>3, <3>1 DEF Rows
    <2>4. CASE r.op = "change"
      <3>1. Linked(r.target)' = Linked(r.target)
        BY <1>1, <2>4 DEF Frame, Sensible
      <3>2. QED
        BY <2>1, <2>4, <3>1 DEF Rows
    <2>5. CASE r.op \in {"invite", "revoke"}
      BY <2>1, <2>5 DEF Rows
    <2>6. QED
      BY <1>1, <2>2, <2>3, <2>4, <2>5 DEF Sensible
  <1>4. Held(t)' = Held(t)
    BY <1>3 DEF Held
  <1>5. ASSUME Accepting(t) PROVE Admitted(req[t])'
    <2> DEFINE i == r.id
               u == invitation[i].by
               d == invitation[i].driver
    <2>1. Held(t) = Rows(r) /\ req'[t] = r /\ r.op = "accept"
      BY <1>5 DEF Held, Accepting
    <2>2. Admitted(r) /\ Made(i)
      BY <1>1, <1>5, <2>1 DEF Locking, AcceptStands, Sensible
    <2>3. <<"invitation", i>> \in Held(t) /\ <<"share", u>> \in Held(t)
          /\ <<"driver", d>> \in Held(t)
      BY <2>1 DEF Rows
    <2>4. i # Nil /\ u \in Users /\ u # Nil /\ Exists(u) /\ d \in Drivers \cup {Nil}
      BY <2>2, AccessAssumption
         DEF Made, TypeOK, InvitationRow, Admitted, IssuerLive, MayInvite, IsAdmin, IsLive
    <2>5. <<"invitation", i>> \notin h /\ <<"member", u>> \notin h
          /\ (d # Nil => <<"driver", d>> \notin h)
      BY <2>3, <2>4 DEF Conflict
    <2>6. /\ Made(i)' /\ invitation'[i].email = invitation[i].email
          /\ invitation'[i].role = invitation[i].role
          /\ invitation'[i].driver = d /\ invitation'[i].by = u
          /\ invitation'[i].byVersion = invitation[i].byVersion
          /\ invitation'[i].token = invitation[i].token
          /\ invitation'[i].status = invitation[i].status
      BY <2>2, <2>5 DEF Frame, Made
    <2>7. member'[u] = member[u]
      BY <2>4, <2>5 DEF Frame
    <2>8. d # Nil => driver'[d] = driver[d]
      BY <2>4, <2>5 DEF Frame
    <2>9. (Pending(i) /\ invitation[i].token = r.token)'
      BY <2>1, <2>2, <2>6 DEF Admitted, Pending, Made
    <2>10. IssuerLive(i)'
      BY <2>2, <2>6, <2>7
         DEF Admitted, IssuerLive, MayInvite, IsAdmin, IsLive, Exists
    <2>11. DriverFits(i)'
      BY <2>2, <2>6, <2>8 DEF Admitted, DriverFits
    <2>12. QED
      BY <2>1, <2>9, <2>10, <2>11 DEF Admitted
  <1>6. QED
    BY <1>2, <1>4, <1>5

(* A step that changes rows nobody else has locked keeps the locks apart.  *)
LEMMA LocksStay ==
    ASSUME TypeOK, Locking, NEW h, Frame(h),
           \A t \in Sessions :
              \/ phase'[t] = "idle"
              \/ /\ phase'[t] = phase[t] /\ req'[t] = req[t]
                 /\ \A p \in h, q \in Held(t) : ~ Conflict(p, q)
    PROVE  Locking'
  <1>1. \A t \in Sessions : phase'[t] # "idle" =>
          /\ phase'[t] = phase[t] /\ Sensible(req[t])' /\ Held(t)' = Held(t)
          /\ Accepting(t) => Admitted(req[t])'
    BY Survives
  <1>2. Requests'
    BY <1>1 DEF Requests
  <1>3. \A t \in Sessions : phase'[t] = "idle" => Held(t)' = {}
    BY DEF Held
  <1>4. Apart'
    BY <1>1, <1>3 DEF Locking, Apart, Conflict
  <1>5. \A t \in Sessions : Accepting(t)' => phase'[t] # "idle" /\ Accepting(t)
    BY DEF Accepting
  <1>6. AcceptStands'
    BY <1>1, <1>5 DEF AcceptStands
  <1>7. QED
    BY <1>2, <1>4, <1>6 DEF Locking

LEMMA Still ==
    ASSUME UNCHANGED data
    PROVE  Frame({})
  BY DEF data, Frame, Made, Exists, Linked

(* A transaction writes rows it has locked.                                *)
LEMMA CommitFrame ==
    ASSUME IInv, NEW s \in Sessions, Commit(s)
    PROVE  Frame(Held(s))
  <1> DEFINE r == req[s]
  <1>1. TypeOK /\ Sensible(r) /\ Held(s) = Rows(r) /\ phase[s] = "checked"
    BY DEF IInv, Locking, Requests, Commit, Held
  <1>2. CASE r.op = "invite" /\ Invite(r)
    <2>1. \A i \in Invitations : Made(i) => Made(i)' /\ invitation'[i] = invitation[i]
      BY <1>1, <1>2 DEF Invite, Made, TypeOK
    <2>2. member' = member /\ driver' = driver
      BY <1>2 DEF Invite
    <2>3. QED
      BY <2>1, <2>2 DEF Frame, Exists, Linked
  <1>3. CASE r.op = "resend" /\ Resend(r)
    <2>1. PICK t \in Tokens :
            invitation' = [invitation EXCEPT ![r.id] = Issued(@, r.user, t)]
      BY <1>3 DEF Resend
    <2>2. member' = member /\ driver' = driver
      BY <1>3 DEF Resend
    <2>3. Made(r.id) /\ invitation[r.id] \in InvitationRow
          /\ r.user \in Users /\ Exists(r.user)
      BY <1>1, <1>3 DEF Sensible, Made, TypeOK
    <2>4. /\ invitation'[r.id] \in InvitationRow
          /\ invitation'[r.id].email = invitation[r.id].email
          /\ invitation'[r.id].role = invitation[r.id].role
          /\ invitation'[r.id].driver = invitation[r.id].driver
      BY <1>1, <2>1, <2>3, IssuedRow DEF Made, TypeOK
    <2>5. \A i \in Invitations : i # r.id => invitation'[i] = invitation[i]
      BY <1>1, <2>1 DEF TypeOK
    <2>6. <<"invitation", r.id>> \in Held(s)
      BY <1>1, <1>3 DEF Rows
    <2>7. \A i \in Invitations : Made(i) => Made(i)'
      BY <2>4, <2>5, AccessAssumption DEF Made
    <2>8. QED
      BY <2>2, <2>4, <2>5, <2>6, <2>7 DEF Frame, Exists, Linked
  <1>4. CASE r.op = "revoke" /\ Revoke(r)
    <2>1. Made(r.id) /\ invitation[r.id] \in InvitationRow
      BY <1>1, <1>4 DEF Sensible, Made, TypeOK
    <2>2. /\ invitation'[r.id] \in InvitationRow
          /\ invitation'[r.id].email = invitation[r.id].email
          /\ invitation'[r.id].role = invitation[r.id].role
          /\ invitation'[r.id].driver = invitation[r.id].driver
      BY <1>1, <1>4, <2>1 DEF Revoke, Made, TypeOK, InvitationRow
    <2>3. \A i \in Invitations : i # r.id => invitation'[i] = invitation[i]
      BY <1>1, <1>4 DEF Revoke, TypeOK
    <2>4. <<"invitation", r.id>> \in Held(s)
      BY <1>1, <1>4 DEF Rows
    <2>5. \A i \in Invitations : Made(i) => Made(i)'
      BY <2>2, <2>3, AccessAssumption DEF Made
    <2>6. QED
      BY <1>4, <2>2, <2>3, <2>4, <2>5 DEF Revoke, Frame, Exists, Linked
  <1>5. CASE r.op = "accept" /\ Accept(r)
    <2> DEFINE d == invitation[r.id].driver
    <2>1. Made(r.id) /\ invitation[r.id] \in InvitationRow
      BY <1>1, <1>5 DEF Sensible, Made, TypeOK
    <2>2. PICK u \in Users :
            /\ ~ Exists(u)
            /\ member' = [member EXCEPT ![u] =
                 [role |-> invitation[r.id].role, active |-> TRUE, version |-> 1]]
            /\ driver' = [c \in Drivers |-> IF c = d
                 THEN [driver[c] EXCEPT !.account = u] ELSE driver[c]]
            /\ invitation' = [invitation EXCEPT ![r.id].status = "ACCEPTED",
                                                ![r.id].account = u]
      BY <1>5 DEF Accept
    <2>3. /\ invitation'[r.id] \in InvitationRow
          /\ invitation'[r.id].email = invitation[r.id].email
          /\ invitation'[r.id].role = invitation[r.id].role
          /\ invitation'[r.id].driver = invitation[r.id].driver
      BY <1>1, <2>1, <2>2 DEF Made, TypeOK, InvitationRow
    <2>4. \A i \in Invitations : i # r.id => invitation'[i] = invitation[i]
      BY <1>1, <2>2 DEF TypeOK
    <2>5. <<"invitation", r.id>> \in Held(s) /\ <<"driver", d>> \in Held(s)
      BY <1>1, <1>5 DEF Rows
    <2>6. \A i \in Invitations : Made(i) => Made(i)'
      BY <2>3, <2>4, AccessAssumption DEF Made
    <2>7. \A v \in Users : Exists(v) => member'[v] = member[v] /\ v # u /\ v # Nil
      BY <1>1, <2>2, AccessAssumption DEF TypeOK, Exists
    <2>8. \A c \in Drivers : c # d => driver'[c] = driver[c]
      BY <2>2
    <2>9. d \in Drivers => driver[d].account = Nil /\ driver'[d].account = u
      <3>1. DriverFits(r.id)
        BY <1>1, <1>5 DEF IInv, Locking, AcceptStands, Accepting, Admitted
      <3>2. d \in Drivers => d # Nil
        BY AccessAssumption
      <3>3. QED
        BY <1>1, <2>2, <3>1, <3>2 DEF DriverFits, TypeOK, DriverRow
    <2>10. \A v \in Users : Exists(v) => Linked(v)' = Linked(v)
      BY <2>7, <2>8, <2>9 DEF Linked
    <2>11. QED
      BY <2>3, <2>4, <2>5, <2>6, <2>7, <2>8, <2>10 DEF Frame, Exists
  <1>6. CASE r.op = "change" /\ Change(r)
    <2>1. r.target \in Users /\ Exists(r.target) /\ member[r.target] \in MemberRow
      BY <1>1, <1>6 DEF Sensible, Exists, TypeOK
    <2>2. \A u \in Users : u # r.target => member'[u] = member[u]
      BY <1>1, <1>6 DEF Change, TypeOK
    <2>3. member'[r.target] \in MemberRow
      BY <1>1, <1>6, <2>1 DEF Change, TypeOK, MemberRow, Sensible
    <2>4. <<"member", r.target>> \in Held(s)
      BY <1>1, <1>6 DEF Rows
    <2>5. \A u \in Users : Exists(u) => Exists(u)'
      BY <2>2, <2>3, AccessAssumption DEF Exists
    <2>6. invitation' = invitation /\ driver' = driver
      BY <1>6 DEF Change
    <2>7. QED
      BY <2>2, <2>4, <2>5, <2>6 DEF Frame, Made, Linked
  <1>7. QED
    BY <1>2, <1>3, <1>4, <1>5, <1>6 DEF Commit

-----------------------------------------------------------------------------
LEMMA AnswerFrame ==
    ASSUME TypeOK, Mailed, NEW k \in Tokens, Answer(k)
    PROVE  /\ Frame({}) /\ TypeOK'
           /\ \A i \in Invitations : ~ Made(i) => ~ Made(i)'
           /\ \A i \in Invitations : Made(i) =>
                 /\ Made(i)' /\ invitation'[i].account = invitation[i].account
                 /\ invitation'[i].status = invitation[i].status
                 /\ invitation'[i].token = invitation[i].token
                 /\ \/ /\ Pending(i) /\ invitation[i].token = k
                       /\ invitation'[i].delivery = mail'[k].state
                    \/ /\ ~ (invitation[i].token = k /\ Pending(i))
                       /\ invitation'[i].delivery = invitation[i].delivery
           /\ mail'[k].id = mail[k].id /\ ~ Fresh(k) /\ ~ Fresh(k)'
           /\ \A t \in Tokens : t # k => mail'[t] = mail[t]
  <1> DEFINE i == mail[k].id
  <1>1. PICK result \in {"SENT", "FAILED", "MANUAL"} :
          /\ mail' = [mail EXCEPT ![k].state = result]
          /\ invitation' = IF invitation[i].token = k /\ Pending(i)
                           THEN [invitation EXCEPT ![i].delivery = result]
                           ELSE invitation
    BY DEF Answer
  <1>2. mail[k].state = "sending" /\ UNCHANGED <<member, email, driver, tx>>
    BY DEF Answer
  <1>3. i \in Invitations
    BY <1>2 DEF Mailed, Fresh
  <1>4. /\ mail' \in [Tokens -> [state : {"unused", "sending", "SENT", "FAILED", "MANUAL"},
                                 id : Invitations \cup {Nil}]]
        /\ mail'[k].state = result /\ mail'[k].id = i
        /\ \A t \in Tokens : t # k => mail'[t] = mail[t]
    BY <1>1 DEF TypeOK
  <1>5. \A j \in Invitations : Made(j) /\ invitation[j].token = k => j = i
    BY DEF Mailed
  <1>6. \A j \in Invitations : j # i \/ ~ (invitation[i].token = k /\ Pending(i)) =>
           invitation'[j] = invitation[j]
    BY <1>1, <1>3 DEF TypeOK
  <1>7. ASSUME invitation[i].token = k, Pending(i)
        PROVE  /\ invitation'[i] = [invitation[i] EXCEPT !.delivery = result]
               /\ invitation[i] \in InvitationRow /\ invitation'[i] \in InvitationRow
               /\ Made(i)
    <2>1. invitation[i] \in InvitationRow /\ Made(i)
      BY <1>3, <1>7 DEF TypeOK, Pending, Made
    <2>2. invitation'[i] = [invitation[i] EXCEPT !.delivery = result]
      BY <1>1, <1>3, <1>7 DEF TypeOK
    <2>3. QED
      BY <2>1, <2>2 DEF InvitationRow
  <1>8. invitation' \in [Invitations -> InvitationRow \cup {Nil}]
    <2>1. \A j \in Invitations : invitation'[j] \in InvitationRow \cup {Nil}
      BY <1>6, <1>7 DEF TypeOK
    <2>2. invitation' = [j \in Invitations |-> invitation'[j]]
      BY <1>1, <1>3 DEF TypeOK
    <2>3. QED
      BY <2>1, <2>2
  <1>9. TypeOK'
    BY <1>2, <1>4, <1>8 DEF TypeOK, tx
  <1>10. \A j \in Invitations : Made(j) =>
           /\ Made(j)'
           /\ invitation'[j].email = invitation[j].email
           /\ invitation'[j].role = invitation[j].role
           /\ invitation'[j].driver = invitation[j].driver
           /\ invitation'[j].by = invitation[j].by
           /\ invitation'[j].byVersion = invitation[j].byVersion
           /\ invitation'[j].token = invitation[j].token
           /\ invitation'[j].status = invitation[j].status
           /\ invitation'[j].account = invitation[j].account
    BY <1>6, <1>7, AccessAssumption DEF Made, InvitationRow
  <1>11. Frame({})
    BY <1>2, <1>10 DEF Frame, Exists, Linked
  <1>12. \A j \in Invitations : ~ Made(j) => ~ Made(j)'
    BY <1>6, <1>7 DEF Made
  <1>13. \A j \in Invitations : Made(j) =>
           \/ /\ Pending(j) /\ invitation[j].token = k
              /\ invitation'[j].delivery = mail'[k].state
           \/ /\ ~ (invitation[j].token = k /\ Pending(j))
              /\ invitation'[j].delivery = invitation[j].delivery
    <2> SUFFICES ASSUME NEW j \in Invitations, Made(j)
                 PROVE  \/ /\ Pending(j) /\ invitation[j].token = k
                           /\ invitation'[j].delivery = mail'[k].state
                        \/ /\ ~ (invitation[j].token = k /\ Pending(j))
                           /\ invitation'[j].delivery = invitation[j].delivery
      OBVIOUS
    <2>1. CASE invitation[j].token = k /\ Pending(j)
      <3>1. j = i
        BY <1>5, <2>1
      <3>2. invitation'[i].delivery = result
        BY <1>7, <2>1, <3>1 DEF InvitationRow
      <3>3. QED
        BY <1>4, <2>1, <3>1, <3>2
    <2>2. CASE ~ (invitation[j].token = k /\ Pending(j))
      BY <1>6, <2>2
    <2>3. QED
      BY <2>1, <2>2
  <1>14. ~ Fresh(k) /\ ~ Fresh(k)'
    BY <1>2, <1>4 DEF Fresh
  <1>15. QED
    BY <1>4, <1>9, <1>10, <1>11, <1>12, <1>13, <1>14

LEMMA AgeFrame ==
    ASSUME TypeOK, NEW k \in Invitations, Age(k)
    PROVE  /\ Frame({}) /\ TypeOK'
           /\ \A i \in Invitations : ~ Made(i) => ~ Made(i)'
           /\ \A i \in Invitations : Made(i) =>
                 /\ Made(i)' /\ invitation'[i].account = invitation[i].account
                 /\ invitation'[i].status = invitation[i].status
                 /\ invitation'[i].token = invitation[i].token
                 /\ invitation'[i].delivery = invitation[i].delivery
  <1>1. invitation[k] \in InvitationRow /\ Made(k)
    BY DEF Age, TypeOK, Made
  <1>2. invitation'[k] = [invitation[k] EXCEPT !.age =
                            IF @ = "new" THEN "open" ELSE "expired"]
    BY DEF Age, TypeOK
  <1>3. \A j \in Invitations : j # k => invitation'[j] = invitation[j]
    BY DEF Age, TypeOK
  <1>4. /\ invitation'[k] \in InvitationRow
        /\ invitation'[k].email = invitation[k].email
        /\ invitation'[k].role = invitation[k].role
        /\ invitation'[k].driver = invitation[k].driver
        /\ invitation'[k].by = invitation[k].by
        /\ invitation'[k].byVersion = invitation[k].byVersion
        /\ invitation'[k].token = invitation[k].token
        /\ invitation'[k].status = invitation[k].status
        /\ invitation'[k].account = invitation[k].account
        /\ invitation'[k].delivery = invitation[k].delivery
    BY <1>1, <1>2 DEF InvitationRow
  <1>5. \A j \in Invitations : Made(j) <=> Made(j)'
    BY <1>1, <1>3, <1>4, AccessAssumption DEF Made
  <1>6. UNCHANGED <<member, email, driver, mail, tx>>
    BY DEF Age
  <1>7. Frame({})
    BY <1>3, <1>4, <1>5, <1>6 DEF Frame, Exists, Linked
  <1>8. invitation' \in [Invitations -> InvitationRow \cup {Nil}]
    BY <1>4 DEF Age, TypeOK
  <1>9. TypeOK'
    BY <1>6, <1>8 DEF TypeOK, tx
  <1>10. QED
    BY <1>3, <1>4, <1>5, <1>7, <1>9

(* The registry of drivers changes a driver, and locks the account of one  *)
(* it archives.                                                            *)
Touched(d, archived) ==
    {<<"driver", d>>} \cup (IF archived THEN {<<"member", driver[d].account>>} ELSE {})

LEMMA DriverFrame ==
    ASSUME TypeOK, Linkage, NEW d \in Drivers, DriverChanged(d)
    PROVE  /\ \E archived \in BOOLEAN :
                 Frame(Touched(d, archived)) /\ Free(Touched(d, archived))
           /\ TypeOK'
           /\ \A c \in Drivers : driver'[c].account = driver[c].account
           /\ \A v \in Users : Exists(v) => Exists(v)'
  <1> DEFINE u == driver[d].account
  <1>1. driver[d] \in DriverRow /\ u \in Users \cup {Nil}
    BY DEF TypeOK, DriverRow
  <1>2. Free({<<"driver", d>>}) /\ UNCHANGED <<email, invitation, mail, tx>>
    BY DEF DriverChanged
  <1>3. ASSUME NEW row \in DriverRow, row.account = u,
               driver' = [driver EXCEPT ![d] = row], member' = member
        PROVE  /\ Frame(Touched(d, FALSE)) /\ Free(Touched(d, FALSE)) /\ TypeOK'
               /\ \A c \in Drivers : driver'[c].account = driver[c].account
               /\ \A v \in Users : Exists(v) => Exists(v)'
    <2>1. driver' \in [Drivers -> DriverRow] /\ driver'[d].account = u
          /\ \A c \in Drivers : c # d => driver'[c] = driver[c]
      BY <1>3 DEF TypeOK
    <2>2. TypeOK'
      BY <1>2, <1>3, <2>1 DEF TypeOK, tx
    <2>3. \A v \in Users : Linked(v)' = Linked(v)
      BY <2>1 DEF Linked
    <2>4. Touched(d, FALSE) = {<<"driver", d>>}
      BY DEF Touched
    <2>5. Frame(Touched(d, FALSE))
      BY <1>2, <1>3, <2>1, <2>3, <2>4 DEF Frame, Made, Exists
    <2>6. QED
      BY <1>2, <1>3, <2>1, <2>2, <2>4, <2>5 DEF Exists
  <1> DEFINE archived == [driver[d] EXCEPT !.active = FALSE]
             disabled == [member[u] EXCEPT !.active = FALSE, !.version = @ + 1]
  <1>4. ASSUME u # Nil, Free({<<"member", u>>}),
               driver' = [driver EXCEPT ![d] = archived],
               member' = [member EXCEPT ![u] = disabled]
        PROVE  /\ Frame(Touched(d, TRUE)) /\ Free(Touched(d, TRUE)) /\ TypeOK'
               /\ \A c \in Drivers : driver'[c].account = driver[c].account
               /\ \A v \in Users : Exists(v) => Exists(v)'
    <2>1. driver' \in [Drivers -> DriverRow] /\ driver'[d].account = u
          /\ \A c \in Drivers : c # d => driver'[c] = driver[c]
      <3>1. archived \in DriverRow /\ archived.account = u
        BY <1>1 DEF DriverRow
      <3>2. driver'[d] = archived
        BY <1>4 DEF TypeOK
      <3>3. QED
        BY <1>4, <3>1, <3>2 DEF TypeOK
    <2>2. u \in Users /\ member[u] \in MemberRow
      BY <1>1, <1>4, AccessAssumption DEF Linkage, Exists, TypeOK
    <2>3. \A v \in Users : v # u => member'[v] = member[v]
      BY <1>4 DEF TypeOK
    <2>4. member'[u] \in MemberRow
      <3>1. member'[u] = [member[u] EXCEPT !.active = FALSE, !.version = @ + 1]
        BY <1>4, <2>2 DEF TypeOK
      <3>2. member[u].version + 1 \in Nat /\ member[u].role \in Roles
            /\ member[u] = [role |-> member[u].role, active |-> member[u].active,
                            version |-> member[u].version]
        BY <2>2 DEF MemberRow
      <3>3. member'[u] = [role |-> member[u].role, active |-> FALSE,
                          version |-> member[u].version + 1]
        BY <3>1, <3>2
      <3>4. QED
        BY <3>2, <3>3 DEF MemberRow
    <2>5. member' \in [Users -> MemberRow \cup {Nil}]
      BY <1>4, <2>2, <2>3, <2>4 DEF TypeOK
    <2>6. TypeOK'
      BY <1>2, <2>1, <2>5 DEF TypeOK, tx
    <2>7. \A v \in Users : Linked(v)' = Linked(v)
      BY <2>1 DEF Linked
    <2>8. \A v \in Users : Exists(v) => Exists(v)'
      BY <2>3, <2>4, AccessAssumption DEF Exists
    <2>9. Touched(d, TRUE) = {<<"driver", d>>, <<"member", u>>}
      BY DEF Touched
    <2>10. Frame(Touched(d, TRUE))
      BY <1>2, <2>1, <2>3, <2>7, <2>8, <2>9 DEF Frame, Made
    <2>11. Free(Touched(d, TRUE))
      <3> SUFFICES ASSUME NEW s \in Sessions, NEW p \in Held(s),
                          NEW q \in {<<"driver", d>>, <<"member", u>>}
                   PROVE  ~ Conflict(p, q)
        BY <2>9 DEF Free
      <3>1. CASE q = <<"driver", d>>
        BY <1>2, <3>1 DEF Free
      <3>2. CASE q = <<"member", u>> /\ u # Nil
        BY <1>4, <3>2 DEF Free
      <3>3. CASE q = <<"member", u>> /\ u = Nil
        BY <3>3 DEF Conflict
      <3>4. QED
        BY <3>1, <3>2, <3>3
    <2>12. QED
      BY <2>1, <2>6, <2>8, <2>10, <2>11
  <1>5. \/ \E row \in DriverRow : /\ row.account = u
                                 /\ driver' = [driver EXCEPT ![d] = row] /\ member' = member
        \/ /\ u # Nil /\ Free({<<"member", u>>})
           /\ driver' = [driver EXCEPT ![d] = archived]
           /\ member' = [member EXCEPT ![u] = disabled]
    <2>1. \A e \in Emails : LET row == [driver[d] EXCEPT !.email = e]
                           IN  row \in DriverRow /\ row.account = u
      BY <1>1 DEF DriverRow
    <2>2. \A b \in BOOLEAN : LET row == [driver[d] EXCEPT !.active = b]
                             IN  row \in DriverRow /\ row.account = u
      BY <1>1 DEF DriverRow
    <2>3. QED
      BY <2>1, <2>2 DEF DriverChanged
  <1>6. QED
    BY <1>3, <1>4, <1>5

-----------------------------------------------------------------------------
(* What no step but a commit changes: who has an account, and by which     *)
(* invitation.                                                             *)
LEMMA AccountsStay ==
    ASSUME TypeOK, Linkage, OneAccount, NEW h, Frame(h), email' = email,
           \A i \in Invitations : ~ Made(i) => ~ Made(i)',
           \A i \in Invitations : Made(i) =>
              /\ invitation'[i].account = invitation[i].account
              /\ invitation'[i].status = invitation[i].status,
           \A d \in Drivers : driver'[d].account = driver[d].account
    PROVE  Linkage' /\ OneAccount'
  <1>1. \A i \in Invitations : Made(i)' => Made(i)
    OBVIOUS
  <1>2. \A i \in Invitations : Made(i) =>
          /\ invitation'[i].email = invitation[i].email
          /\ invitation'[i].driver = invitation[i].driver
    BY DEF Frame
  <1>3. \A i \in Invitations : Made(i) => invitation[i].driver \in Drivers \cup {Nil}
    BY DEF TypeOK, Made, InvitationRow
  <1>4. \A d \in Drivers : driver[d].account \in Users \cup {Nil}
    BY DEF TypeOK, DriverRow
  <1>5. \A v \in Users : Exists(v) => Exists(v)'
    BY DEF Frame
  <1>6. Linkage'
    <2>1. \A v \in Users : member[v] # Nil => member'[v] # Nil
      BY <1>5 DEF Exists
    <2>2. \A d \in Drivers : driver'[d].account # Nil => member'[driver'[d].account] # Nil
      BY <1>4, <2>1 DEF Linkage, Exists
    <2>3. \A i \in Invitations : Made(i)' /\ invitation'[i].status = "ACCEPTED" =>
             invitation[i].account \in Users /\ Exists(invitation[i].account)
      BY <1>1 DEF Linkage
    <2>4. \A i \in Invitations : Made(i)' /\ invitation'[i].status = "ACCEPTED" =>
             invitation'[i].account \in Users /\ member'[invitation'[i].account] # Nil
      BY <1>1, <2>1, <2>3 DEF Exists
    <2>5. QED
      BY <2>2, <2>4 DEF Linkage, Exists
  <1>7. \A i \in Invitations : Pending(i)' => Pending(i)
    BY <1>1 DEF Pending, Made
  <1>8. OneAccount'
    <2>1. \A u, v \in Users : email'[u] = email'[v] /\ email'[u] # Nil => u = v
      BY DEF OneAccount
    <2>2. \A c, d \in Drivers : driver'[c].account = driver'[d].account
                                /\ driver'[d].account # Nil => c = d
      BY DEF OneAccount
    <2>3. \A i, j \in Invitations :
         /\ invitation'[i] # Nil /\ invitation'[j] # Nil
         /\ {invitation'[i].status, invitation'[j].status} = {"ACCEPTED"}
         => /\ invitation'[i].account = invitation'[j].account => i = j
            /\ invitation'[i].driver # Nil
                 => driver'[invitation'[i].driver].account = invitation'[i].account
      BY <1>1, <1>2, <1>3 DEF OneAccount, Made
    <2>4. \A i, j \in Invitations :
             Pending(i)' /\ Pending(j)' /\ invitation'[i].email = invitation'[j].email
                => i = j
      BY <1>2, <1>7 DEF OneAccount, Pending, Made
    <2>5. QED
      BY <2>1, <2>2, <2>3, <2>4 DEF OneAccount
  <1>9. QED
    BY <1>6, <1>8

(* The token of an invitation and the mail sent with it.                   *)
LEMMA MailStays ==
    ASSUME Mailed, DeliveryTold, mail' = mail,
           \A i \in Invitations : ~ Made(i) => ~ Made(i)',
           \A i \in Invitations : Made(i) =>
              /\ invitation'[i].token = invitation[i].token
              /\ invitation'[i].delivery = invitation[i].delivery
              /\ Pending(i)' => Pending(i)
    PROVE  Mailed' /\ DeliveryTold'
  <1>1. \A i \in Invitations : Made(i)' => Made(i)
    OBVIOUS
  <1>2. Mailed'
    BY <1>1 DEF Mailed, Fresh
  <1>3. DeliveryTold'
    BY <1>1 DEF DeliveryTold, Made
  <1>4. QED
    BY <1>2, <1>3

LEMMA AnswerInv ==
    ASSUME IInv, NEW k \in Tokens, Answer(k)
    PROVE  IInv'
  <1>1. TypeOK /\ Locking /\ Linkage /\ Mailed /\ OneAccount /\ DeliveryTold
    BY DEF IInv
  <1>2. UNCHANGED <<member, email, driver, tx>>
    BY DEF Answer
  <1>3. Frame({}) /\ TypeOK'
    BY <1>1, AnswerFrame
  <1>4. Locking'
    BY <1>1, <1>2, <1>3, LocksStay DEF tx
  <1>5. Linkage' /\ OneAccount'
    BY <1>1, <1>2, <1>3, AnswerFrame, AccountsStay
  <1>6. Mailed'
    <2>1. \A t \in Tokens : ~ Fresh(t)' => mail'[t].id \in Invitations
      BY <1>1, AnswerFrame DEF Mailed, Fresh
    <2>2. \A i \in Invitations : Made(i)' =>
             Made(i) /\ invitation'[i].token = invitation[i].token
      BY <1>1, AnswerFrame
    <2>3. \A i \in Invitations : Made(i)' =>
          (~ Fresh(invitation[i].token))' /\ mail'[invitation'[i].token].id = i
      <3> SUFFICES ASSUME NEW i \in Invitations, Made(i)'
                   PROVE  /\ mail'[invitation'[i].token].state # "unused"
                          /\ mail'[invitation'[i].token].id = i
        BY DEF Fresh
      <3>1. Made(i) /\ invitation'[i].token = invitation[i].token
            /\ invitation[i].token \in Tokens
        BY <1>1, <2>2 DEF TypeOK, Made, InvitationRow
      <3>2. mail[invitation[i].token].state # "unused" /\ mail[invitation[i].token].id = i
        BY <1>1, <3>1 DEF Mailed, Fresh
      <3>3. CASE invitation[i].token = k
        BY <1>1, <3>1, <3>2, <3>3, AnswerFrame DEF Fresh
      <3>4. CASE invitation[i].token # k
        BY <1>1, <3>1, <3>2, <3>4, AnswerFrame
      <3>5. QED
        BY <3>3, <3>4
    <2>4. QED
      BY <2>1, <2>3 DEF Mailed, Fresh
  <1>7. DeliveryTold'
    <2> SUFFICES ASSUME NEW i \in Invitations, Made(i)'
                 PROVE  \/ invitation'[i].delivery = mail'[invitation'[i].token].state
                        \/ /\ invitation'[i].delivery = "PENDING"
                           /\ mail'[invitation'[i].token].state = "sending" \/ ~ Pending(i)'
      BY DEF DeliveryTold, Made
    <2>1. Made(i) /\ invitation'[i].token = invitation[i].token
          /\ invitation[i].token \in Tokens /\ (Pending(i)' <=> Pending(i))
      <3>1. Made(i) /\ invitation'[i].token = invitation[i].token
            /\ invitation'[i].status = invitation[i].status
        BY <1>1, AnswerFrame
      <3>2. QED
        BY <1>1, <3>1 DEF TypeOK, Made, InvitationRow, Pending
    <2>2. \/ invitation[i].delivery = mail[invitation[i].token].state
          \/ /\ invitation[i].delivery = "PENDING"
             /\ mail[invitation[i].token].state = "sending" \/ ~ Pending(i)
      BY <1>1, <2>1 DEF DeliveryTold, Made
    <2>3. CASE Pending(i) /\ invitation[i].token = k
      BY <1>1, <2>1, <2>3, AnswerFrame
    <2>4. CASE ~ Pending(i) /\ invitation[i].token = k
      <3>1. invitation'[i].delivery = invitation[i].delivery
        BY <1>1, <2>1, <2>4, AnswerFrame
      <3>2. mail[k].state = "sending"
        BY DEF Answer
      <3>3. invitation[i].delivery \in {"PENDING", "SENT", "FAILED", "MANUAL"}
        BY <1>1, <2>1 DEF TypeOK, Made, InvitationRow
      <3>4. invitation[i].delivery = "PENDING"
        BY <2>2, <2>4, <3>2, <3>3
      <3>5. QED
        BY <2>1, <2>4, <3>1, <3>4
    <2>5. CASE invitation[i].token # k
      <3>1. mail'[invitation[i].token] = mail[invitation[i].token]
            /\ invitation'[i].delivery = invitation[i].delivery
        BY <1>1, <2>1, <2>5, AnswerFrame
      <3>2. QED
        BY <2>1, <2>2, <3>1
    <2>6. QED
      BY <2>3, <2>4, <2>5
  <1>8. QED
    BY <1>3, <1>4, <1>5, <1>6, <1>7 DEF IInv

LEMMA AgeInv ==
    ASSUME IInv, NEW k \in Invitations, Age(k)
    PROVE  IInv'
  <1>1. TypeOK /\ Locking /\ Linkage /\ Mailed /\ OneAccount /\ DeliveryTold
    BY DEF IInv
  <1>2. UNCHANGED <<member, email, driver, mail, tx>>
    BY DEF Age
  <1>3. Frame({}) /\ TypeOK'
    BY <1>1, AgeFrame
  <1>4. Locking'
    BY <1>1, <1>2, <1>3, LocksStay DEF tx
  <1>5. Linkage' /\ OneAccount'
    BY <1>1, <1>2, <1>3, AgeFrame, AccountsStay
  <1>6. Mailed' /\ DeliveryTold'
    <2>1. \A i \in Invitations : Made(i) => (Pending(i)' => Pending(i))
      BY <1>1, AgeFrame DEF Pending, Made
    <2>2. QED
      BY <1>1, <1>2, <2>1, AgeFrame, MailStays
  <1>7. QED
    BY <1>3, <1>4, <1>5, <1>6 DEF IInv

LEMMA DriverInv ==
    ASSUME IInv, NEW d \in Drivers, DriverChanged(d)
    PROVE  IInv'
  <1>1. TypeOK /\ Locking /\ Linkage /\ Mailed /\ OneAccount /\ DeliveryTold
    BY DEF IInv
  <1>2. UNCHANGED <<email, invitation, mail, tx>>
    BY DEF DriverChanged
  <1>3. PICK archived \in BOOLEAN :
          Frame(Touched(d, archived)) /\ Free(Touched(d, archived))
    BY <1>1, DriverFrame
  <1>4. /\ TypeOK' /\ \A c \in Drivers : driver'[c].account = driver[c].account
    BY <1>1, DriverFrame
  <1>5. Locking'
    <2>1. \A t \in Sessions : \A p \in Touched(d, archived), q \in Held(t) : ~ Conflict(p, q)
      BY <1>3 DEF Free, Conflict
    <2>2. QED
      BY <1>1, <1>2, <1>3, <2>1, LocksStay DEF tx
  <1>6. Linkage' /\ OneAccount'
    <2>1. \A i \in Invitations : ~ Made(i) => ~ Made(i)'
      BY <1>2 DEF Made
    <2>2. QED
      BY <1>1, <1>2, <1>3, <1>4, <2>1, AccountsStay
  <1>7. Mailed' /\ DeliveryTold'
    BY <1>1, <1>2, MailStays DEF Made, Pending
  <1>8. QED
    BY <1>4, <1>5, <1>6, <1>7 DEF IInv

-----------------------------------------------------------------------------
(* A step of a transaction that does not write.                            *)
LEMMA DataStays ==
    ASSUME IInv, UNCHANGED data, Locking',
           phase' \in [Sessions -> {"idle", "begun", "checked"}], DOMAIN req' = Sessions
    PROVE  IInv'
  <1>1. TypeOK'
    BY DEF IInv, TypeOK, data
  <1>2. Linkage' /\ Mailed'
    BY DEF IInv, Linkage, Mailed, data, Made, Exists, Fresh
  <1>3. OneAccount' /\ DeliveryTold'
    BY DEF IInv, OneAccount, DeliveryTold, data, Pending
  <1>4. QED
    BY <1>1, <1>2, <1>3 DEF IInv

LEMMA OpenInv ==
    ASSUME IInv, NEW s \in Sessions, Opens(s)
    PROVE  IInv'
  <1>1. TypeOK /\ Locking /\ Mailed
    BY DEF IInv
  <1>2. PICK r : Sensible(r) /\ Begin(s, r)
    BY <1>1, Opening
  <1>3. /\ UNCHANGED data /\ phase'[s] = "begun" /\ req'[s] = r
        /\ \A t \in Sessions : t # s => phase'[t] = phase[t] /\ req'[t] = req[t]
        /\ phase' \in [Sessions -> {"idle", "begun", "checked"}] /\ DOMAIN req' = Sessions
    BY <1>1, <1>2 DEF Begin, TypeOK
  <1>4. Sensible(req[s])'
    BY <1>2, <1>3 DEF Sensible, Made, Exists, data
  <1>5. Frame({})
    BY <1>3, Still
  <1>6. \A t \in Sessions : t # s /\ phase[t] # "idle" =>
          /\ Sensible(req[t])' /\ Held(t)' = Held(t)
          /\ Accepting(t) => Admitted(req[t])'
    BY <1>1, <1>3, <1>5, Survives
  <1>7. Held(s)' = {} /\ ~ Accepting(s)'
    BY <1>3 DEF Held, Accepting
  <1>8. \A t \in Sessions : t # s /\ phase[t] = "idle" => Held(t)' = {}
    BY <1>3 DEF Held
  <1>9. Locking'
    <2>1. Requests'
      BY <1>3, <1>4, <1>6 DEF Requests
    <2>2. Apart'
      BY <1>1, <1>6, <1>7, <1>8 DEF Locking, Apart, Conflict
    <2>3. \A t \in Sessions : Accepting(t)' => t # s /\ phase[t] # "idle" /\ Accepting(t)
      BY <1>3, <1>7 DEF Accepting
    <2>4. AcceptStands'
      BY <1>6, <2>3 DEF AcceptStands
    <2>5. QED
      BY <2>1, <2>2, <2>4 DEF Locking
  <1>10. QED
    BY <1>3, <1>9, DataStays

(* The checks are made when the locks are taken.                           *)
LEMMA CheckInv ==
    ASSUME IInv, NEW s \in Sessions, Check(s)
    PROVE  IInv'
  <1>1. TypeOK /\ Locking
    BY DEF IInv
  <1>2. /\ UNCHANGED <<data, req>> /\ phase[s] = "begun" /\ phase'[s] = "checked"
        /\ \A t \in Sessions : t # s => phase'[t] = phase[t] /\ req'[t] = req[t]
        /\ phase' \in [Sessions -> {"idle", "begun", "checked"}] /\ DOMAIN req' = Sessions
    BY <1>1 DEF Check, TypeOK
  <1>3. Frame({})
    BY <1>2, Still
  <1>4. \A t \in Sessions : t # s /\ phase[t] # "idle" =>
          /\ Sensible(req[t])' /\ Held(t)' = Held(t)
          /\ Accepting(t) => Admitted(req[t])'
    BY <1>1, <1>2, <1>3, Survives
  <1>5. \A t \in Sessions : t # s /\ phase[t] = "idle" => Held(t)' = {}
    BY <1>2 DEF Held
  <1>6. Sensible(req[s])' /\ Held(s)' = Rows(req[s])
    <2>1. Sensible(req[s])
      BY <1>1, <1>2 DEF Locking, Requests
    <2>2. Sensible(req[s])'
      BY <1>2, <2>1 DEF Sensible, Made, Exists, data
    <2>3. Rows(req[s])' = Rows(req[s])
      BY <1>2 DEF Rows, Linked, data
    <2>4. QED
      BY <1>2, <2>2, <2>3 DEF Held
  <1>7. Free(Rows(req[s])) /\ Allowed(req[s])
    BY DEF Check
  <1>8. Accepting(s)' => Admitted(req[s])'
    <2> SUFFICES ASSUME Accepting(s)' PROVE Admitted(req[s])'
      OBVIOUS
    <2>1. Admitted(req[s])
      BY <1>2, <1>7 DEF Accepting, Allowed, CanAccept, Usable, Admitted
    <2>2. QED
      BY <1>2, <2>1
         DEF data, Admitted, Pending, IssuerLive, MayInvite, IsAdmin, IsLive, Exists, DriverFits
  <1>9. Locking'
    <2>1. Requests'
      BY <1>2, <1>4, <1>6 DEF Requests
    <2>2. \A t \in Sessions : t # s => \A p \in Held(t)', q \in Held(s)' : ~ Conflict(p, q)
      BY <1>4, <1>5, <1>6, <1>7 DEF Free
    <2>3. Apart'
      BY <1>1, <1>4, <1>5, <2>2 DEF Locking, Apart, Conflict
    <2>4. \A t \in Sessions : t # s /\ Accepting(t)' => phase[t] # "idle" /\ Accepting(t)
      BY <1>2 DEF Accepting
    <2>5. AcceptStands'
      BY <1>4, <1>8, <2>4 DEF AcceptStands
    <2>6. QED
      BY <2>1, <2>3, <2>5 DEF Locking
  <1>10. QED
    BY <1>2, <1>9, DataStays

LEMMA EndInv ==
    ASSUME IInv, NEW s \in Sessions, Refuse(s) \/ Abort(s)
    PROVE  IInv'
  <1>1. TypeOK /\ Locking
    BY DEF IInv
  <1>2. /\ UNCHANGED data /\ phase'[s] = "idle"
        /\ \A t \in Sessions : t # s => phase'[t] = phase[t] /\ req'[t] = req[t]
        /\ phase' \in [Sessions -> {"idle", "begun", "checked"}] /\ DOMAIN req' = Sessions
    BY <1>1 DEF Refuse, Abort, End, TypeOK
  <1>3. Frame({})
    BY <1>2, Still
  <1>4. Locking'
    BY <1>1, <1>2, <1>3, LocksStay
  <1>5. QED
    BY <1>2, <1>4, DataStays

LEMMA CommitLocks ==
    ASSUME IInv, NEW s \in Sessions, Commit(s)
    PROVE  /\ Locking' /\ phase' \in [Sessions -> {"idle", "begun", "checked"}]
           /\ DOMAIN req' = Sessions
  <1>1. TypeOK /\ Locking
    BY DEF IInv
  <1>2. /\ phase'[s] = "idle"
        /\ \A t \in Sessions : t # s => phase'[t] = phase[t] /\ req'[t] = req[t]
        /\ phase' \in [Sessions -> {"idle", "begun", "checked"}] /\ DOMAIN req' = Sessions
    BY <1>1 DEF Commit, End, TypeOK
  <1>3. Frame(Held(s))
    BY CommitFrame
  <1>4. \A t \in Sessions : t # s => \A p \in Held(s), q \in Held(t) : ~ Conflict(p, q)
    BY <1>1 DEF Locking, Apart
  <1>5. QED
    BY <1>1, <1>2, <1>3, <1>4, LocksStay

-----------------------------------------------------------------------------
(* What OneAccount says of accepted invitations, two at a time.            *)
Accepted(i) == Made(i) /\ invitation[i].status = "ACCEPTED"
Apiece ==
    \A i, j \in Invitations : Accepted(i) /\ Accepted(j) =>
        /\ invitation[i].account = invitation[j].account => i = j
        /\ invitation[i].driver # Nil
             => driver[invitation[i].driver].account = invitation[i].account

LEMMA AcceptedApart ==
    /\ OneAccount => Apiece
    /\ /\ \A u, v \in Users : email'[u] = email'[v] /\ email'[u] # Nil => u = v
       /\ \A c, d \in Drivers : driver'[c].account = driver'[d].account
                                /\ driver'[d].account # Nil => c = d
       /\ Apiece'
       /\ \A i, j \in Invitations :
             Pending(i)' /\ Pending(j)' /\ invitation'[i].email = invitation'[j].email
                => i = j
       => OneAccount'
  <1>1. \A a, b : a = "ACCEPTED" /\ b = "ACCEPTED" <=> {a, b} = {"ACCEPTED"}
    OBVIOUS
  <1>2. ASSUME OneAccount PROVE Apiece
    BY <1>1, <1>2 DEF OneAccount, Apiece, Accepted, Made
  <1>3. ASSUME Apiece'
        PROVE  \A j, k \in Invitations :
                 /\ invitation'[j] # Nil /\ invitation'[k] # Nil
                 /\ {invitation'[j].status, invitation'[k].status} = {"ACCEPTED"}
                 => /\ invitation'[j].account = invitation'[k].account => j = k
                    /\ invitation'[j].driver # Nil
                         => driver'[invitation'[j].driver].account = invitation'[j].account
    <2> SUFFICES ASSUME NEW j \in Invitations, NEW k \in Invitations,
                        invitation'[j] # Nil, invitation'[k] # Nil,
                        {invitation'[j].status, invitation'[k].status} = {"ACCEPTED"}
                 PROVE  /\ invitation'[j].account = invitation'[k].account => j = k
                        /\ invitation'[j].driver # Nil
                             => driver'[invitation'[j].driver].account = invitation'[j].account
      OBVIOUS
    <2>1. invitation'[j].status = "ACCEPTED" /\ invitation'[k].status = "ACCEPTED"
      BY <1>1
    <2>2. QED
      BY <1>3, <2>1 DEF Apiece, Accepted, Made
  <1>4. QED
    BY <1>2, <1>3 DEF OneAccount

(* An invitation is issued: made anew, or the old one with a new token.    *)
LEMMA Issuing ==
    ASSUME IInv, NEW s \in Sessions, Commit(s), req[s].op \in {"invite", "resend"}
    PROVE  /\ UNCHANGED <<member, email, driver>>
           /\ \E i \in Invitations, t \in Tokens :
                /\ Fresh(t) /\ mail' = Posted(t, i)
                /\ invitation' = [invitation EXCEPT ![i] = invitation'[i]]
                /\ invitation'[i] \in InvitationRow
                /\ invitation'[i].token = t /\ invitation'[i].delivery = "PENDING"
                /\ \/ /\ invitation[i] = Nil /\ invitation'[i].status = "PENDING"
                      /\ ~ OpenFor(invitation'[i].email)
                   \/ /\ Made(i)
                      /\ invitation'[i].status = invitation[i].status
                      /\ invitation'[i].account = invitation[i].account
                      /\ invitation'[i].driver = invitation[i].driver
                      /\ invitation'[i].email = invitation[i].email
  <1> DEFINE r == req[s]
  <1>1. TypeOK /\ Sensible(r)
    BY DEF IInv, Locking, Requests, Commit
  <1>2. CASE r.op = "invite"
    <2>1. Invite(r)
      BY <1>2 DEF Commit
    <2>2. ~ OpenFor(r.email) /\ UNCHANGED <<member, email, driver>>
      BY <2>1 DEF Invite
    <2>3. PICK i \in Invitations, t \in Tokens :
            /\ invitation[i] = Nil /\ Fresh(t)
            /\ invitation' = [invitation EXCEPT ![i] = Issued(Blank(r), r.user, t)]
            /\ mail' = Posted(t, i)
      BY <2>1 DEF Invite
    <2>4. invitation'[i] = Issued(Blank(r), r.user, t)
      BY <1>1, <2>3 DEF TypeOK
    <2>5. invitation' = [invitation EXCEPT ![i] = invitation'[i]]
      BY <2>3, <2>4
    <2>6. /\ invitation'[i] \in InvitationRow /\ invitation'[i].email = r.email
          /\ invitation'[i].status = "PENDING" /\ invitation'[i].token = t
          /\ invitation'[i].delivery = "PENDING"
      BY <1>1, <1>2, <2>4, NewRow
    <2>7. QED
      BY <2>2, <2>3, <2>5, <2>6
  <1>3. CASE r.op = "resend"
    <2>1. Resend(r)
      BY <1>3 DEF Commit
    <2>2. UNCHANGED <<member, email, driver>>
      BY <2>1 DEF Resend
    <2>3. PICK t \in Tokens :
            /\ Fresh(t) /\ mail' = Posted(t, r.id)
            /\ invitation' = [invitation EXCEPT ![r.id] = Issued(@, r.user, t)]
      BY <2>1 DEF Resend
    <2>4. Made(r.id) /\ r.id \in Invitations /\ invitation[r.id] \in InvitationRow
          /\ r.user \in Users /\ Exists(r.user)
      BY <1>1, <1>3 DEF Sensible, Made, TypeOK
    <2>5. invitation'[r.id] = Issued(invitation[r.id], r.user, t)
      BY <1>1, <2>3, <2>4 DEF TypeOK
    <2>6. invitation' = [invitation EXCEPT ![r.id] = invitation'[r.id]]
      BY <2>3, <2>5
    <2>7. /\ invitation'[r.id] \in InvitationRow /\ invitation'[r.id].token = t
          /\ invitation'[r.id].delivery = "PENDING"
          /\ invitation'[r.id].status = invitation[r.id].status
          /\ invitation'[r.id].account = invitation[r.id].account
          /\ invitation'[r.id].driver = invitation[r.id].driver
          /\ invitation'[r.id].email = invitation[r.id].email
      BY <1>1, <2>4, <2>5, IssuedRow
    <2>8. QED
      BY <2>2, <2>3, <2>4, <2>6, <2>7
  <1>4. QED
    BY <1>2, <1>3

LEMMA IssueInv ==
    ASSUME IInv, NEW s \in Sessions, Commit(s), req[s].op \in {"invite", "resend"}
    PROVE  IInv'
  <1>1. TypeOK /\ Locking /\ Linkage /\ Mailed /\ OneAccount /\ DeliveryTold
    BY DEF IInv
  <1>2. UNCHANGED <<member, email, driver>>
    BY Issuing
  <1>3. PICK i \in Invitations, t \in Tokens :
          /\ Fresh(t) /\ mail' = Posted(t, i)
          /\ invitation' = [invitation EXCEPT ![i] = invitation'[i]]
          /\ invitation'[i] \in InvitationRow
          /\ invitation'[i].token = t /\ invitation'[i].delivery = "PENDING"
          /\ \/ /\ invitation[i] = Nil /\ invitation'[i].status = "PENDING"
                /\ ~ OpenFor(invitation'[i].email)
             \/ /\ Made(i)
                /\ invitation'[i].status = invitation[i].status
                /\ invitation'[i].account = invitation[i].account
                /\ invitation'[i].driver = invitation[i].driver
                /\ invitation'[i].email = invitation[i].email
    BY Issuing
  <1>4. /\ invitation' \in [Invitations -> InvitationRow \cup {Nil}]
        /\ \A j \in Invitations : j # i => invitation'[j] = invitation[j]
    BY <1>1, <1>3 DEF TypeOK
  <1>5. /\ mail' \in [Tokens -> [state : {"unused", "sending", "SENT", "FAILED", "MANUAL"},
                                 id : Invitations \cup {Nil}]]
        /\ mail'[t].state = "sending" /\ mail'[t].id = i
        /\ \A k \in Tokens : k # t => mail'[k] = mail[k]
    BY <1>1, <1>3 DEF TypeOK, Posted
  <1>6. Made(i)' /\ \A j \in Invitations : j # i => (Made(j)' <=> Made(j))
    BY <1>3, <1>4, AccessAssumption DEF Made
  <1>7. \A j \in Invitations : j # i /\ Made(j) =>
          invitation[j].token \in Tokens /\ invitation[j].token # t
          /\ ~ Fresh(invitation[j].token)
    BY <1>1, <1>3 DEF Mailed, TypeOK, Made, InvitationRow
  <1>8. TypeOK'
    BY <1>1, <1>2, <1>4, <1>5, CommitLocks DEF TypeOK
  <1>9. Linkage'
    <2>1. \A j \in Invitations : Made(j)' /\ invitation'[j].status = "ACCEPTED" =>
             /\ Made(j) /\ invitation[j].status = "ACCEPTED"
             /\ invitation'[j].account = invitation[j].account
      BY <1>3, <1>4, <1>6
    <2>2. QED
      BY <1>1, <1>2, <2>1 DEF Linkage, Exists
  <1>10. Mailed'
    <2>1. \A k \in Tokens : ~ Fresh(k)' => mail'[k].id \in Invitations
      BY <1>1, <1>5 DEF Mailed, Fresh
    <2>2. \A j \in Invitations : Made(j)' =>
            mail'[invitation'[j].token].state # "unused" /\ mail'[invitation'[j].token].id = j
      BY <1>1, <1>3, <1>4, <1>5, <1>6, <1>7 DEF Mailed, Fresh
    <2>3. QED
      BY <2>1, <2>2 DEF Mailed, Fresh
  <1>11. DeliveryTold'
    <2>1. \A j \in Invitations : j # i /\ Made(j) =>
            \/ invitation'[j].delivery = mail'[invitation'[j].token].state
            \/ /\ invitation'[j].delivery = "PENDING"
               /\ mail'[invitation'[j].token].state = "sending" \/ ~ Pending(j)'
      BY <1>1, <1>4, <1>5, <1>7 DEF DeliveryTold, Made, Pending
    <2>2. QED
      BY <1>3, <1>5, <1>6, <2>1 DEF DeliveryTold, Made
  <1>12. OneAccount'
    <2>1. \A u, v \in Users : email'[u] = email'[v] /\ email'[u] # Nil => u = v
      BY <1>1, <1>2 DEF OneAccount
    <2>2. \A c, d \in Drivers : driver'[c].account = driver'[d].account
                                /\ driver'[d].account # Nil => c = d
      BY <1>1, <1>2 DEF OneAccount
    <2>3. \A j \in Invitations : Accepted(j)' =>
             /\ Accepted(j)
             /\ invitation'[j].account = invitation[j].account
             /\ invitation'[j].driver = invitation[j].driver
      BY <1>3, <1>4, <1>6 DEF Accepted
    <2>4. Apiece'
      BY <1>1, <1>2, <2>3, AcceptedApart DEF Apiece
    <2>5. \A j, k \in Invitations :
             Pending(j)' /\ Pending(k)' /\ invitation'[j].email = invitation'[k].email
                => j = k
      <3>1. CASE invitation[i] = Nil /\ ~ OpenFor(invitation'[i].email)
        BY <1>1, <1>4, <3>1 DEF OneAccount, OpenFor, Pending
      <3>2. CASE /\ Made(i) /\ invitation'[i].status = invitation[i].status
                 /\ invitation'[i].email = invitation[i].email
        BY <1>1, <1>4, <3>2 DEF OneAccount, Pending, Made
      <3>3. QED
        BY <1>3, <3>1, <3>2
    <2>6. QED
      BY <2>1, <2>2, <2>4, <2>5, AcceptedApart
  <1>13. QED
    BY <1>8, <1>9, <1>10, <1>11, <1>12, CommitLocks DEF IInv

LEMMA RevokeInv ==
    ASSUME IInv, NEW s \in Sessions, Commit(s), req[s].op = "revoke"
    PROVE  IInv'
  <1> DEFINE i == req[s].id
  <1>1. TypeOK /\ Locking /\ Linkage /\ Mailed /\ OneAccount /\ DeliveryTold
    BY DEF IInv
  <1>2. Revoke(req[s]) /\ Made(i)
    BY <1>1 DEF Commit, Locking, Requests, Sensible
  <1>3. /\ UNCHANGED <<member, email, driver, mail>>
        /\ invitation' = [invitation EXCEPT ![i].status = "REVOKED"]
        /\ i \in Invitations /\ invitation[i] \in InvitationRow
    BY <1>1, <1>2 DEF Revoke, Made, TypeOK
  <1>4. invitation'[i] = [invitation[i] EXCEPT !.status = "REVOKED"]
        /\ \A j \in Invitations : j # i => invitation'[j] = invitation[j]
    BY <1>1, <1>3 DEF TypeOK
  <1>5. /\ invitation'[i] \in InvitationRow /\ invitation'[i].status = "REVOKED"
        /\ invitation'[i].token = invitation[i].token
        /\ invitation'[i].delivery = invitation[i].delivery
        /\ invitation'[i].account = invitation[i].account
        /\ invitation'[i].driver = invitation[i].driver
        /\ invitation'[i].email = invitation[i].email
    BY <1>3, <1>4 DEF InvitationRow
  <1>6. \A j \in Invitations : Made(j)' <=> Made(j)
    BY <1>2, <1>4, <1>5, AccessAssumption DEF Made
  <1>7. \A j \in Invitations : Made(j) =>
          /\ invitation'[j].token = invitation[j].token
          /\ invitation'[j].delivery = invitation[j].delivery
          /\ Pending(j)' => Pending(j)
    BY <1>4, <1>5 DEF Pending, Made
  <1>8. Mailed' /\ DeliveryTold'
    BY <1>1, <1>3, <1>6, <1>7, MailStays
  <1>9. TypeOK'
    <2>1. invitation' \in [Invitations -> InvitationRow \cup {Nil}]
      BY <1>1, <1>3, <1>4, <1>5 DEF TypeOK
    <2>2. QED
      BY <1>1, <1>3, <2>1, CommitLocks DEF TypeOK
  <1>10. \A j \in Invitations : Made(j)' /\ invitation'[j].status = "ACCEPTED" =>
           invitation'[j] = invitation[j] /\ Made(j)
    BY <1>4, <1>5, <1>6
  <1>11. Linkage'
    BY <1>1, <1>3, <1>10 DEF Linkage, Exists
  <1>12. OneAccount'
    <2>1. \A u, v \in Users : email'[u] = email'[v] /\ email'[u] # Nil => u = v
      BY <1>1, <1>3 DEF OneAccount
    <2>2. \A c, d \in Drivers : driver'[c].account = driver'[d].account
                                /\ driver'[d].account # Nil => c = d
      BY <1>1, <1>3 DEF OneAccount
    <2>3. Apiece'
      BY <1>1, <1>3, <1>10, AcceptedApart DEF Apiece, Accepted
    <2>4. \A j, k \in Invitations :
             Pending(j)' /\ Pending(k)' /\ invitation'[j].email = invitation'[k].email
                => j = k
      <3>1. \A j \in Invitations : Pending(j)' => j # i /\ invitation'[j] = invitation[j]
        BY <1>4, <1>5 DEF Pending
      <3>2. QED
        BY <1>1, <3>1 DEF OneAccount, Pending
    <2>5. QED
      BY <2>1, <2>2, <2>3, <2>4, AcceptedApart
  <1>13. QED
    BY <1>8, <1>9, <1>11, <1>12, CommitLocks DEF IInv

LEMMA ChangeInv ==
    ASSUME IInv, NEW s \in Sessions, Commit(s), req[s].op = "change"
    PROVE  IInv'
  <1> DEFINE r == req[s]
  <1>1. TypeOK /\ Locking /\ Linkage /\ Mailed /\ OneAccount /\ DeliveryTold
    BY DEF IInv
  <1>2. Change(r) /\ Sensible(r)
    BY <1>1 DEF Commit, Locking, Requests
  <1>3. UNCHANGED <<email, driver, invitation, mail>> /\ Frame(Held(s))
    BY <1>2, CommitFrame DEF Change
  <1>4. TypeOK'
    <2>1. r.target \in Users /\ member[r.target] \in MemberRow
      BY <1>1, <1>2 DEF Sensible, Exists, TypeOK
    <2>2. [role |-> r.role, active |-> r.active, version |-> member[r.target].version + 1]
             \in MemberRow
      BY <1>2, <2>1 DEF MemberRow, Sensible
    <2>3. member' \in [Users -> MemberRow \cup {Nil}]
      BY <1>1, <1>2, <2>1, <2>2 DEF Change, TypeOK
    <2>4. QED
      BY <1>1, <1>3, <2>3, CommitLocks DEF TypeOK
  <1>5. \A j \in Invitations : ~ Made(j) => ~ Made(j)'
    BY <1>3 DEF Made
  <1>6. Linkage' /\ OneAccount'
    BY <1>1, <1>3, <1>5, AccountsStay
  <1>7. Mailed' /\ DeliveryTold'
    BY <1>1, <1>3, <1>5, MailStays DEF Pending
  <1>8. QED
    BY <1>4, <1>6, <1>7, CommitLocks DEF IInv

(* The account an acceptance makes is new, and so are its links.           *)
LEMMA AcceptInv ==
    ASSUME IInv, NEW s \in Sessions, Commit(s), req[s].op = "accept"
    PROVE  IInv'
  <1> DEFINE i == req[s].id
             row == invitation[i]
             d == row.driver
  <1>1. TypeOK /\ Locking /\ Linkage /\ Mailed /\ OneAccount /\ DeliveryTold
    BY DEF IInv
  <1>2. Accept(req[s]) /\ Made(i) /\ i \in Invitations /\ row \in InvitationRow
    BY <1>1 DEF Commit, Locking, Requests, Sensible, Made, TypeOK
  <1>3. Pending(i) /\ DriverFits(i)
    BY <1>1 DEF Locking, AcceptStands, Accepting, Admitted, Commit
  <1>4. PICK u \in Users :
          /\ ~ Exists(u)
          /\ member' = [member EXCEPT ![u] =
                          [role |-> row.role, active |-> TRUE, version |-> 1]]
          /\ email' = [email EXCEPT ![u] = row.email]
          /\ driver' = [c \in Drivers |-> IF c = d
                          THEN [driver[c] EXCEPT !.account = u] ELSE driver[c]]
          /\ invitation' = [invitation EXCEPT ![i].status = "ACCEPTED", ![i].account = u]
    BY <1>2 DEF Accept
  <1>5. ~ Addressed(row.email) /\ mail' = mail
    BY <1>2 DEF Accept
  <1>6. /\ invitation'[i] = [row EXCEPT !.status = "ACCEPTED", !.account = u]
        /\ \A j \in Invitations : j # i => invitation'[j] = invitation[j]
    BY <1>1, <1>2, <1>4 DEF TypeOK
  <1>7. /\ invitation'[i] \in InvitationRow /\ invitation'[i].status = "ACCEPTED"
        /\ invitation'[i].account = u
        /\ invitation'[i].token = row.token /\ invitation'[i].delivery = row.delivery
        /\ invitation'[i].driver = d /\ invitation'[i].email = row.email
    BY <1>2, <1>6 DEF InvitationRow
  <1>8. \A j \in Invitations : Made(j)' <=> Made(j)
    BY <1>2, <1>6, <1>7, AccessAssumption DEF Made
  <1>9. /\ \A c \in Drivers : c # d => driver'[c] = driver[c]
        /\ d # Nil => d \in Drivers /\ driver[d].account = Nil
                      /\ driver'[d] = [driver[d] EXCEPT !.account = u]
                      /\ driver'[d].account = u
    <2>1. d \in Drivers \cup {Nil}
      BY <1>2 DEF InvitationRow
    <2>2. \A c \in Drivers : c # d => driver'[c] = driver[c]
      BY <1>4
    <2>3. ASSUME d # Nil
          PROVE  d \in Drivers /\ driver[d].account = Nil
                 /\ driver'[d] = [driver[d] EXCEPT !.account = u]
                 /\ driver'[d].account = u
      BY <1>1, <1>3, <1>4, <2>1, <2>3 DEF DriverFits, TypeOK, DriverRow
    <2>4. QED
      BY <2>2, <2>3
  <1>10. u # Nil /\ Nil \notin Drivers
    BY AccessAssumption
  <1>11. TypeOK'
    <2>1. invitation' \in [Invitations -> InvitationRow \cup {Nil}]
      BY <1>1, <1>4, <1>6, <1>7 DEF TypeOK
    <2>2. \A c \in Drivers : driver'[c] \in DriverRow
      BY <1>1, <1>9, <1>10 DEF TypeOK, DriverRow
    <2>3. driver' \in [Drivers -> DriverRow]
      BY <1>4, <2>2
    <2>4. [role |-> row.role, active |-> TRUE, version |-> 1] \in MemberRow
      BY <1>2 DEF MemberRow, InvitationRow
    <2>5. member' \in [Users -> MemberRow \cup {Nil}]
      BY <1>1, <1>4, <2>4 DEF TypeOK
    <2>6. email' \in [Users -> Emails \cup Users \cup {Nil}]
      BY <1>1, <1>2, <1>4 DEF TypeOK, InvitationRow
    <2>7. QED
      BY <1>1, <1>5, <2>1, <2>3, <2>5, <2>6, CommitLocks DEF TypeOK
  <1>12. \A v \in Users : Exists(v)' <=> v = u \/ Exists(v)
    <2>1. member'[u] = [role |-> row.role, active |-> TRUE, version |-> 1]
      BY <1>1, <1>4 DEF TypeOK
    <2>2. member'[u] \in MemberRow
      BY <1>2, <2>1 DEF MemberRow, InvitationRow
    <2>3. \A v \in Users : v # u => member'[v] = member[v]
      BY <1>1, <1>4 DEF TypeOK
    <2>4. QED
      BY <2>2, <2>3, AccessAssumption DEF Exists
  <1>13. \A j \in Invitations : Accepted(j)' /\ j # i =>
           /\ Accepted(j) /\ invitation'[j] = invitation[j]
           /\ invitation[j].account \in Users /\ invitation[j].account # u
           /\ invitation[j].account # Nil
    <2> SUFFICES ASSUME NEW j \in Invitations, Accepted(j)', j # i
                 PROVE  /\ Accepted(j) /\ invitation'[j] = invitation[j]
                        /\ invitation[j].account \in Users /\ invitation[j].account # u
                        /\ invitation[j].account # Nil
      OBVIOUS
    <2>1. invitation'[j] = invitation[j] /\ Accepted(j)
      BY <1>6, <1>8 DEF Accepted
    <2>2. invitation[j].account \in Users /\ Exists(invitation[j].account)
      BY <1>1, <2>1 DEF Linkage, Accepted
    <2>3. QED
      BY <1>4, <2>1, <2>2, AccessAssumption
  <1>14. Linkage'
    <2>1. \A c \in Drivers : driver'[c].account # Nil =>
             driver'[c].account \in Users /\ (driver'[c].account = u \/ Exists(driver'[c].account))
      BY <1>1, <1>9, <1>10 DEF Linkage, TypeOK, DriverRow
    <2>2. \A c \in Drivers : driver'[c].account # Nil => member'[driver'[c].account] # Nil
      BY <1>12, <2>1 DEF Exists
    <2>3. \A j \in Invitations : Accepted(j)' =>
             invitation'[j].account \in Users
             /\ (invitation'[j].account = u \/ Exists(invitation'[j].account))
      BY <1>1, <1>7, <1>13 DEF Linkage, Accepted
    <2>4. \A j \in Invitations : Accepted(j)' =>
             invitation'[j].account \in Users /\ member'[invitation'[j].account] # Nil
      BY <1>12, <2>3 DEF Exists
    <2>5. QED
      BY <2>2, <2>4 DEF Linkage, Accepted, Exists
  <1>15. Mailed' /\ DeliveryTold'
    <2>1. \A j \in Invitations : Made(j) =>
            /\ invitation'[j].token = invitation[j].token
            /\ invitation'[j].delivery = invitation[j].delivery
            /\ Pending(j)' => Pending(j)
      BY <1>6, <1>7 DEF Pending, Made
    <2>2. QED
      BY <1>1, <1>5, <1>8, <2>1, MailStays
  <1>16. OneAccount'
    <2>1. \A v, w \in Users : email'[v] = email'[w] /\ email'[v] # Nil => v = w
      <3>1. email'[u] = row.email /\ \A v \in Users : v # u => email'[v] = email[v]
        BY <1>1, <1>4 DEF TypeOK
      <3>2. QED
        BY <1>1, <1>5, <3>1 DEF OneAccount, Addressed
    <2>2. \A b, c \in Drivers : driver'[b].account = driver'[c].account
                                /\ driver'[c].account # Nil => b = c
      <3>1. \A c \in Drivers : c # d => driver[c].account # u
        BY <1>1, <1>4, <1>10 DEF Linkage
      <3>2. QED
        BY <1>1, <1>9, <1>10, <3>1 DEF OneAccount
    <2>3. Apiece'
      <3>1. Apiece
        BY <1>1, AcceptedApart
      <3>2. \A j \in Invitations : Accepted(j) =>
               invitation[j].driver \in Drivers \cup {Nil}
        BY <1>1 DEF Accepted, Made, TypeOK, InvitationRow
      <3>3. \A j \in Invitations : Accepted(j)' /\ j # i /\ invitation'[j].driver # Nil =>
               driver'[invitation'[j].driver].account = invitation'[j].account
        <4> SUFFICES ASSUME NEW j \in Invitations, Accepted(j)', j # i,
                            invitation'[j].driver # Nil
                     PROVE  driver'[invitation'[j].driver].account = invitation'[j].account
          OBVIOUS
        <4>1. Accepted(j) /\ invitation'[j] = invitation[j] /\ invitation[j].account # Nil
          BY <1>13
        <4>2. driver[invitation[j].driver].account = invitation[j].account
          BY <3>1, <4>1 DEF Apiece
        <4>3. invitation[j].driver \in Drivers /\ invitation[j].driver # d
          BY <1>9, <3>2, <4>1, <4>2
        <4>4. QED
          BY <1>9, <4>1, <4>2, <4>3
      <3>4. invitation'[i].driver # Nil =>
               driver'[invitation'[i].driver].account = invitation'[i].account
        BY <1>7, <1>9
      <3>5. \A j, k \in Invitations : Accepted(j)' /\ Accepted(k)'
               /\ invitation'[j].account = invitation'[k].account => j = k
        BY <1>7, <1>13, <3>1 DEF Apiece
      <3>6. QED
        BY <3>3, <3>4, <3>5 DEF Apiece
    <2>4. \A j, k \in Invitations :
             Pending(j)' /\ Pending(k)' /\ invitation'[j].email = invitation'[k].email
                => j = k
      <3>1. \A j \in Invitations : Pending(j)' => j # i /\ invitation'[j] = invitation[j]
        BY <1>6, <1>7 DEF Pending
      <3>2. QED
        BY <1>1, <3>1 DEF OneAccount, Pending
    <2>5. QED
      BY <2>1, <2>2, <2>3, <2>4, AcceptedApart
  <1>17. QED
    BY <1>11, <1>14, <1>15, <1>16, CommitLocks DEF IInv

-----------------------------------------------------------------------------
(* Every reachable state satisfies the inductive invariant: a transaction  *)
(* that has checked finds at its commit what it checked (the row locks of  *)
(* invitations/service.ts and accounts/service.ts).                        *)
THEOREM Invariance == Spec => []IInv
  <1>1. IInv /\ [Next]_vars => IInv'
    <2> SUFFICES ASSUME IInv, [Next]_vars PROVE IInv'
      OBVIOUS
    <2>1. CASE UNCHANGED vars
      <3>1. UNCHANGED data /\ UNCHANGED tx
        BY <2>1 DEF vars, data, tx
      <3>2. Frame({})
        BY <3>1, Still
      <3>3. Locking'
        BY <3>1, <3>2, LocksStay DEF tx, IInv
      <3>4. QED
        BY <3>1, <3>3, DataStays DEF tx, IInv, TypeOK
    <2>2. ASSUME NEW s \in Sessions, Opens(s) PROVE IInv'
      BY <2>2, OpenInv
    <2>3. ASSUME NEW s \in Sessions, Check(s) PROVE IInv'
      BY <2>3, CheckInv
    <2>4. ASSUME NEW s \in Sessions, Refuse(s) \/ Abort(s) PROVE IInv'
      BY <2>4, EndInv
    <2>5. ASSUME NEW s \in Sessions, Commit(s) PROVE IInv'
      BY <2>5, IssueInv, RevokeInv, AcceptInv, ChangeInv DEF Commit
    <2>6. ASSUME NEW t \in Tokens, Answer(t) PROVE IInv'
      BY <2>6, AnswerInv
    <2>7. ASSUME NEW i \in Invitations, Age(i) PROVE IInv'
      BY <2>7, AgeInv
    <2>8. ASSUME NEW d \in Drivers, DriverChanged(d) PROVE IInv'
      BY <2>8, DriverInv
    <2>9. QED
      BY <2>1, <2>2, <2>3, <2>4, <2>5, <2>6, <2>7, <2>8 DEF Next, Opens
  <1>2. QED
    BY InitInv, <1>1, PTL DEF Spec

(* One account per address, per accepted invitation and per driver, and    *)
(* one open invitation per address (acceptInvitation, createInvitation).   *)
THEOREM AccountsUnique == Spec => []OneAccount
  <1>1. IInv => OneAccount
    BY DEF IInv
  <1>2. QED
    BY Invariance, <1>1, PTL

(* What an open invitation says of its delivery became of its newest mail, *)
(* in whatever order the answers come (sendInvitation).                    *)
THEOREM DeliveryKnown == Spec => []DeliveryTold
  <1>1. IInv => DeliveryTold
    BY DEF IInv
  <1>2. QED
    BY Invariance, <1>1, PTL

(* An invitation is accepted only while its issuer has the rights it was   *)
(* issued under and its driver fits it (acceptInvitation).                 *)
THEOREM AdmissionSound == Spec => Admission
  <1> DEFINE A == \A i \in Invitations :
                    Pending(i) /\ invitation'[i].status = "ACCEPTED"
                      => Shown(i) # "INVALIDATED" /\ DriverFits(i)
  <1>1. ASSUME IInv, [Next]_vars PROVE A
    <2> SUFFICES ASSUME NEW i \in Invitations, Pending(i), invitation'[i].status = "ACCEPTED"
                 PROVE  Shown(i) # "INVALIDATED" /\ DriverFits(i)
      OBVIOUS
    <2>1. TypeOK /\ Locking /\ Linkage /\ Mailed /\ Made(i)
          /\ invitation[i].status = "PENDING" /\ invitation[i] # Nil
      BY <1>1 DEF IInv, Pending, Made
    <2>2. PICK s \in Sessions : Commit(s)
      <3>1. UNCHANGED invitation => FALSE
        BY <2>1
      <3>2. ASSUME NEW s \in Sessions, Opens(s) \/ Check(s) \/ Refuse(s) \/ Abort(s)
            PROVE  UNCHANGED invitation
        BY <3>2 DEF Opens, BeginInvite, BeginChangeInvitation, BeginAccept, BeginChange,
                    Begin, Check, Refuse, Abort, data
      <3>3. ASSUME NEW t \in Tokens, Answer(t) PROVE FALSE
        BY <2>1, <3>3, AnswerFrame
      <3>4. ASSUME NEW j \in Invitations, Age(j) PROVE FALSE
        BY <2>1, <3>4, AgeFrame
      <3>5. ASSUME NEW d \in Drivers, DriverChanged(d) PROVE UNCHANGED invitation
        BY <3>5 DEF DriverChanged
      <3>6. QED
        BY <1>1, <3>1, <3>2, <3>3, <3>4, <3>5 DEF Next, Opens, vars
    <2>3. req[s].op \notin {"invite", "resend"}
      <3> SUFFICES ASSUME req[s].op \in {"invite", "resend"} PROVE FALSE
        OBVIOUS
      <3>1. PICK j \in Invitations :
              /\ invitation' = [invitation EXCEPT ![j] = invitation'[j]]
              /\ \/ invitation[j] = Nil
                 \/ invitation'[j].status = invitation[j].status
        BY <1>1, <2>2, Issuing
      <3>2. QED
        BY <2>1, <3>1 DEF TypeOK
    <2>4. CASE req[s].op = "revoke"
      <3>1. invitation' = [invitation EXCEPT ![req[s].id].status = "REVOKED"]
        BY <2>2, <2>4 DEF Commit, Revoke
      <3>2. QED
        BY <2>1, <3>1 DEF TypeOK, InvitationRow
    <2>5. CASE req[s].op = "change"
      BY <2>1, <2>2, <2>5 DEF Commit, Change
    <2>6. CASE req[s].op = "accept"
      <3>1. Accept(req[s])
        BY <2>2, <2>6 DEF Commit
      <3>2. PICK u \in Users : invitation' = [invitation EXCEPT ![req[s].id].status = "ACCEPTED",
                                                                ![req[s].id].account = u]
        BY <3>1 DEF Accept
      <3>3. i = req[s].id
        BY <2>1, <3>2 DEF TypeOK
      <3>4. Admitted(req[s])
        BY <2>1, <2>2, <2>6 DEF Locking, AcceptStands, Accepting, Commit
      <3>5. QED
        BY <2>1, <3>3, <3>4 DEF Admitted, Shown
    <2>7. QED
      BY <2>2, <2>3, <2>4, <2>5, <2>6 DEF Commit
  <1>2. IInv /\ [Next]_vars => [A]_vars
    BY <1>1
  <1>3. Spec => [][A]_vars
    BY Invariance, <1>2, PTL DEF Spec
  <1>4. QED
    BY <1>3 DEF Admission
=============================================================================
