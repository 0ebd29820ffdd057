------------------------------- MODULE Access -------------------------------
(***************************************************************************)
(* Who gets into an organisation: invitations                              *)
(* (src/src/features/invitations) and account changes                      *)
(* (src/src/features/accounts/service.ts), concurrently.  A transaction    *)
(* locks its rows one by one, checks, then writes; mail leaves after the   *)
(* COMMIT that made its token, and its answer is recorded later still.     *)
(***************************************************************************)
EXTENDS Integers, FiniteSets

CONSTANTS
    Users,          \* accounts, existing or to be made
    SeedRole,       \* role of an existing account, Nil for the others
    SeedEmail,      \* addresses of the drivers
    Drivers, Emails, Invitations, Tokens,
    Offers,         \* [role, driver, email] people may be invited with
    Rights,         \* [role, active] an account may be given
    Sessions,       \* concurrent requests
    MaxVersion,     \* bound: memberships at this version are left alone
    Nil

VARIABLES
    member,         \* Membership of a user, Nil before the account exists
    email,          \* User.email, Nil before the account exists
    driver,         \* DriverProfile: active, email, linked account
    invitation,     \* Invitation, Nil before it is created
    mail,           \* what the transport did with the mail of a token
    phase, req      \* transactions

data == <<member, email, driver, invitation, mail>>
tx   == <<phase, req>>
vars == <<member, email, driver, invitation, mail, phase, req>>

Roles      == {"SUPER_ADMIN", "ADMIN", "DISPATCHER", "DRIVER"}
MemberRow  == [role : Roles, active : BOOLEAN, version : Nat]
DriverRow  == [active : BOOLEAN, email : Emails, account : Users \cup {Nil}]
InvitationRow ==
    [email : Emails \cup {Nil}, role : Roles, driver : Drivers \cup {Nil}, token : Tokens,
     status : {"PENDING", "ACCEPTED", "REVOKED"},
     delivery : {"PENDING", "SENT", "FAILED", "MANUAL"}, age : {"new", "open", "expired"},
     by : Users, byVersion : Nat, account : Users \cup {Nil}]

ASSUME AccessAssumption ==
    /\ SeedRole \in [Users -> Roles \cup {Nil}] /\ SeedEmail \in [Drivers -> Emails]
    /\ \A c, d \in Drivers : SeedEmail[c] = SeedEmail[d] => c = d
    /\ Offers \subseteq [role : Roles, driver : Drivers \cup {Nil}, email : Emails \cup {Nil}]
    /\ Rights \subseteq [role : Roles, active : BOOLEAN]
    /\ Nil \notin Roles \cup Users \cup Drivers \cup Invitations
    /\ Nil \notin MemberRow /\ Nil \notin InvitationRow

Fresh(t)   == mail[t].state = "unused"
Exists(u)  == member[u] # Nil
IsLive(u)  == Exists(u) /\ member[u].active
IsAdmin(u) == IsLive(u) /\ member[u].role \in {"ADMIN", "SUPER_ADMIN"}
Pending(i) == invitation[i] # Nil /\ invitation[i].status = "PENDING"
Linked(u)  == {d \in Drivers : driver[d].account = u}

(* liveAdmin: administrators may be invited by super-administrators only.  *)
MayInvite(u, role) ==
    IsAdmin(u) /\ (role = "ADMIN" => member[u].role = "SUPER_ADMIN")

(* Mutant: a driver who has an account already is not told apart.          *)
DriverFits_Linked(i) ==
    LET d == invitation[i].driver
    IN  d # Nil => driver[d].active /\ driver[d].email = invitation[i].email

(* checkDriver: active, without account, still at the address invited.     *)
DriverFits(i) ==
    LET d == invitation[i].driver
    IN  d # Nil => /\ driver[d].active /\ driver[d].account = Nil
                   /\ driver[d].email = invitation[i].email

(* The issuer of a token still has the rights, and the version, it had.    *)
IssuerLive(i) ==
    LET u == invitation[i].by
    IN  MayInvite(u, invitation[i].role) /\ member[u].version = invitation[i].byVersion

(* usable: the token is the newest of an open invitation.                  *)
Usable(i, t) ==
    /\ Pending(i) /\ invitation[i].token = t
    /\ invitation[i].age # "expired"
    /\ IssuerLive(i)

(* The status the list of invitations shows.                               *)
Shown(i) ==
    IF Pending(i) /\ ~ IssuerLive(i) THEN "INVALIDATED"
    ELSE IF Pending(i) /\ invitation[i].age = "expired" THEN "EXPIRED"
    ELSE invitation[i].status

-----------------------------------------------------------------------------
(* Row locks: "share" is a membership locked FOR SHARE, "member" one       *)
(* locked FOR UPDATE.  A transaction takes them one by one; one that waits *)
(* has changed nothing, and a deadlock ends in Abort, so they are taken    *)
(* together here.                                                          *)

(* Mutant: acceptance does not lock the membership of the issuer.          *)
Rows_IssuerFree(r) ==
    IF r.op = "accept" THEN {<<"invitation", r.id>>, <<"driver", invitation[r.id].driver>>}
    ELSE IF r.op = "change" THEN {<<"share", r.user>>, <<"member", r.target>>}
    ELSE {<<"share", r.user>>}

Rows(r) ==
    CASE r.op = "invite" -> {<<"share", r.user>>}
      [] r.op = "revoke" -> {<<"invitation", r.id>>, <<"share", r.user>>}
      [] r.op = "resend" -> {<<"invitation", r.id>>, <<"share", r.user>>,
                             <<"driver", invitation[r.id].driver>>}
      [] r.op = "accept" -> {<<"invitation", r.id>>, <<"share", invitation[r.id].by>>,
                             <<"driver", invitation[r.id].driver>>}
      [] r.op = "change" -> {<<"share", r.user>>, <<"member", r.target>>}
                            \cup {<<"driver", d>> : d \in Linked(r.target)}

Held(s) == IF phase[s] = "checked" THEN Rows(req[s]) ELSE {}

Conflict(p, q) ==
    /\ p[2] = q[2] /\ p[2] # Nil
    /\ \/ p[1] = q[1] /\ p[1] # "share"
       \/ {p[1], q[1]} = {"share", "member"}
Free(rows) == \A s \in Sessions : \A p \in Held(s), q \in rows : ~ Conflict(p, q)

Begin(s, r) ==
    /\ phase[s] = "idle"
    /\ phase' = [phase EXCEPT ![s] = "begun"]
    /\ req' = [req EXCEPT ![s] = r]
    /\ UNCHANGED data

End(s) ==
    /\ phase' = [phase EXCEPT ![s] = "idle"]
    /\ req' = [req EXCEPT ![s] = Nil]

-----------------------------------------------------------------------------
(* Requests.  A person accepts with a token that was mailed, the newest or *)
(* an older one; usable is asked once before the password is hashed.       *)

BeginInvite(s) ==
    \E u \in Users, o \in Offers :
        /\ IsAdmin(u)
        /\ Begin(s, [op |-> "invite", user |-> u, role |-> o.role, driver |-> o.driver,
                     email |-> IF o.driver = Nil THEN o.email ELSE driver[o.driver].email])

BeginChangeInvitation(s) ==
    \E u \in Users, i \in Invitations, op \in {"resend", "revoke"} :
        /\ IsAdmin(u) /\ Pending(i)
        /\ Begin(s, [op |-> op, user |-> u, id |-> i])

BeginAccept(s) ==
    \E t \in Tokens :
        /\ ~ Fresh(t) /\ Usable(mail[t].id, t)
        /\ Begin(s, [op |-> "accept", id |-> mail[t].id, token |-> t])

BeginChange(s) ==
    \E u, v \in Users, new \in Rights :
        /\ IsAdmin(u) /\ Exists(v) /\ u # v
        /\ member[v].role # "SUPER_ADMIN" /\ member[v].version < MaxVersion
        /\ Begin(s, [op |-> "change", user |-> u, target |-> v, role |-> new.role,
                     active |-> new.active, version |-> member[v].version])

-----------------------------------------------------------------------------
(* Checks under the locks, and writes.                                     *)

Addressed(e) == \E u \in Users : email[u] = e

(* Reads without locks: an invitation may be overtaken by another one; the *)
(* unique index of open invitations decides (Commit).                      *)
CanInvite(r) ==
    /\ MayInvite(r.user, r.role)
    /\ r.driver # Nil => driver[r.driver].active /\ driver[r.driver].account = Nil
    /\ ~ Addressed(r.email)

OpenFor(e) == \E i \in Invitations : Pending(i) /\ invitation[i].email = e

CanChangeInvitation(r) ==
    /\ MayInvite(r.user, invitation[r.id].role)
    /\ Pending(r.id)
    /\ r.op = "resend" => invitation[r.id].age # "new" /\ DriverFits(r.id)

CanAccept(r) ==
    /\ Usable(r.id, r.token) /\ DriverFits(r.id)
    /\ ~ Addressed(invitation[r.id].email)

CanChange(r) ==
    LET old == member[r.target]
    IN  /\ IsAdmin(r.user)
        /\ old.role # "SUPER_ADMIN"
        /\ "ADMIN" \in {old.role, r.role} => member[r.user].role = "SUPER_ADMIN"
        /\ old.version = r.version
        /\ old.role # r.role \/ old.active # r.active
        /\ r.role = "DRIVER" => Linked(r.target) # {}
        /\ r.active /\ r.role = "DRIVER" => \A d \in Linked(r.target) : driver[d].active

Allowed(r) ==
    /\ r.op = "invite" => CanInvite(r) /\ ~ OpenFor(r.email)
    /\ r.op \in {"resend", "revoke"} => CanChangeInvitation(r)
    /\ r.op = "accept" => CanAccept(r)
    /\ r.op = "change" => CanChange(r)

Check(s) ==
    /\ phase[s] = "begun" /\ Free(Rows(req[s])) /\ Allowed(req[s])
    /\ phase' = [phase EXCEPT ![s] = "checked"]
    /\ UNCHANGED <<data, req>>

Refuse(s) ==
    /\ phase[s] = "begun" /\ Free(Rows(req[s])) /\ ~ Allowed(req[s])
    /\ End(s) /\ UNCHANGED data

(* A token made at random, valid for 72 hours, under the issuer's version. *)
Issued(row, u, t) ==
    [row EXCEPT !.token = t, !.delivery = "PENDING", !.age = "new", !.by = u,
                !.byVersion = member[u].version]
Blank(r) ==
    [email |-> r.email, role |-> r.role, driver |-> r.driver, token |-> Nil,
     status |-> "PENDING", delivery |-> "PENDING", age |-> "new", by |-> Nil,
     byVersion |-> 0, account |-> Nil]
Posted(t, i) == [mail EXCEPT ![t] = [state |-> "sending", id |-> i]]

Invite(r) ==
    /\ ~ OpenFor(r.email)
    /\ \E i \in Invitations, t \in Tokens :
         /\ invitation[i] = Nil /\ Fresh(t)
         /\ invitation' = [invitation EXCEPT ![i] = Issued(Blank(r), r.user, t)]
         /\ mail' = Posted(t, i)
    /\ UNCHANGED <<member, email, driver>>

Resend(r) ==
    /\ \E t \in Tokens :
         /\ Fresh(t)
         /\ invitation' = [invitation EXCEPT ![r.id] = Issued(@, r.user, t)]
         /\ mail' = Posted(t, r.id)
    /\ UNCHANGED <<member, email, driver>>

Revoke(r) ==
    /\ invitation' = [invitation EXCEPT ![r.id].status = "REVOKED"]
    /\ UNCHANGED <<member, email, driver, mail>>

(* Account, membership and link to the driver in one transaction; the      *)
(* address is unique among users.                                          *)
Accept(r) ==
    LET row == invitation[r.id]
    IN  /\ ~ Addressed(row.email)
        /\ \E u \in Users :
             /\ ~ Exists(u)
             /\ member' = [member EXCEPT ![u] =
                             [role |-> row.role, active |-> TRUE, version |-> 1]]
             /\ email' = [email EXCEPT ![u] = row.email]
             /\ driver' = [d \in Drivers |-> IF d = row.driver
                             THEN [driver[d] EXCEPT !.account = u] ELSE driver[d]]
             /\ invitation' = [invitation EXCEPT ![r.id].status = "ACCEPTED",
                                                 ![r.id].account = u]
        /\ UNCHANGED mail

(* The sessions it deletes are those of SignIn.                            *)
Change(r) ==
    /\ member' = [member EXCEPT ![r.target] =
                    [role |-> r.role, active |-> r.active, version |-> @.version + 1]]
    /\ UNCHANGED <<email, driver, invitation, mail>>

Commit(s) ==
    /\ phase[s] = "checked"
    /\ \/ req[s].op = "invite" /\ Invite(req[s])
       \/ req[s].op = "resend" /\ Resend(req[s])
       \/ req[s].op = "revoke" /\ Revoke(req[s])
       \/ req[s].op = "accept" /\ Accept(req[s])
       \/ req[s].op = "change" /\ Change(req[s])
    /\ End(s)

(* A unique index, a deadlock of two administrators changing each other, a *)
(* timeout or a lost connection.                                           *)
Abort(s) == phase[s] # "idle" /\ End(s) /\ UNCHANGED data

-----------------------------------------------------------------------------
(* The mail of a token: the transport confirms it or not, or hands out a   *)
(* link in place of a mail, and the answer is written to the invitation if *)
(* that token is still the newest and nobody has used it.                  *)

(* Mutant: the answer goes to the invitation, whatever its token is now.   *)
Answer_AnyToken(t) ==
    /\ mail[t].state = "sending" /\ Free({<<"invitation", mail[t].id>>})
    /\ \E result \in {"SENT", "FAILED", "MANUAL"} :
         /\ mail' = [mail EXCEPT ![t].state = result]
         /\ invitation' = [invitation EXCEPT ![mail[t].id].delivery = result]
    /\ UNCHANGED <<member, email, driver, tx>>

Answer(t) ==
    LET i == mail[t].id
    IN  /\ mail[t].state = "sending" /\ Free({<<"invitation", i>>})
        /\ \E result \in {"SENT", "FAILED", "MANUAL"} :
             /\ mail' = [mail EXCEPT ![t].state = result]
             /\ invitation' = IF invitation[i].token = t /\ Pending(i)
                              THEN [invitation EXCEPT ![i].delivery = result]
                              ELSE invitation
        /\ UNCHANGED <<member, email, driver, tx>>

(* Time: a minute after the mail it may be sent again, after 72 hours the  *)
(* invitation has expired.                                                 *)
Age(i) ==
    /\ invitation[i] # Nil /\ invitation[i].age # "expired"
    /\ invitation' = [invitation EXCEPT ![i].age =
                        IF @ = "new" THEN "open" ELSE "expired"]
    /\ UNCHANGED <<member, email, driver, mail, tx>>

(* The registry of drivers (module Registry): a new address, unique among  *)
(* drivers; archival, which disables the account while it is a driver's;   *)
(* and reactivation.                                                       *)
DriverChanged(d) ==
    LET u == driver[d].account
        linked == u # Nil /\ member[u].role = "DRIVER"
    IN  /\ Free({<<"driver", d>>})
        /\ \/ /\ \E e \in Emails \ {driver[c].email : c \in Drivers} :
                    driver' = [driver EXCEPT ![d].email = e]
              /\ UNCHANGED member
           \/ /\ linked => Free({<<"member", u>>}) /\ member[u].version < MaxVersion
              /\ driver' = [driver EXCEPT ![d].active = FALSE]
              /\ member' = IF linked
                           THEN [member EXCEPT ![u].active = FALSE, ![u].version = @ + 1]
                           ELSE member
           \/ /\ ~ driver[d].active
              /\ driver' = [driver EXCEPT ![d].active = TRUE]
              /\ UNCHANGED member
        /\ UNCHANGED <<email, invitation, mail, tx>>

-----------------------------------------------------------------------------
Init ==
    /\ member = [u \in Users |-> IF SeedRole[u] = Nil THEN Nil
                   ELSE [role |-> SeedRole[u], active |-> TRUE, version |-> 1]]
    /\ email = [u \in Users |-> IF SeedRole[u] = Nil THEN Nil ELSE u]
    /\ driver = [d \in Drivers |-> [active |-> TRUE, email |-> SeedEmail[d], account |-> Nil]]
    /\ invitation = [i \in Invitations |-> Nil]
    /\ mail = [t \in Tokens |-> [state |-> "unused", id |-> Nil]]
    /\ phase = [s \in Sessions |-> "idle"]
    /\ req = [s \in Sessions |-> Nil]

Next ==
    \/ \E s \in Sessions : BeginInvite(s) \/ BeginChangeInvitation(s) \/ BeginAccept(s)
                           \/ BeginChange(s)
    \/ \E s \in Sessions : Check(s) \/ Refuse(s) \/ Commit(s) \/ Abort(s)
    \/ \E t \in Tokens : Answer(t)
    \/ \E i \in Invitations : Age(i)
    \/ \E d \in Drivers : DriverChanged(d)

Spec == Init /\ [][Next]_vars

-----------------------------------------------------------------------------
(* An invitation is accepted only while the list would not show it as      *)
(* invalidated, that is while its issuer has the rights it was issued      *)
(* under, and for a driver who is active, without account and at the       *)
(* address invited; resend, revocation, account changes and archival race  *)
(* the acceptance (acceptInvitation).                                      *)
Admission ==
    [][\A i \in Invitations :
         Pending(i) /\ invitation'[i].status = "ACCEPTED"
           => Shown(i) # "INVALIDATED" /\ DriverFits(i)]_vars

(* One account per address, per accepted invitation and per driver, an     *)
(* accepted driver invitation is linked to exactly its driver, and one     *)
(* open invitation per address, although invitations are written on checks *)
(* made before others committed and drivers change their addresses.        *)
OneAccount ==
    /\ \A u, v \in Users : email[u] = email[v] /\ email[u] # Nil => u = v
    /\ \A c, d \in Drivers : driver[c].account = driver[d].account
                             /\ driver[d].account # Nil => c = d
    /\ \A i, j \in Invitations :
         /\ invitation[i] # Nil /\ invitation[j] # Nil
         /\ {invitation[i].status, invitation[j].status} = {"ACCEPTED"}
         => /\ invitation[i].account = invitation[j].account => i = j
            /\ invitation[i].driver # Nil
                 => driver[invitation[i].driver].account = invitation[i].account
    /\ \A i, j \in Invitations :
         Pending(i) /\ Pending(j) /\ invitation[i].email = invitation[j].email => i = j

(* What an open invitation says of its delivery is what became of the mail *)
(* with its newest token, however late the answers come (send).            *)
DeliveryTold ==
    \A i \in Invitations :
        invitation[i] # Nil =>
            LET now == mail[invitation[i].token].state
            IN  \/ invitation[i].delivery = now
                \/ invitation[i].delivery = "PENDING" /\ (now = "sending" \/ ~ Pending(i))
=============================================================================
