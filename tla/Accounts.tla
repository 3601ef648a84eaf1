------------------------------ MODULE Accounts ------------------------------
(***************************************************************************)
(* Users, bans, roles and erasure: the rows of `users` (src/db/queries.ts) *)
(* under sign-ins (src/routes/auth.ts, src/routes/admin-owner.ts), the     *)
(* administrators' bans, role changes and erasures (src/lib/moderation.ts, *)
(* src/routes/admin.ts), and posts marked as staff.                        *)
(*                                                                         *)
(* Each is a request that reads a row, awaits, and writes by id.  What a   *)
(* session is, and what a revocation does to it, is the business of module *)
(* Sessions; here an account is signed in or not, and a revocation ends    *)
(* every session it has at that moment.                                    *)
(***************************************************************************)
EXTENDS Naturals, FiniteSets

CONSTANTS
    Account,    \* user ids
    Person,     \* (provider, provider_id) pairs
    Promoted,   \* persons with an address in ADMIN_EMAILS
    Owner,      \* the person ("owner", "primary") of the owner link
    Role,       \* "user", "admin", and "mod" if the instance has moderators
    Founder,    \* the accounts at the start, each of a person
    Request,    \* requests under way at once
    None

ASSUME PersonAssumption ==
    /\ None \notin Person \union Account
    /\ Promoted \subseteq Person /\ Owner \in Person
ASSUME RoleAssumption == {"user", "admin"} \subseteq Role
ASSUME FounderAssumption ==
    /\ DOMAIN Founder \subseteq Account
    /\ \A a \in DOMAIN Founder :
         Founder[a].person \in Person /\ Founder[a].role \in Role
    /\ \A a, b \in DOMAIN Founder : Founder[a].person = Founder[b].person => a = b

VARIABLES
    row,        \* users: person, role, is_banned, erased_at, whether named
    signed,     \* accounts with a live session
    handoff,    \* accounts a hand-off token in KV stands for
    link,       \* the owner link: printed and unused
    staff,      \* accounts with comments that carry the staff mark
    job         \* the requests under way

accountsVars == <<row, signed, handoff, link, staff, job>>

Row    == [person : Person \union {None}, role : Role, banned : BOOLEAN,
           erased : BOOLEAN, named : BOOLEAN]
Exists == {a \in Account : row[a] # None}
Idle   == [pc |-> "idle", actor |-> None, who |-> None, banned |-> FALSE,
           to |-> "none", stale |-> FALSE]
Job    == [pc : {"idle", "update", "insert", "issue", "owner", "admin", "count", "ban",
                 "stamp", "admins", "demote", "erase", "mark"},
           actor : Account \union {None}, who : Account \union Person \union {None},
           banned : BOOLEAN, to : Role \union {"none"}, stale : BOOLEAN]

ASSUME NoneAssumption == None \notin Row

AccountsTypeOK ==
    /\ row \in [Account -> Row \union {None}]
    /\ signed \subseteq Exists /\ handoff \subseteq Exists
    /\ link \in BOOLEAN
    /\ staff \subseteq Exists
    /\ job \in [Request -> Job]
    /\ \A r \in Request :
         /\ job[r].pc = "insert" => job[r].who \in Person \ {Owner}
         /\ job[r].pc \in {"admins", "demote"} => job[r].to \in Role
         /\ job[r].pc \in {"update", "issue", "count", "ban", "admins", "demote", "erase",
                           "stamp", "mark"} => job[r].who \in Exists

AccountsInit ==
    /\ row = [a \in Account |->
         IF a \in DOMAIN Founder
         THEN [person |-> Founder[a].person, role |-> Founder[a].role, banned |-> FALSE,
               erased |-> FALSE, named |-> TRUE]
         ELSE None]
    /\ signed = DOMAIN Founder
    /\ handoff = {} /\ link = FALSE /\ staff = {}
    /\ job = [r \in Request |-> Idle]

Mine(p)   == {a \in Exists : row[a].person = p}
Active    == {a \in Exists : row[a].role = "admin" /\ ~row[a].banned}
Barred(a) == row[a].banned \/ row[a].erased

At(r, pc) == job[r].pc = pc
Idles(r)  == job' = [job EXCEPT ![r] = Idle]

\* A write that takes something from account a: a request about a, or of an
\* administrator, that has read before it goes on with what is no longer so.
Takes(r, a, next) ==
    job' = [q \in Request |->
      IF q = r THEN next
      ELSE [job[q] EXCEPT !.stale =
              \/ @
              \/ job[q].pc \in {"admin", "count", "ban", "admins", "demote"}
              \/ job[q].pc \in {"update", "issue", "mark"} /\ job[q].who = a]]

-----------------------------------------------------------------------------
(* Signing in *)

\* upsertOauthUser looks the person up.
LoginLookup(r, p) ==
    /\ At(r, "idle") /\ p # Owner
    /\ job' = [job EXCEPT ![r] =
         IF Mine(p) = {} THEN [Idle EXCEPT !.pc = "insert", !.who = p]
         ELSE [Idle EXCEPT !.pc = "update", !.who = CHOOSE a \in Mine(p) : TRUE,
                           !.banned = row[CHOOSE a \in Mine(p) : TRUE].banned]]
    /\ UNCHANGED <<row, signed, handoff, link, staff>>

\* Mutant: the account of a banned person is signed in like any other.
LoginUnasked(r) ==
    /\ At(r, "update")
    /\ row' = [row EXCEPT ![job[r].who].named = TRUE]
    /\ job' = [job EXCEPT ![r].pc = "issue"]
    /\ UNCHANGED <<signed, handoff, link, staff>>

\* A known person: name and picture are refreshed by id.
LoginUpdate(r) ==
    LET a == job[r].who IN
    /\ At(r, "update")
    /\ row' = [row EXCEPT ![a].named = TRUE]
    /\ job' = [job EXCEPT ![r] = IF @.banned THEN Idle ELSE [@ EXCEPT !.pc = "issue"]]
    /\ UNCHANGED <<signed, handoff, link, staff>>

\* A new one: the unique index refuses the second of two at once.
LoginInsert(r) ==
    LET p == job[r].who IN
    /\ At(r, "insert")
    /\ \/ /\ Mine(p) = {}
          /\ \E a \in Account \ Exists :
               /\ row' = [row EXCEPT ![a] =
                    [person |-> p, role |-> IF p \in Promoted THEN "admin" ELSE "user",
                     banned |-> FALSE, erased |-> FALSE, named |-> TRUE]]
               /\ job' = [job EXCEPT ![r] = [Idle EXCEPT !.pc = "issue", !.who = a]]
       \/ Mine(p) # {} /\ Idles(r) /\ UNCHANGED row
    /\ UNCHANGED <<signed, handoff, link, staff>>

\* The session of the popup, and the hand-off for the page that embeds the
\* widget; an owner link has no page to hand off to.
Issue(r) ==
    LET a == job[r].who IN
    /\ At(r, "issue")
    /\ signed' = signed \union {a}
    /\ handoff' = IF row[a].person = Owner THEN handoff ELSE handoff \union {a}
    /\ Idles(r)
    /\ UNCHANGED <<row, link, staff>>

\* /session/exchange signs in whomever the token names.
Exchange(a) ==
    /\ a \in handoff
    /\ handoff' = handoff \ {a} /\ signed' = signed \union {a}
    /\ UNCHANGED <<row, link, staff, job>>

\* The token's sixty seconds pass.
HandoffExpires(a) ==
    /\ a \in handoff
    /\ handoff' = handoff \ {a}
    /\ UNCHANGED <<row, signed, link, staff, job>>

\* The owner's account as the CLI insists on it before it prints a link, which
\* replaces one that is unused.
OwnerFit(a) ==
    row[a].person = Owner /\ ~Barred(a) /\ row[a].role = "admin"

PrintLink ==
    /\ \E a \in Exists : OwnerFit(a)
    /\ link' = TRUE
    /\ UNCHANGED <<row, signed, handoff, staff, job>>

\* One UPDATE uses the token up; the row is read after it.
Redeem(r) ==
    /\ At(r, "idle") /\ link
    /\ link' = FALSE
    /\ job' = [job EXCEPT ![r] = [Idle EXCEPT !.pc = "owner"]]
    /\ UNCHANGED <<row, signed, handoff, staff>>

OwnerCheck(r) ==
    /\ At(r, "owner")
    /\ job' = [job EXCEPT ![r] =
         IF \E a \in Exists : OwnerFit(a)
         THEN [Idle EXCEPT !.pc = "issue", !.who = CHOOSE a \in Exists : OwnerFit(a)]
         ELSE Idle]
    /\ UNCHANGED <<row, signed, handoff, link, staff>>

SignOut(a) ==
    /\ a \in signed
    /\ signed' = signed \ {a}
    /\ UNCHANGED <<row, handoff, link, staff, job>>

-----------------------------------------------------------------------------
(* Administrators *)

\* requireAdmin: a live session and the row behind it.
AdminStart(r, a) ==
    /\ At(r, "idle") /\ a \in signed \intersect Active
    /\ job' = [job EXCEPT ![r] = [Idle EXCEPT !.pc = "admin", !.actor = a]]
    /\ UNCHANGED <<row, signed, handoff, link, staff>>

\* Mutant: an administrator may be told to ban themselves.
BanReadSelf(r, b) ==
    /\ At(r, "admin")
    /\ job' = [job EXCEPT ![r] =
         [@ EXCEPT !.actor = None, !.who = b, !.pc = "ban"]]
    /\ UNCHANGED <<row, signed, handoff, link, staff>>

\* getUser of the target and the refusals that need no count.
BanRead(r, b) ==
    /\ At(r, "admin") /\ b # job[r].actor
    /\ job' = [job EXCEPT ![r] =
         [@ EXCEPT !.actor = None, !.who = b,
                   !.pc = IF b \in Active THEN "count" ELSE "ban"]]
    /\ UNCHANGED <<row, signed, handoff, link, staff>>

BanCount(r) ==
    /\ At(r, "count")
    /\ job' = [job EXCEPT ![r] =
         IF Cardinality(Active) <= 1 THEN Idle ELSE [@ EXCEPT !.pc = "ban"]]
    /\ UNCHANGED <<row, signed, handoff, link, staff>>

BanWrite(r) ==
    LET b == job[r].who IN
    /\ At(r, "ban")
    /\ row' = [row EXCEPT ![b].banned = TRUE]
    /\ Takes(r, b, [Idle EXCEPT !.who = b, !.pc = "stamp"])
    /\ UNCHANGED <<signed, handoff, link, staff>>

\* revokeUserSessions, the last write of a ban and of an erasure.
Revoke(r) ==
    /\ At(r, "stamp")
    /\ signed' = signed \ {job[r].who}
    /\ Idles(r)
    /\ UNCHANGED <<row, handoff, link, staff>>

UnbanWrite(r, b) ==
    /\ At(r, "admin") /\ row[b].banned
    /\ row' = [row EXCEPT ![b].banned = FALSE]
    /\ Idles(r)
    /\ UNCHANGED <<signed, handoff, link, staff>>

\* The role route: getUser of the target, never oneself, for another role.
RoleRead(r, b, to) ==
    /\ At(r, "admin") /\ b # job[r].actor /\ row[b].role # to
    /\ job' = [job EXCEPT ![r] =
         [@ EXCEPT !.actor = None, !.who = b, !.to = to,
                   !.pc = IF row[b].role = "admin" THEN "admins" ELSE "demote"]]
    /\ UNCHANGED <<row, signed, handoff, link, staff>>

\* countAdmins: all who have the role, banned or not.
RoleCount(r) ==
    /\ At(r, "admins")
    /\ job' = [job EXCEPT ![r] =
         IF Cardinality({a \in Exists : row[a].role = "admin"}) <= 1 THEN Idle
         ELSE [@ EXCEPT !.pc = "demote"]]
    /\ UNCHANGED <<row, signed, handoff, link, staff>>

\* Mutant: the marks of a demoted account are left on its comments.
RoleWriteOnly(r) ==
    /\ At(r, "demote")
    /\ row' = [row EXCEPT ![job[r].who].role = job[r].to]
    /\ Takes(r, job[r].who, Idle)
    /\ UNCHANGED <<signed, handoff, link, staff>>

\* Demoting to user takes the staff marks along.
RoleWrite(r) ==
    LET b == job[r].who
        to == job[r].to
    IN
    /\ At(r, "demote")
    /\ row' = [row EXCEPT ![b].role = to]
    /\ staff' = IF to = "user" THEN staff \ {b} ELSE staff
    /\ Takes(r, b, Idle)
    /\ UNCHANGED <<signed, handoff, link>>

EraseRead(r, b) ==
    /\ At(r, "admin") /\ b # job[r].actor /\ row[b].role # "admin"
    /\ job' = [job EXCEPT ![r] = [Idle EXCEPT !.who = b, !.pc = "erase"]]
    /\ UNCHANGED <<row, signed, handoff, link, staff>>

\* Mutant: the provider's id of the person is kept.
EraseKeepsPerson(r) ==
    LET b == job[r].who IN
    /\ At(r, "erase")
    /\ row' = [row EXCEPT ![b].named = FALSE, ![b].erased = TRUE]
    /\ staff' = staff \ {b}
    /\ Takes(r, b, [Idle EXCEPT !.who = b, !.pc = "stamp"])
    /\ UNCHANGED <<signed, handoff, link>>

\* eraseUserData, one batch: the row stays, the person is taken out of it.
EraseWrite(r) ==
    LET b == job[r].who IN
    /\ At(r, "erase")
    /\ row' = [row EXCEPT ![b].person = None, ![b].named = FALSE, ![b].erased = TRUE]
    /\ staff' = staff \ {b}
    /\ Takes(r, b, [Idle EXCEPT !.who = b, !.pc = "stamp"])
    /\ UNCHANGED <<signed, handoff, link>>

-----------------------------------------------------------------------------
\* POST /comments with as_staff: the row is read, the challenge and the spam
\* verdict awaited, the mark written with the comment.
StaffRead(r, a) ==
    /\ At(r, "idle") /\ a \in signed /\ ~Barred(a) /\ row[a].role # "user"
    /\ job' = [job EXCEPT ![r] = [Idle EXCEPT !.pc = "mark", !.who = a]]
    /\ UNCHANGED <<row, signed, handoff, link, staff>>

StaffInsert(r) ==
    LET a == job[r].who IN
    /\ At(r, "mark")
    /\ staff' = staff \union {a}
    /\ Idles(r)
    /\ UNCHANGED <<row, signed, handoff, link>>

\* A request is refused later on, or dies.
Abandon(r) ==
    /\ ~At(r, "idle") /\ Idles(r)
    /\ UNCHANGED <<row, signed, handoff, link, staff>>

AccountsNext ==
    \/ \E r \in Request :
         \/ \E p \in Person : LoginLookup(r, p)
         \/ LoginUpdate(r) \/ LoginInsert(r) \/ Issue(r) \/ Redeem(r) \/ OwnerCheck(r)
         \/ \E a \in Exists : AdminStart(r, a) \/ StaffRead(r, a)
         \/ \E b \in Exists :
              \/ BanRead(r, b) \/ UnbanWrite(r, b) \/ EraseRead(r, b)
              \/ \E to \in Role : RoleRead(r, b, to)
         \/ BanCount(r) \/ BanWrite(r) \/ Revoke(r) \/ RoleCount(r) \/ RoleWrite(r)
         \/ EraseWrite(r) \/ StaffInsert(r) \/ Abandon(r)
    \/ \E a \in Exists : Exchange(a) \/ HandoffExpires(a) \/ SignOut(a)
    \/ PrintLink

AccountsSpec == AccountsInit /\ [][AccountsNext]_accountsVars

-----------------------------------------------------------------------------
\* The last administrator who can act is lost only to requests that overlap:
\* the one that takes them was past its own check of its administrator, or of
\* the count, when another request lowered an account.  Any sequence of
\* requests, one after the other, leaves somebody.
LastAdminOnlyByRace ==
    [][Active # {} /\ Active' = {} =>
         \E r \in Request : (BanWrite(r) \/ RoleWrite(r)) /\ job[r].stale]_accountsVars

\* An erased row gets a name back only from a sign-in that had looked the
\* person up before the erasure.
ErasedByNameOnly ==
    [][\A a \in Exists :
         row[a].erased /\ ~row[a].named /\ row'[a].named =>
           \E r \in Request : LoginUpdate(r) /\ job[r].who = a /\ job[r].stale]_accountsVars

\* A banned or erased account is signed in only by a sign-in that had read the
\* row before, or by a hand-off printed before.
BarredNotSignedIn ==
    [][\A a \in Exists :
         Barred(a) /\ a \notin signed /\ a \in signed' =>
           \/ a \in handoff
           \/ \E r \in Request : Issue(r) /\ job[r].who = a /\ job[r].stale]_accountsVars

\* A comment says its author is staff only while they are, posts that were
\* under way when the role was taken away apart (setUserRole).
StaffMarkHonest ==
    [][\A a \in staff' :
         row'[a].role = "user" =>
           \/ a \in staff /\ row[a].role = "user"
           \/ \E r \in Request : StaffInsert(r) /\ job[r].who = a /\ job[r].stale]_accountsVars

\* What eraseUser says of itself: what was erased stays erased.
ErasureIrreversible == \A a \in Exists : row[a].erased => ~row[a].named
=============================================================================
