------------------------------- MODULE Access -------------------------------
(***************************************************************************)
(* The sessions of one user: login, account switch, refresh-token rotation *)
(* with reuse detection, logout, and the three ways to a new password: the *)
(* link of a reset, a colleague, and an invitation to another account,     *)
(* which alone ends nothing (services/auth.py, services/team.py            *)
(* set_employee_password and accept_invitation, api/dependencies/auth.py,  *)
(* core/security.py).  Users share nothing here, so one is enough.         *)
(* Transactions are READ COMMITTED: each statement sees what was committed *)
(* when it began, and waits for the row locks of the others.               *)
(* Failed logins, with their counter and lock, touch no session and are    *)
(* left out; so is a login of a user who is not ACTIVE.                    *)
(* An operator marked "wrong" is the one after it with a plausible slip:   *)
(* it is never used, and shows that some property notices the slip.        *)
(***************************************************************************)
EXTENDS Naturals, Sequences, FiniteSets

CONSTANTS
    Requests,       \* concurrent HTTP requests, each with its own session of the ORM
    Accounts, NoAccount,
    MaxSessions, MaxChanges,    \* bounds on rows of refresh_sessions, new passwords,
    MaxSecond                   \* and on the clock

ASSUME AccessAssumption ==
    /\ NoAccount \notin Accounts
    /\ MaxSessions \in Nat /\ MaxChanges \in Nat /\ MaxSecond \in Nat

VARIABLES
    sessions,   \* refresh_sessions, in the order of created_at
    expired,    \* the first so many are past expires_at
    second,     \* the clock, in whole seconds: all that a claim keeps of a time
    changes,    \* users.password_changed_at after each new password; the last one
                \* is the column, the others are a ghost
    ended,      \* number of the last new password that ended sessions; a ghost
    joined,     \* accounts with a membership of the user
    member,     \* those in which it is active, as the account is
    request,
    burnt       \* families a reused token ended; a ghost

tables == <<sessions, expired, changes, ended, joined, member, burnt>>
vars == <<tables, second, request>>

Ids == 1..MaxSessions
Seconds == 0..MaxSecond
Changes == 0..MaxChanges

\* password_changed_at of a user who registered in second 0, or of one without a
\* time (the claim is 0 for both), and after the c-th new password since.
Moment(c) == IF c = 0 THEN 0 ELSE changes[c]
Version == Moment(Len(changes))

\* A row and the access token that was signed with it.  family: its first row;
\* pwd: the claim, a whole second.  Ghosts: at, the number of new passwords when
\* the answer went out; until, at or the number after it, if a change had already
\* read which sessions to revoke.  Of a revoked row only the family is read again.
Session == [family : Ids, account : Accounts \cup {NoAccount}, revoked : BOOLEAN,
            pwd : Seconds, at : Changes, until : 0..MaxChanges + 1]

\* pwd: the version the request read, or is to write; targets: the rows a pending
\* UPDATE sets revoked_at of; raced: a session was added to the family since.
Request == [pc : {"idle", "issue", "rotate", "reuse", "change", "revoke"},
            session : 0..MaxSessions, account : Accounts \cup {NoAccount},
            pwd : Seconds, targets : SUBSET Ids, raced : BOOLEAN]
Idle == [pc |-> "idle", session |-> 0, account |-> NoAccount, pwd |-> 0,
         targets |-> {}, raced |-> FALSE]

TypeOK ==
    /\ sessions \in Seq(Session) /\ Len(sessions) <= MaxSessions
    /\ expired \in 0..Len(sessions)
    /\ second \in Seconds
    /\ changes \in Seq(Seconds) /\ Len(changes) <= MaxChanges
    /\ ended \in 0..Len(changes)
    /\ member \subseteq joined /\ joined \subseteq Accounts /\ burnt \subseteq Ids
    /\ request \in [Requests -> Request]

Init ==
    /\ sessions = <<>> /\ expired = 0
    /\ second = 0 /\ changes = <<>> /\ ended = 0
    /\ \E a \in Accounts : joined = {a}
    /\ member = joined
    /\ request = [q \in Requests |-> Idle]
    /\ burnt = {}

Rows == DOMAIN sessions
Live(i) == ~sessions[i].revoked /\ i > expired
FamilyRows(i) == {j \in Rows : sessions[j].family = sessions[i].family}

\* get_auth_context: what every request with an access token is checked for.
\* wrong: the token's password version is not compared
AcceptsAnyVersion(i) == Live(i) /\ sessions[i].account \in member
Accepts(i) == /\ Live(i) /\ sessions[i].account \in member
              /\ sessions[i].pwd = Version

\* Row locks: SELECT .. FOR UPDATE holds the presented row until the commit.
Locks(p, i) == request[p].pc \in {"rotate", "reuse"} /\ request[p].session = i
LockedByOther(q, i) == \E p \in Requests \ {q} : Locks(p, i)

\* A change of the password holds the user's row from its flush to its commit.
UserLocked == \E p \in Requests : request[p].pc = "revoke"

RevokedRow(i) == [family |-> sessions[i].family, account |-> NoAccount,
                  revoked |-> TRUE, pwd |-> 0, at |-> 0, until |-> 0]
Revoked(rows) ==
    [i \in Rows |-> IF i \in rows THEN RevokedRow(i) ELSE sessions[i]]

Begin(q, r) == request[q].pc = "idle" /\ request' = [request EXCEPT ![q] = r]
End(q) == request' = [request EXCEPT ![q] = Idle]

\* wrong: a login does not start a family of its own
GivenFamily(family) == family
FamilyOr(family) == IF family = 0 THEN Len(sessions) + 1 ELSE family

\* A row inserted by request q and the token signed with it.
NewSession(q, family, account) ==
    [family |-> FamilyOr(family), account |-> account, revoked |-> FALSE,
     pwd |-> request[q].pwd, at |-> Len(changes),
     until |-> IF UserLocked THEN Len(changes) + 1 ELSE Len(changes)]

-----------------------------------------------------------------------------
(* Opening a session *)

\* authenticate_user reads the user and finds the password right.
Login(q, a) ==
    /\ Begin(q, [Idle EXCEPT !.pc = "issue", !.account = a, !.pwd = Version])
    /\ UNCHANGED <<tables, second>>

\* switch_account: a request that some token lets in asks for another account.
SwitchAccount(q, i, a) ==
    /\ i \in Rows /\ Accepts(i)
    /\ Begin(q, [Idle EXCEPT !.pc = "issue", !.account = a, !.pwd = Version])
    /\ UNCHANGED <<tables, second>>

\* The membership and the account's status are read after the password; then
\* issue_token_pair starts a family.
IssueTokenPair(q) ==
    /\ request[q].pc = "issue" /\ request[q].account \in member
    /\ Len(sessions) < MaxSessions
    /\ sessions' = Append(sessions,
                          NewSession(q, 0, request[q].account))
    /\ End(q)
    /\ UNCHANGED <<expired, changes, ended, joined, member, second, burnt>>

RefuseAccount(q) ==
    /\ request[q].pc = "issue" /\ request[q].account \notin member
    /\ End(q)
    /\ UNCHANGED <<tables, second>>

-----------------------------------------------------------------------------
(* Rotation *)

\* wrong: the row is read without FOR UPDATE
FreeToRead(q, i) == TRUE
Lockable(q, i) == ~LockedByOther(q, i)

\* rotate_refresh_token gets the lock on the row and reads the user.
PresentRefreshToken(q, i) ==
    /\ i \in Rows /\ i > expired /\ ~sessions[i].revoked /\ Lockable(q, i)
    /\ Begin(q, [Idle EXCEPT !.pc = "rotate", !.session = i, !.pwd = Version])
    /\ UNCHANGED <<tables, second>>

\* The replacement is inserted, the presented row revoked, and both committed.
Rotate(q) ==
    LET i == request[q].session IN
    /\ request[q].pc = "rotate" /\ Len(sessions) < MaxSessions
    /\ sessions' = Append(Revoked({i}),
                          NewSession(q, sessions[i].family, sessions[i].account))
    /\ request' = [p \in Requests |->
         IF p = q THEN Idle
         ELSE [request[p] EXCEPT !.raced =
                 @ \/ (/\ request[p].pc = "reuse"
                       /\ sessions[request[p].session].family = sessions[i].family)]]
    /\ UNCHANGED <<expired, changes, ended, joined, member, second, burnt>>

\* A token that was replaced or revoked is presented: its family shall end.
\* The UPDATE reads the live rows of the family, then waits for their locks.
\* wrong: only the replacement of the presented row
Replacement(i) == {j \in FamilyRows(i) : /\ j > i /\ ~sessions[j].revoked
                                         /\ \A k \in FamilyRows(i) : k <= i \/ j <= k}
ReuseTargets(i) == {j \in FamilyRows(i) : ~sessions[j].revoked}

PresentUsedToken(q, i) ==
    /\ i \in Rows /\ i > expired /\ sessions[i].revoked /\ ~LockedByOther(q, i)
    /\ Begin(q, [Idle EXCEPT !.pc = "reuse", !.session = i,
                             !.targets = ReuseTargets(i)])
    /\ UNCHANGED <<tables, second>>

RevokeFamily(q) ==
    /\ request[q].pc = "reuse"
    /\ \A i \in request[q].targets : ~LockedByOther(q, i)
    /\ sessions' = Revoked(request[q].targets)
    /\ burnt' = IF request[q].raced THEN burnt
                ELSE burnt \cup {sessions[request[q].session].family}
    /\ End(q)
    /\ UNCHANGED <<expired, changes, ended, joined, member, second>>

\* revoke_refresh_token: that the row was read earlier makes no difference,
\* for a revoked row stays revoked.
Logout(i) ==
    /\ i \in Rows /\ ~sessions[i].revoked
    /\ \A q \in Requests : ~Locks(q, i)
    /\ sessions' = Revoked({i})
    /\ UNCHANGED <<expired, changes, ended, joined, member, second, request, burnt>>

-----------------------------------------------------------------------------
(* Password changes *)

\* reset_password_with_token finds the link's version to be the current one, or
\* set_employee_password a colleague who may manage the user.  (A link can be
\* asked for at any time, and dies with the version it carries.)  The time to
\* write is read before the password is hashed and the lock is waited for.
ChangePassword(q) ==
    /\ Begin(q, [Idle EXCEPT !.pc = "change", !.pwd = second])
    /\ UNCHANGED <<tables, second>>

\* The flush locks the user's row until the commit; revoke_all_user_sessions
\* then reads the sessions to revoke, those past their expiry too.
\* wrong: only the sessions of one account
TargetsOfAccount == {i \in Rows : ~sessions[i].revoked /\ sessions[i].account = sessions[1].account}
ChangeTargets == {i \in Rows : ~sessions[i].revoked}

FlushPassword(q) ==
    /\ request[q].pc = "change" /\ Len(changes) < MaxChanges
    /\ ~UserLocked
    /\ request' = [request EXCEPT ![q].pc = "revoke", ![q].targets = ChangeTargets]
    /\ UNCHANGED <<tables, second>>

RevokeAllUserSessions(q) ==
    /\ request[q].pc = "revoke"
    /\ \A i \in request[q].targets : ~LockedByOther(q, i)
    /\ sessions' = Revoked(request[q].targets)
    /\ changes' = Append(changes, request[q].pwd)
    /\ ended' = Len(changes) + 1
    /\ End(q)
    /\ UNCHANGED <<expired, joined, member, second, burnt>>

\* accept_invitation finds a user with the address of the invitation, who is not
\* in the account yet: it gives that user the password of the form, and leaves
\* password_changed_at and the sessions as they are.
AcceptInvitation(a) ==
    /\ a \notin joined /\ Len(changes) < MaxChanges
    /\ ~UserLocked
    /\ changes' = Append(changes, Version)
    /\ joined' = joined \cup {a} /\ member' = member \cup {a}
    /\ UNCHANGED <<sessions, expired, ended, second, request, burnt>>

-----------------------------------------------------------------------------
(* Time, colleagues and faults *)

Tick ==
    /\ second < MaxSecond /\ second' = second + 1
    /\ UNCHANGED <<tables, request>>

Expire ==
    /\ expired < Len(sessions) /\ expired' = expired + 1
    /\ UNCHANGED <<sessions, changes, ended, joined, member, second, request, burnt>>

\* update_employee suspends or reinstates the membership; an administrator of
\* the platform does the same to the account.
ChangeMembership(a) ==
    /\ a \in joined
    /\ member' = IF a \in member THEN member \ {a} ELSE member \cup {a}
    /\ UNCHANGED <<sessions, expired, changes, ended, joined, second, request, burnt>>

\* The process dies or the connection drops: the transaction is rolled back.
RequestDies(q) ==
    /\ request[q].pc # "idle" /\ End(q)
    /\ UNCHANGED <<tables, second>>

Next ==
    \/ \E q \in Requests :
         \/ IssueTokenPair(q) \/ RefuseAccount(q) \/ Rotate(q) \/ RevokeFamily(q)
         \/ ChangePassword(q) \/ FlushPassword(q)
         \/ RevokeAllUserSessions(q) \/ RequestDies(q)
         \/ \E a \in Accounts : Login(q, a) \/ \E i \in Ids : SwitchAccount(q, i, a)
         \/ \E i \in Ids : PresentRefreshToken(q, i) \/ PresentUsedToken(q, i)
    \/ Tick \/ Expire
    \/ \E i \in Ids : Logout(i)
    \/ \E a \in Accounts : AcceptInvitation(a) \/ ChangeMembership(a)

Spec == Init /\ [][Next]_vars

-----------------------------------------------------------------------------
(* Properties *)

\* However many tabs refresh at once, a login has one usable refresh token:
\* FOR UPDATE makes the second rotation of a row find it revoked.
OneLivePerFamily ==
    \A i, j \in Rows :
        /\ sessions[i].family = sessions[j].family
        /\ ~sessions[i].revoked /\ ~sessions[j].revoked
        => i = j

\* A token presented after its replacement ends its family for good, unless a
\* rotation of the family committed while the UPDATE was waiting for its lock.
ReuseEndsFamily ==
    \A i \in Rows : sessions[i].family \in burnt => sessions[i].revoked

\* After a reset, or a change by a colleague, no earlier session of any account
\* is left, except one that was committed between the change's reading of the
\* sessions and its commit; and not even that one outlives the next such change.
\* A password set by an invitation is none of these: it ends no session.
ChangeEndsSessions ==
    \A i \in Rows : ~sessions[i].revoked => ended <= sessions[i].until

\* An access token handed out before the last new password is not accepted after
\* it, not even one whose session escaped the change: unless password_changed_at
\* is still, or again, of a second in which it had been set before the token went
\* out.  So it is after an invitation, and after changes within one second.
StaleTokensRefused ==
    \A i \in Rows : Accepts(i) =>
        \/ sessions[i].at = Len(changes)
        \/ \E c \in 0..sessions[i].at : Moment(c) = Version
=============================================================================
