---------------------------- MODULE AccessProofs ----------------------------
(***************************************************************************)
(* What holds of Access for any number of requests, accounts, sessions,    *)
(* new passwords and seconds.                                              *)
(***************************************************************************)
EXTENDS Access, TLAPS

(* The inductive invariant *)

Locking == {"rotate", "reuse"}

\* A request that holds a row's lock holds it alone, and finds the row as it was.
LockHeld ==
    \A q \in Requests : request[q].pc \in Locking =>
        /\ request[q].session \in Rows
        /\ sessions[request[q].session].revoked <=> (request[q].pc = "reuse")
        /\ \A p \in Requests \ {q} :
             request[p].pc \in Locking => request[p].session # request[q].session

\* A family is named after its first row.
FamilyNames ==
    /\ \A i \in Rows : sessions[i].family <= i
    /\ \A f \in burnt : f <= Len(sessions)

\* An UPDATE that no rotation raced with has the whole of its family.
UpdateReaches ==
    \A q \in Requests : request[q].pc = "reuse" /\ ~request[q].raced =>
        \A j \in Rows :
            /\ sessions[j].family = sessions[request[q].session].family
            /\ ~sessions[j].revoked
            => j \in request[q].targets

\* v was password_changed_at after one of the first n passwords of the history h.
Known(h, v, n) == \E c \in 0..n : v = IF c = 0 THEN 0 ELSE h[c]

\* A claim is a version the user had before the token went out.
ClaimsArePast ==
    /\ \A i \in Rows : /\ sessions[i].at <= Len(changes)
                       /\ Known(changes, sessions[i].pwd, sessions[i].at)
    /\ \A q \in Requests : request[q].pc \in {"issue", "rotate"} =>
                           Known(changes, request[q].pwd, Len(changes))

\* One change at a time has flushed; it will revoke the sessions it does not miss.
ChangeReaches ==
    \A q \in Requests : request[q].pc = "revoke" =>
        /\ Len(changes) < MaxChanges
        /\ \A p \in Requests \ {q} : request[p].pc # "revoke"
        /\ \A i \in Rows : ~sessions[i].revoked /\ i \notin request[q].targets
                           => Len(changes) < sessions[i].until

IInv == /\ TypeOK /\ LockHeld /\ FamilyNames /\ OneLivePerFamily /\ UpdateReaches
        /\ ReuseEndsFamily /\ ClaimsArePast /\ ChangeReaches /\ ChangeEndsSessions

-----------------------------------------------------------------------------
(* What the steps do to the table *)

LEMMA IdleType == Idle \in Request /\ Idle.pc = "idle" /\ Idle.pwd = 0
  BY AccessAssumption DEF Idle, Request, Seconds

LEMMA ZeroKnown == \A h : Known(h, 0, 0)
  BY DEF Known

LEMMA VersionKnown ==
  ASSUME TypeOK
  PROVE  Version \in Seconds /\ Known(changes, Version, Len(changes))
  BY AccessAssumption DEF TypeOK, Version, Moment, Known, Seconds

LEMMA KnownLater ==
  ASSUME TypeOK, NEW x \in Seconds, changes' = Append(changes, x)
  PROVE  /\ changes' \in Seq(Seconds) /\ Len(changes') = Len(changes) + 1
         /\ \A v : \A n \in 0..Len(changes) :
              Known(changes, v, n) => Known(changes', v, n)
         /\ \A v : Known(changes, v, Len(changes)) => Known(changes', v, Len(changes'))
<1>1. /\ changes \in Seq(Seconds) /\ Len(changes) \in Nat
      /\ changes' \in Seq(Seconds) /\ Len(changes') = Len(changes) + 1
      /\ \A c \in 1..Len(changes) : changes'[c] = changes[c]
  BY DEF TypeOK
<1>2. ASSUME NEW v, NEW n \in 0..Len(changes), Known(changes, v, n)
      PROVE  Known(changes', v, n)
  BY <1>1, <1>2 DEF Known
<1>3. ASSUME NEW v, Known(changes, v, Len(changes))
      PROVE  Known(changes', v, Len(changes'))
  BY <1>1, <1>3 DEF Known
<1> QED BY <1>1, <1>2, <1>3

LEMMA RevokedSeq ==
  ASSUME TypeOK, NEW rows
  PROVE  /\ Revoked(rows) \in Seq(Session)
         /\ Len(Revoked(rows)) = Len(sessions)
         /\ \A i \in Rows :
              /\ Revoked(rows)[i].family = sessions[i].family
              /\ Revoked(rows)[i].revoked <=> (i \in rows \/ sessions[i].revoked)
              /\ i \notin rows => Revoked(rows)[i] = sessions[i]
              /\ i \in rows => Revoked(rows)[i].pwd = 0 /\ Revoked(rows)[i].at = 0
<1>1. \A i \in Rows : sessions[i] \in Session
  BY DEF TypeOK, Rows
<1>2. \A i \in Rows : RevokedRow(i) \in Session
  BY <1>1, AccessAssumption DEF RevokedRow, Session, Seconds, Changes
<1>3. Rows = 1..Len(sessions) /\ Len(sessions) \in Nat
  BY DEF TypeOK, Rows
<1>4. /\ Revoked(rows) = [i \in 1..Len(sessions) |->
                            IF i \in rows THEN RevokedRow(i) ELSE sessions[i]]
      /\ Revoked(rows) \in Seq(Session) /\ Len(Revoked(rows)) = Len(sessions)
  BY <1>1, <1>2, <1>3 DEF Revoked
<1> QED BY <1>3, <1>4, <1>1 DEF RevokedRow, Session

LEMMA ElementOfSeq ==
  ASSUME NEW S, NEW s \in Seq(S), NEW i \in DOMAIN s
  PROVE  s[i] \in S
  OBVIOUS

LEMMA AppendedRow ==
  ASSUME NEW s \in Seq(Session), NEW x \in Session, sessions' = Append(s, x)
  PROVE  /\ sessions' \in Seq(Session)
         /\ Len(sessions') = Len(s) + 1
         /\ Rows' = 1..(Len(s) + 1)
         /\ \A i \in 1..Len(s) : sessions'[i] = s[i]
         /\ sessions'[Len(s) + 1] = x
  BY DEF Rows

LEMMA NewSessionType ==
  ASSUME TypeOK, Len(sessions) < MaxSessions, NEW q \in Requests,
         NEW family \in 0..MaxSessions, NEW account \in Accounts \cup {NoAccount}
  PROVE  /\ NewSession(q, family, account) \in Session
         /\ NewSession(q, family, account).family
              = IF family = 0 THEN Len(sessions) + 1 ELSE family
<1>1. Len(sessions) + 1 \in Ids /\ Len(changes) \in Changes /\ request[q].pwd \in Seconds
  BY AccessAssumption DEF TypeOK, Ids, Request, Changes
<1> QED BY <1>1, AccessAssumption
        DEF NewSession, FamilyOr, Session, Seconds, Changes, Ids

LEMMA Basics ==
  ASSUME TypeOK
  PROVE  /\ Rows = 1..Len(sessions) /\ Len(sessions) \in Nat /\ Rows \subseteq Ids
         /\ Len(sessions) <= MaxSessions
         /\ \A i \in Rows : sessions[i] \in Session
         /\ Len(changes) \in Nat /\ Len(changes) <= MaxChanges
         /\ ended \in Nat /\ ended <= Len(changes)
         /\ \A q \in Requests : request[q] \in Request
         /\ \A i \in Rows : sessions[i].family \in Nat
         /\ burnt \subseteq Nat
<1>1. /\ Rows = 1..Len(sessions) /\ Len(sessions) \in Nat
      /\ Len(sessions) <= MaxSessions
      /\ \A i \in Rows : sessions[i] \in Session
  BY DEF TypeOK, Rows
<1>2. Rows \subseteq Ids /\ Ids \subseteq Nat
  BY <1>1, AccessAssumption DEF Ids
<1>3. \A s \in Session : s.family \in Nat
  BY <1>2, AccessAssumption DEF Session
<1>4. /\ Len(changes) \in Nat /\ Len(changes) <= MaxChanges
      /\ ended \in Nat /\ ended <= Len(changes) /\ burnt \subseteq Nat
  BY <1>2, AccessAssumption DEF TypeOK
<1>5. \A q \in Requests : request[q] \in Request
  BY DEF TypeOK
<1> QED BY <1>1, <1>2, <1>3, <1>4, <1>5

-----------------------------------------------------------------------------
(* Steps that leave the table of sessions alone *)

LEMMA RequestOnly ==
  ASSUME IInv, NEW q \in Requests, NEW r \in Request,
         request' = [request EXCEPT ![q] = r],
         UNCHANGED <<tables, second>>,
         r.pc \in {"issue", "rotate"} => Known(changes, r.pwd, Len(changes)),
         r.pc \notin {"reuse", "revoke"},
         r.pc = "rotate" => /\ r.session \in Rows /\ ~sessions[r.session].revoked
                            /\ ~LockedByOther(q, r.session)
  PROVE  IInv'
<1>0. /\ request'[q] = r
      /\ \A p \in Requests : p # q => request'[p] = request[p]
      /\ Rows' = Rows
  BY DEF IInv, TypeOK, Rows, tables
<1>t. UNCHANGED <<sessions, expired, changes, ended, joined, member, second, burnt>>
  BY DEF tables
<1>1. TypeOK'
  BY <1>t DEF IInv, TypeOK
<1>2. LockHeld'
  BY <1>0, <1>t DEF IInv, LockHeld, LockedByOther, Locks, Locking
<1>3. FamilyNames' /\ OneLivePerFamily' /\ ReuseEndsFamily' /\ ChangeEndsSessions'
  BY <1>0, <1>t DEF IInv, FamilyNames, OneLivePerFamily, ReuseEndsFamily,
              ChangeEndsSessions
<1>4. UpdateReaches'
  BY <1>0, <1>t DEF IInv, UpdateReaches
<1>5. ClaimsArePast'
  BY <1>0, <1>t DEF IInv, ClaimsArePast
<1>6. ChangeReaches'
  BY <1>0, <1>t DEF IInv, ChangeReaches
<1> QED BY <1>1, <1>2, <1>3, <1>4, <1>5, <1>6 DEF IInv

LEMMA OpeningStep ==
  ASSUME IInv, NEW q \in Requests,
         \/ \E a \in Accounts : Login(q, a) \/ \E i \in Ids : SwitchAccount(q, i, a)
         \/ RefuseAccount(q) \/ ChangePassword(q) \/ RequestDies(q)
         \/ \E i \in Ids : PresentRefreshToken(q, i)
  PROVE  IInv'
<1>p. /\ Version \in Seconds /\ Known(changes, Version, Len(changes))
      /\ second \in Seconds
  BY VersionKnown DEF IInv, TypeOK
<1>1. CASE RefuseAccount(q) \/ RequestDies(q)
  BY <1>1, <1>p, IdleType, RequestOnly DEF RefuseAccount, RequestDies, End
<1>2. CASE ChangePassword(q)
  <2> DEFINE r == [Idle EXCEPT !.pc = "change", !.pwd = second]
  <2>1. r \in Request /\ r.pc = "change"
    BY <1>p, IdleType DEF Request
  <2>2. request' = [request EXCEPT ![q] = r]
    BY <1>2 DEF ChangePassword, Begin
  <2> HIDE DEF r
  <2> QED BY <1>2, <1>p, <2>1, <2>2, RequestOnly DEF ChangePassword
<1>3. ASSUME NEW a \in Accounts, Login(q, a) \/ \E i \in Ids : SwitchAccount(q, i, a)
      PROVE  IInv'
  <2> DEFINE r == [Idle EXCEPT !.pc = "issue", !.account = a, !.pwd = Version]
  <2>1. r \in Request /\ r.pc = "issue" /\ r.pwd = Version
    BY <1>p, IdleType DEF Request
  <2>2. request' = [request EXCEPT ![q] = r]
    BY <1>3 DEF Login, SwitchAccount, Begin
  <2> HIDE DEF r
  <2> QED BY <1>3, <1>p, <2>1, <2>2, RequestOnly DEF Login, SwitchAccount
<1>4. ASSUME NEW i \in Ids, PresentRefreshToken(q, i) PROVE IInv'
  <2> DEFINE r == [Idle EXCEPT !.pc = "rotate", !.session = i, !.pwd = Version]
  <2>0. i \in 0..MaxSessions
    BY AccessAssumption DEF Ids
  <2>1. r \in Request /\ r.pc = "rotate" /\ r.session = i /\ r.pwd = Version
    BY <1>p, <2>0, IdleType DEF Request
  <2>2. request' = [request EXCEPT ![q] = r]
    BY <1>4 DEF PresentRefreshToken, Begin
  <2> HIDE DEF r
  <2> QED BY <1>4, <1>p, <2>1, <2>2, RequestOnly DEF PresentRefreshToken, Lockable
<1> QED BY <1>1, <1>2, <1>3, <1>4

\* The presented row is revoked, and the UPDATE reads all live rows of its family.
LEMMA ReuseStep ==
  ASSUME IInv, NEW q \in Requests, NEW i \in Ids, PresentUsedToken(q, i)
  PROVE  IInv'
<1> DEFINE r == [Idle EXCEPT !.pc = "reuse", !.session = i,
                             !.targets = ReuseTargets(i)]
<1>b. /\ Rows \subseteq Ids /\ Len(changes) \in Nat /\ i \in 0..MaxSessions
  BY Basics, AccessAssumption DEF IInv, Ids
<1>1. r \in Request /\ r.pc = "reuse" /\ r.session = i /\ r.pwd = 0
      /\ r.targets = ReuseTargets(i)
  BY <1>b, IdleType DEF Request, ReuseTargets, FamilyRows
<1>2. request' = [request EXCEPT ![q] = r] /\ request[q].pc = "idle"
  BY DEF PresentUsedToken, Begin
<1> HIDE DEF r
<1>0. /\ request'[q] = r
      /\ \A p \in Requests : p # q => request'[p] = request[p]
      /\ Rows' = Rows
      /\ UNCHANGED <<sessions, expired, changes, ended, joined, member, second, burnt>>
  BY <1>2 DEF IInv, TypeOK, Rows, PresentUsedToken, tables
<1>3. TypeOK'
  BY <1>0, <1>1, <1>2 DEF IInv, TypeOK
<1>4. LockHeld'
  BY <1>0, <1>1 DEF IInv, LockHeld, LockedByOther, Locks, Locking, PresentUsedToken
<1>5. FamilyNames' /\ OneLivePerFamily' /\ ReuseEndsFamily' /\ ChangeEndsSessions'
  BY <1>0 DEF IInv, FamilyNames, OneLivePerFamily, ReuseEndsFamily,
              ChangeEndsSessions
<1>6. UpdateReaches'
  BY <1>0, <1>1 DEF IInv, UpdateReaches, ReuseTargets, FamilyRows
<1>7. ClaimsArePast' /\ ChangeReaches'
  BY <1>0, <1>1, <1>b DEF IInv, ClaimsArePast, ChangeReaches
<1> QED BY <1>3, <1>4, <1>5, <1>6, <1>7 DEF IInv

LEMMA FlushStep ==
  ASSUME IInv, NEW q \in Requests, FlushPassword(q)
  PROVE  IInv'
<1>b. /\ Rows \subseteq Ids /\ Len(changes) \in Nat /\ request[q] \in Request
  BY Basics DEF IInv
<1> DEFINE r == [request[q] EXCEPT !.pc = "revoke", !.targets = ChangeTargets]
<1>1. r \in Request /\ r.pc = "revoke" /\ r.pwd = request[q].pwd
      /\ r.targets = ChangeTargets
  BY <1>b DEF Request, ChangeTargets
<1>2. request' = [request EXCEPT ![q] = r]
  BY DEF FlushPassword
<1> HIDE DEF r
<1>0. /\ request'[q] = r
      /\ \A p \in Requests : p # q => request'[p] = request[p]
      /\ Rows' = Rows
      /\ UNCHANGED <<sessions, expired, changes, ended, joined, member, second, burnt>>
  BY <1>2 DEF IInv, TypeOK, Rows, FlushPassword, tables
<1>3. TypeOK'
  BY <1>0, <1>1, <1>2 DEF IInv, TypeOK
<1>4. LockHeld'
  BY <1>0, <1>1 DEF IInv, LockHeld, Locking
<1>5. FamilyNames' /\ OneLivePerFamily' /\ ReuseEndsFamily' /\ ChangeEndsSessions'
  BY <1>0 DEF IInv, FamilyNames, OneLivePerFamily, ReuseEndsFamily,
              ChangeEndsSessions
<1>6. UpdateReaches' /\ ClaimsArePast'
  BY <1>0, <1>1 DEF IInv, UpdateReaches, ClaimsArePast
<1>7. ChangeReaches'
  BY <1>0, <1>1 DEF IInv, ChangeReaches, ChangeTargets, FlushPassword, UserLocked
<1> QED BY <1>3, <1>4, <1>5, <1>6, <1>7 DEF IInv

-----------------------------------------------------------------------------
(* Steps that add a row *)

LEMMA IssueStep ==
  ASSUME IInv, NEW q \in Requests, IssueTokenPair(q)
  PROVE  IInv'
<1> DEFINE new == NewSession(q, 0, request[q].account)
           n == Len(sessions) + 1
<1>b. /\ Rows = 1..Len(sessions) /\ Len(sessions) \in Nat
      /\ Len(sessions) <= MaxSessions
      /\ \A i \in Rows : sessions[i] \in Session
      /\ Len(changes) \in Nat /\ request[q] \in Request
      /\ \A i \in Rows : sessions[i].family \in Nat
      /\ burnt \subseteq Nat
  BY Basics DEF IInv
<1>1. new \in Session /\ new.family = n
  <2>1. request[q].account \in Accounts \cup {NoAccount} /\ Len(sessions) < MaxSessions
    BY <1>b DEF IssueTokenPair, Request
  <2>2. 0 \in 0..MaxSessions /\ TypeOK
    BY AccessAssumption DEF IInv
  <2> QED BY <2>1, <2>2, NewSessionType
<1>2. /\ ~new.revoked /\ new.pwd = request[q].pwd /\ new.at = Len(changes)
      /\ ended <= new.until
      /\ \A p \in Requests : request[p].pc = "revoke" => Len(changes) < new.until
      /\ new.at <= Len(changes) /\ Known(changes, new.pwd, new.at)
  <2>1. request[q].pc \in {"issue", "rotate"}
    BY DEF IssueTokenPair, Rotate
  <2> QED BY <2>1, <1>b, Basics DEF NewSession, UserLocked, IInv, ClaimsArePast
<1>3. sessions' = Append(sessions, new)
  BY DEF IssueTokenPair
<1> HIDE DEF new
<1>4. /\ sessions' \in Seq(Session) /\ Len(sessions') = n
      /\ Rows' = 1..n
      /\ \A i \in Rows : sessions'[i] = sessions[i]
      /\ sessions'[n] = new
  BY <1>1, <1>3, <1>b, AppendedRow DEF IInv, TypeOK
<1>5. /\ request' = [request EXCEPT ![q] = Idle] /\ request'[q] = Idle
      /\ \A p \in Requests : p # q => request'[p] = request[p]
      /\ UNCHANGED <<expired, changes, ended, joined, member, second, burnt>>
  BY DEF IssueTokenPair, End, IInv, TypeOK
<1>6. TypeOK'
  BY <1>4, <1>5, <1>b, IdleType, AccessAssumption
  DEF IInv, TypeOK, IssueTokenPair
<1>7. LockHeld'
  BY <1>b, <1>4, <1>5, IdleType DEF IInv, LockHeld, Locking
<1>8. FamilyNames'
  BY <1>1, <1>b, <1>4, <1>5 DEF IInv, FamilyNames
<1>9. OneLivePerFamily'
  BY <1>1, <1>b, <1>4 DEF IInv, OneLivePerFamily, FamilyNames
<1>10. UpdateReaches'
  <2>1. \A p \in Requests : request[p].pc = "reuse" => request[p].session \in Rows
    BY DEF IInv, LockHeld, Locking
  <2> QED BY <2>1, <1>1, <1>b, <1>4, <1>5, IdleType
          DEF IInv, UpdateReaches, FamilyNames
<1>11. ReuseEndsFamily'
  BY <1>1, <1>b, <1>4, <1>5 DEF IInv, ReuseEndsFamily, FamilyNames
<1>12. ClaimsArePast'
  BY <1>2, <1>b, <1>4, <1>5, IdleType DEF IInv, ClaimsArePast
<1>13. ChangeReaches'
  BY <1>2, <1>b, <1>4, <1>5, IdleType DEF IInv, ChangeReaches
<1>14. ChangeEndsSessions'
  BY <1>2, <1>b, <1>4, <1>5 DEF IInv, ChangeEndsSessions
<1> QED BY <1>6, <1>7, <1>8, <1>9, <1>10, <1>11, <1>12, <1>13, <1>14 DEF IInv

\* The row a rotation locked is still its family's only live one.
LEMMA RotateStep ==
  ASSUME IInv, NEW q \in Requests, Rotate(q)
  PROVE  IInv'
<1>b. /\ Rows = 1..Len(sessions) /\ Len(sessions) \in Nat
      /\ \A j \in Rows : sessions[j] \in Session
      /\ Len(changes) \in Nat /\ \A p \in Requests : request[p] \in Request
      /\ Len(sessions) < MaxSessions
  BY Basics DEF IInv, Rotate
<1>i. PICK i \in Rows : /\ i = request[q].session /\ ~sessions[i].revoked
                        /\ request[q].pc = "rotate"
  BY DEF IInv, LockHeld, Locking, Rotate
<1> DEFINE new == NewSession(q, sessions[i].family, sessions[i].account)
           n == Len(sessions) + 1
           mid == Revoked({i})
<1>1. new \in Session /\ new.family = sessions[i].family
  BY <1>b, <1>i, NewSessionType, AccessAssumption DEF IInv, Session, Ids
<1>2. /\ ~new.revoked /\ new.pwd = request[q].pwd /\ new.at = Len(changes)
      /\ ended <= new.until
      /\ \A p \in Requests : request[p].pc = "revoke" => Len(changes) < new.until
      /\ new.at <= Len(changes) /\ Known(changes, new.pwd, new.at)
  <2>1. request[q].pc \in {"issue", "rotate"}
    BY DEF IssueTokenPair, Rotate
  <2> QED BY <2>1, <1>b, Basics DEF NewSession, UserLocked, IInv, ClaimsArePast
<1>3. /\ mid \in Seq(Session) /\ Len(mid) = Len(sessions)
      /\ \A j \in Rows : /\ mid[j].family = sessions[j].family
                         /\ mid[j].revoked <=> (j = i \/ sessions[j].revoked)
                         /\ j # i => mid[j] = sessions[j]
      /\ mid[i].pwd = 0 /\ mid[i].at = 0
  BY <1>i, RevokedSeq DEF IInv
<1>4. sessions' = Append(mid, new)
  BY <1>i DEF Rotate
<1> HIDE DEF new, mid
<1>5. /\ sessions' \in Seq(Session) /\ Len(sessions') = n
      /\ Rows' = 1..n
      /\ \A j \in 1..Len(mid) : sessions'[j] = mid[j]
      /\ sessions'[Len(mid) + 1] = new
  BY <1>1, <1>3, <1>4, AppendedRow
<1>6. /\ request' \in [Requests -> Request]
      /\ request'[q] = Idle
      /\ \A p \in Requests : p # q =>
           /\ request'[p].pc = request[p].pc
           /\ request'[p].session = request[p].session
           /\ request'[p].pwd = request[p].pwd
           /\ request'[p].targets = request[p].targets
           /\ request'[p].raced <=>
                 \/ request[p].raced
                 \/ /\ request[p].pc = "reuse"
                    /\ sessions[request[p].session].family = sessions[i].family
      /\ UNCHANGED <<expired, changes, ended, joined, member, second, burnt>>
  BY <1>b, <1>i, IdleType DEF Rotate, Request
<1>7. TypeOK'
  BY <1>5, <1>6, <1>b, AccessAssumption DEF IInv, TypeOK
\* The rest needs of the new table only this.
<1>t. /\ Rows' = Rows \cup {n} /\ n \notin Rows /\ Len(sessions') = n /\ i # n
      /\ \A j \in Rows : /\ sessions'[j].family = sessions[j].family
                         /\ sessions'[j].revoked <=> (j = i \/ sessions[j].revoked)
                         /\ j # i => sessions'[j] = sessions[j]
      /\ sessions'[i].pwd = 0 /\ sessions'[i].at = 0
      /\ sessions'[n].family = sessions[i].family
      /\ ~sessions'[n].revoked
      /\ sessions'[n].pwd = request[q].pwd /\ sessions'[n].at = Len(changes)
      /\ ended <= sessions'[n].until
      /\ \A p \in Requests : request[p].pc = "revoke" => Len(changes) < sessions'[n].until
      /\ Known(changes, sessions'[n].pwd, Len(changes))
      /\ Len(changes) <= Len(changes)
  BY <1>b, <1>1, <1>2, <1>3, <1>5
<1>n. n \in Nat /\ \A j \in Rows : j \in Nat /\ j < n
  BY <1>b
<1>f. (\A j \in Rows : sessions[j].family \in Nat) /\ burnt \subseteq Nat
  BY Basics DEF IInv
<1> HIDE DEF n
<1>8. LockHeld'
  BY <1>i, <1>t, <1>6, IdleType DEF IInv, LockHeld, Locking
<1>9. FamilyNames'
  <2>1. \A j \in Rows' : sessions'[j].family <= j
    BY <1>i, <1>t, <1>n, <1>f DEF IInv, FamilyNames
  <2>2. Len(sessions) \in Nat /\ Len(sessions) <= n
    BY <1>b DEF n
  <2> QED BY <2>1, <2>2, <1>t, <1>6, <1>n, <1>f DEF IInv, FamilyNames
<1>10. OneLivePerFamily'
  BY <1>i, <1>t DEF IInv, OneLivePerFamily
<1>11. UpdateReaches'
  <2>1. \A p \in Requests : request[p].pc = "reuse" => request[p].session \in Rows
    BY DEF IInv, LockHeld, Locking
  <2>2. ASSUME NEW p \in Requests, request'[p].pc = "reuse", ~request'[p].raced,
               NEW j \in Rows', ~sessions'[j].revoked,
               sessions'[j].family = sessions'[request'[p].session].family
        PROVE  j \in request'[p].targets
    <3>1. /\ p # q /\ request[p].pc = "reuse" /\ ~request[p].raced
          /\ request'[p].targets = request[p].targets
          /\ sessions'[j].family = sessions[request[p].session].family
          /\ sessions[request[p].session].family # sessions[i].family
      BY <2>1, <2>2, <1>6, <1>t, IdleType
    <3>2. j \in Rows /\ ~sessions[j].revoked /\ sessions'[j].family = sessions[j].family
      BY <2>2, <3>1, <1>t
    <3> QED BY <3>1, <3>2 DEF IInv, UpdateReaches
  <2> QED BY <2>2 DEF UpdateReaches
<1>12. ReuseEndsFamily'
  BY <1>i, <1>t, <1>6 DEF IInv, ReuseEndsFamily
<1>13. ClaimsArePast'
  <2>1. \A j \in Rows' : /\ sessions'[j].at <= Len(changes)
                          /\ Known(changes, sessions'[j].pwd, sessions'[j].at)
    BY <1>b, <1>i, <1>t, ZeroKnown DEF IInv, ClaimsArePast
  <2>2. \A p \in Requests : request'[p].pc \in {"issue", "rotate"} =>
                            Known(changes, request'[p].pwd, Len(changes))
    BY <1>b, <1>6, IdleType DEF IInv, ClaimsArePast
  <2> QED BY <2>1, <2>2, <1>6 DEF ClaimsArePast
<1>14. ChangeReaches'
  <2>1. ASSUME NEW p \in Requests, request'[p].pc = "revoke"
        PROVE  /\ p # q /\ request[p].pc = "revoke"
               /\ request'[p].targets = request[p].targets
    BY <2>1, <1>6, IdleType
  <2>2. \A p \in Requests : request'[p].pc = "revoke" =>
           /\ Len(changes) < MaxChanges
           /\ \A v \in Requests \ {p} : request'[v].pc # "revoke"
    BY <2>1, <1>6, IdleType DEF IInv, ChangeReaches
  <2>3. \A p \in Requests : request'[p].pc = "revoke" =>
           \A j \in Rows' : ~sessions'[j].revoked /\ j \notin request'[p].targets
                            => Len(changes) < sessions'[j].until
    BY <2>1, <1>t DEF IInv, ChangeReaches
  <2> QED BY <2>2, <2>3, <1>6 DEF ChangeReaches
<1>15. ChangeEndsSessions'
  BY <1>t, <1>6 DEF IInv, ChangeEndsSessions
<1> QED BY <1>7, <1>8, <1>9, <1>10, <1>11, <1>12, <1>13, <1>14, <1>15 DEF IInv

-----------------------------------------------------------------------------
(* Steps that revoke rows *)

\* What every such step keeps: nobody else has locked a row it revokes.
LEMMA Revoking ==
  ASSUME IInv, NEW rows, sessions' = Revoked(rows),
         request' \in [Requests -> Request],
         \A p \in Requests : \/ request'[p] = Idle
                             \/ /\ request'[p] = request[p]
                                /\ \A i \in rows : ~Locks(p, i)
  PROVE  /\ sessions' \in Seq(Session) /\ Len(sessions') = Len(sessions)
         /\ Rows' = Rows
         /\ \A i \in Rows :
              /\ sessions'[i].family = sessions[i].family
              /\ sessions'[i].revoked <=> (i \in rows \/ sessions[i].revoked)
              /\ i \notin rows => sessions'[i] = sessions[i]
              /\ i \in rows => sessions'[i].pwd = 0 /\ sessions'[i].at = 0
         /\ \A i \in Rows : /\ sessions'[i].at <= Len(changes)
                             /\ Known(changes, sessions'[i].pwd, sessions'[i].at)
         /\ \A i \in Rows : sessions'[i].family <= i
         /\ LockHeld' /\ OneLivePerFamily' /\ UpdateReaches'
<1>1. /\ sessions' \in Seq(Session) /\ Len(sessions') = Len(sessions)
      /\ \A i \in Rows :
           /\ sessions'[i].family = sessions[i].family
           /\ sessions'[i].revoked <=> (i \in rows \/ sessions[i].revoked)
           /\ i \notin rows => sessions'[i] = sessions[i]
           /\ i \in rows => sessions'[i].pwd = 0 /\ sessions'[i].at = 0
  BY RevokedSeq DEF IInv
<1>2. Rows' = Rows
  BY <1>1, Basics DEF IInv, Rows
<1>3. LockHeld'
  <2>1. \A p \in Requests : request'[p].pc \in Locking =>
           request'[p] = request[p] /\ request[p].session \notin rows
    BY IdleType DEF Locking, Locks
  <2> QED BY <2>1, <1>1, <1>2 DEF IInv, LockHeld
<1>4. OneLivePerFamily'
  BY <1>1, <1>2 DEF IInv, OneLivePerFamily
<1>5. UpdateReaches'
  <2>1. \A p \in Requests : request'[p].pc = "reuse" =>
           request'[p] = request[p] /\ request[p].session \in Rows
    BY IdleType DEF IInv, LockHeld, Locking
  <2> QED BY <2>1, <1>1, <1>2 DEF IInv, UpdateReaches
<1>6. \A i \in Rows : sessions'[i].family <= i
  BY <1>1 DEF IInv, FamilyNames
<1>7. ASSUME NEW i \in Rows
      PROVE  /\ sessions'[i].at <= Len(changes)
             /\ Known(changes, sessions'[i].pwd, sessions'[i].at)
  <2>1. CASE i \in rows
    BY <2>1, <1>1, Basics, ZeroKnown DEF IInv
  <2>2. CASE i \notin rows
    BY <2>2, <1>1 DEF IInv, ClaimsArePast
  <2> QED BY <2>1, <2>2
<1> QED BY <1>1, <1>2, <1>3, <1>4, <1>5, <1>6, <1>7

LEMMA LogoutStep ==
  ASSUME IInv, NEW i \in Ids, Logout(i)
  PROVE  IInv'
<1>1. /\ sessions' \in Seq(Session) /\ Len(sessions') = Len(sessions)
      /\ Rows' = Rows
      /\ \A j \in Rows :
           /\ sessions'[j].family = sessions[j].family
           /\ sessions'[j].revoked <=> (j \in {i} \/ sessions[j].revoked)
           /\ j \notin {i} => sessions'[j] = sessions[j]
           /\ j \in {i} => sessions'[j].pwd = 0 /\ sessions'[j].at = 0
      /\ \A j \in Rows : /\ sessions'[j].at <= Len(changes)
                          /\ Known(changes, sessions'[j].pwd, sessions'[j].at)
      /\ \A j \in Rows : sessions'[j].family <= j
      /\ LockHeld' /\ OneLivePerFamily' /\ UpdateReaches'
  <2>1. \A p \in Requests : \A j \in {i} : ~Locks(p, j)
    BY DEF Logout
  <2>2. sessions' = Revoked({i}) /\ request' = request
    BY DEF Logout
  <2>3. request' \in [Requests -> Request] /\ \A p \in Requests : request'[p] = request[p]
    BY <2>2 DEF IInv, TypeOK
  <2> DEFINE rows == {i}
  <2>4. sessions' = Revoked(rows) /\ \A p \in Requests : \A j \in rows : ~Locks(p, j)
    BY <2>1, <2>2
  <2> HIDE DEF rows
  <2>5. /\ sessions' \in Seq(Session) /\ Len(sessions') = Len(sessions)
        /\ Rows' = Rows
        /\ \A j \in Rows :
             /\ sessions'[j].family = sessions[j].family
             /\ sessions'[j].revoked <=> (j \in rows \/ sessions[j].revoked)
             /\ j \notin rows => sessions'[j] = sessions[j]
             /\ j \in rows => sessions'[j].pwd = 0 /\ sessions'[j].at = 0
        /\ \A j \in Rows : /\ sessions'[j].at <= Len(changes)
                            /\ Known(changes, sessions'[j].pwd, sessions'[j].at)
        /\ \A j \in Rows : sessions'[j].family <= j
        /\ LockHeld' /\ OneLivePerFamily' /\ UpdateReaches'
    BY <2>3, <2>4, Revoking
  <2> QED BY <2>5 DEF rows
<1>2. UNCHANGED <<expired, changes, ended, joined, member, second, request, burnt>>
  BY DEF Logout
<1>3. TypeOK' /\ FamilyNames'
  BY <1>1, <1>2 DEF IInv, TypeOK, FamilyNames
<1>4. ReuseEndsFamily' /\ ChangeEndsSessions'
  BY <1>1, <1>2 DEF IInv, ReuseEndsFamily, ChangeEndsSessions
<1>5. ClaimsArePast'
  BY <1>1, <1>2 DEF IInv, ClaimsArePast
<1>6. ChangeReaches'
  BY <1>1, <1>2 DEF IInv, ChangeReaches
<1> QED BY <1>1, <1>3, <1>4, <1>5, <1>6 DEF IInv

LEMMA RevokeFamilyStep ==
  ASSUME IInv, NEW q \in Requests, RevokeFamily(q)
  PROVE  IInv'
<1> DEFINE rows == request[q].targets
           family == sessions[request[q].session].family
<1>1. /\ sessions' \in Seq(Session) /\ Len(sessions') = Len(sessions)
      /\ request' \in [Requests -> Request]
      /\ Rows' = Rows
      /\ \A j \in Rows :
           /\ sessions'[j].family = sessions[j].family
           /\ sessions'[j].revoked <=> (j \in rows \/ sessions[j].revoked)
           /\ j \notin rows => sessions'[j] = sessions[j]
           /\ j \in rows => sessions'[j].pwd = 0 /\ sessions'[j].at = 0
      /\ \A p \in Requests : request'[p] = Idle \/ request'[p] = request[p]
      /\ \A j \in Rows : /\ sessions'[j].at <= Len(changes)
                          /\ Known(changes, sessions'[j].pwd, sessions'[j].at)
      /\ \A j \in Rows : sessions'[j].family <= j
      /\ LockHeld' /\ OneLivePerFamily' /\ UpdateReaches'
  <2>1. \A p \in Requests \ {q} : \A j \in rows : ~Locks(p, j)
    BY DEF RevokeFamily, LockedByOther
  <2>2. sessions' = Revoked(rows) /\ request' = [request EXCEPT ![q] = Idle]
    BY DEF RevokeFamily, End
  <2>3. /\ request' \in [Requests -> Request]
        /\ request'[q] = Idle
        /\ \A p \in Requests \ {q} : request'[p] = request[p]
    BY <2>2, IdleType DEF IInv, TypeOK
  <2> HIDE DEF rows
  <2> QED BY <2>1, <2>2, <2>3, Revoking
<1>2. /\ request[q].session \in Rows /\ request[q].pc = "reuse"
      /\ UNCHANGED <<expired, changes, ended, joined, member, second>>
      /\ \/ burnt' = burnt
         \/ burnt' = burnt \cup {family} /\ ~request[q].raced
  BY DEF RevokeFamily, IInv, LockHeld, Locking
<1>b. /\ Rows = 1..Len(sessions) /\ Len(sessions) \in Nat
      /\ Len(changes) \in Nat /\ \A j \in Rows : sessions[j] \in Session
      /\ \A j \in Rows : sessions[j].family \in Nat
  BY Basics DEF IInv
<1>3. TypeOK'
  <2>1. burnt' \subseteq Ids
    BY <1>2, <1>b DEF IInv, TypeOK, Session
  <2> QED BY <2>1, <1>1, <1>2 DEF IInv, TypeOK
<1>4. FamilyNames'
  <2>1. family <= Len(sessions)
    BY <1>2, <1>b DEF IInv, FamilyNames
  <2> QED BY <2>1, <1>1, <1>2 DEF IInv, FamilyNames
<1>5. ReuseEndsFamily'
  <2>1. ~request[q].raced => \A j \in Rows :
           sessions[j].family = family => sessions'[j].revoked
    BY <1>1, <1>2 DEF IInv, UpdateReaches
  <2> QED BY <2>1, <1>1, <1>2 DEF IInv, ReuseEndsFamily
<1>6. ClaimsArePast'
  BY <1>1, <1>2, <1>b, IdleType DEF IInv, ClaimsArePast
<1>7. ChangeReaches' /\ ChangeEndsSessions'
  BY <1>1, <1>2, IdleType DEF IInv, ChangeReaches, ChangeEndsSessions
<1> QED BY <1>1, <1>3, <1>4, <1>5, <1>6, <1>7 DEF IInv

LEMMA RevokeAllStep ==
  ASSUME IInv, NEW q \in Requests, RevokeAllUserSessions(q)
  PROVE  IInv'
<1> DEFINE rows == request[q].targets
<1>1. /\ sessions' \in Seq(Session) /\ Len(sessions') = Len(sessions)
      /\ request' \in [Requests -> Request]
      /\ Rows' = Rows
      /\ \A j \in Rows :
           /\ sessions'[j].family = sessions[j].family
           /\ sessions'[j].revoked <=> (j \in rows \/ sessions[j].revoked)
           /\ j \notin rows => sessions'[j] = sessions[j]
           /\ j \in rows => sessions'[j].pwd = 0 /\ sessions'[j].at = 0
      /\ \A p \in Requests : request'[p] = Idle \/ request'[p] = request[p]
      /\ \A j \in Rows : /\ sessions'[j].at <= Len(changes)
                          /\ Known(changes, sessions'[j].pwd, sessions'[j].at)
      /\ \A j \in Rows : sessions'[j].family <= j
      /\ LockHeld' /\ OneLivePerFamily' /\ UpdateReaches'
  <2>1. \A p \in Requests \ {q} : \A j \in rows : ~Locks(p, j)
    BY DEF RevokeAllUserSessions, LockedByOther
  <2>2. sessions' = Revoked(rows) /\ request' = [request EXCEPT ![q] = Idle]
    BY DEF RevokeAllUserSessions, End
  <2>3. /\ request' \in [Requests -> Request]
        /\ request'[q] = Idle
        /\ \A p \in Requests \ {q} : request'[p] = request[p]
    BY <2>2, IdleType DEF IInv, TypeOK
  <2> HIDE DEF rows
  <2> QED BY <2>1, <2>2, <2>3, Revoking
<1>t. request[q].pc = "revoke" /\ request[q] \in Request /\ request[q].pwd \in Seconds
  BY Basics DEF RevokeAllUserSessions, IInv, Request
<1>c. /\ changes' \in Seq(Seconds) /\ Len(changes') = Len(changes) + 1
      /\ \A v : \A n \in 0..Len(changes) :
           Known(changes, v, n) => Known(changes', v, n)
      /\ \A v : Known(changes, v, Len(changes)) => Known(changes', v, Len(changes'))
  BY <1>t, KnownLater DEF RevokeAllUserSessions, IInv
<1>2. /\ UNCHANGED <<expired, joined, member, second, burnt>>
      /\ ended' = Len(changes) + 1 /\ Len(changes) < MaxChanges
      /\ \A p \in Requests : request'[p].pc # "revoke"
  <2>1. /\ ended' = Len(changes) + 1
        /\ UNCHANGED <<expired, joined, member, second, burnt>>
        /\ request' = [request EXCEPT ![q] = Idle]
    BY DEF RevokeAllUserSessions, End
  <2> QED BY <2>1, <1>t, IdleType DEF IInv, ChangeReaches, TypeOK
<1>b. /\ Len(changes) \in Nat
      /\ \A j \in Rows : sessions[j] \in Session
      /\ \A s \in Session : s.at \in Nat /\ s.until \in Nat
  BY Basics, AccessAssumption DEF IInv, Session, Changes
<1>3. TypeOK' /\ FamilyNames'
  BY <1>1, <1>2, <1>b, <1>c, AccessAssumption DEF IInv, TypeOK, FamilyNames
<1>4. ReuseEndsFamily'
  BY <1>1, <1>2 DEF IInv, ReuseEndsFamily
<1>5. ClaimsArePast'
  <2>1. ASSUME NEW j \in Rows
        PROVE  /\ sessions'[j].at <= Len(changes')
               /\ Known(changes', sessions'[j].pwd, sessions'[j].at)
    <3>1. sessions'[j] \in Session
      BY <1>1, ElementOfSeq DEF Rows
    <3>2. sessions'[j].at \in 0..Len(changes)
      BY <3>1, <1>1, <1>b
    <3> QED BY <3>2, <1>1, <1>b, <1>c
  <2>2. \A p \in Requests : request'[p].pc \in {"issue", "rotate"} =>
                            Known(changes', request'[p].pwd, Len(changes'))
    BY <1>1, <1>c, IdleType DEF IInv, ClaimsArePast
  <2> QED BY <2>1, <2>2, <1>1 DEF ClaimsArePast
<1>6. ChangeReaches'
  BY <1>2 DEF ChangeReaches
<1>7. ChangeEndsSessions'
  <2>1. \A j \in Rows : ~sessions[j].revoked /\ j \notin rows
                        => Len(changes) < sessions[j].until
    BY DEF IInv, ChangeReaches, RevokeAllUserSessions
  <2> QED BY <2>1, <1>1, <1>2, <1>b DEF ChangeEndsSessions
<1> QED BY <1>1, <1>3, <1>4, <1>5, <1>6, <1>7 DEF IInv

\* An invitation changes the password and none of the tables the rest reads.
LEMMA AcceptStep ==
  ASSUME IInv, NEW a \in Accounts, AcceptInvitation(a)
  PROVE  IInv'
<1>c. /\ changes' \in Seq(Seconds) /\ Len(changes') = Len(changes) + 1
      /\ \A v : \A n \in 0..Len(changes) :
           Known(changes, v, n) => Known(changes', v, n)
      /\ \A v : Known(changes, v, Len(changes)) => Known(changes', v, Len(changes'))
  BY VersionKnown, KnownLater DEF AcceptInvitation, IInv
<1>2. /\ UNCHANGED <<sessions, expired, ended, second, request, burnt>>
      /\ joined' = joined \cup {a} /\ member' = member \cup {a}
      /\ Len(changes) < MaxChanges
      /\ \A p \in Requests : request[p].pc # "revoke"
  BY DEF AcceptInvitation, UserLocked
<1>b. /\ Len(changes) \in Nat /\ Rows' = Rows
      /\ \A j \in Rows : sessions[j] \in Session
      /\ \A s \in Session : s.at \in Nat
  BY <1>2, Basics, AccessAssumption DEF IInv, Session, Changes, Rows
<1>3. TypeOK'
  BY <1>2, <1>b, <1>c, AccessAssumption DEF IInv, TypeOK
<1>4. /\ LockHeld' /\ FamilyNames' /\ OneLivePerFamily' /\ UpdateReaches'
      /\ ReuseEndsFamily' /\ ChangeEndsSessions'
  BY <1>2, <1>b DEF IInv, LockHeld, FamilyNames, OneLivePerFamily, UpdateReaches,
                    ReuseEndsFamily, ChangeEndsSessions
<1>5. ClaimsArePast'
  <2>1. ASSUME NEW j \in Rows
        PROVE  /\ sessions[j].at <= Len(changes')
               /\ Known(changes', sessions[j].pwd, sessions[j].at)
    <3>1. /\ sessions[j].at \in 0..Len(changes)
          /\ Known(changes, sessions[j].pwd, sessions[j].at)
      BY <1>b DEF IInv, ClaimsArePast
    <3> QED BY <3>1, <1>b, <1>c
  <2> QED BY <2>1, <1>2, <1>b, <1>c DEF IInv, ClaimsArePast
<1>6. ChangeReaches'
  BY <1>2 DEF ChangeReaches
<1> QED BY <1>3, <1>4, <1>5, <1>6 DEF IInv

-----------------------------------------------------------------------------
(* The theorems *)

LEMMA InitIInv == Init => IInv
<1> SUFFICES ASSUME Init PROVE IInv
  OBVIOUS
<1>1. Rows = {} /\ Len(sessions) = 0 /\ \A q \in Requests : request[q] = Idle
  BY DEF Init, Rows
<1>2. TypeOK
  BY <1>1, IdleType, AccessAssumption DEF Init, TypeOK, Seconds
<1>3. LockHeld /\ UpdateReaches /\ ChangeReaches
  BY <1>1, IdleType DEF LockHeld, Locking, UpdateReaches, ChangeReaches
<1>4. FamilyNames /\ OneLivePerFamily /\ ReuseEndsFamily /\ ChangeEndsSessions
  BY <1>1 DEF Init, FamilyNames, OneLivePerFamily, ReuseEndsFamily,
              ChangeEndsSessions
<1>5. ClaimsArePast
  BY <1>1, IdleType DEF Init, ClaimsArePast
<1> QED BY <1>2, <1>3, <1>4, <1>5 DEF IInv

LEMMA NextIInv == IInv /\ [Next]_vars => IInv'
<1> SUFFICES ASSUME IInv, [Next]_vars PROVE IInv'
  OBVIOUS
<1>1. CASE Tick \/ Expire \/ \E a \in Accounts : ChangeMembership(a)
  <2>1. UNCHANGED <<sessions, changes, ended, request, burnt>>
    BY <1>1 DEF Tick, Expire, ChangeMembership, tables
  <2>2. TypeOK'
    BY <1>1, AccessAssumption DEF IInv, TypeOK, Seconds, Tick, Expire,
                                  ChangeMembership, tables
  <2> QED BY <2>1, <2>2 DEF IInv, LockHeld, FamilyNames, OneLivePerFamily,
             UpdateReaches, ReuseEndsFamily, ClaimsArePast, ChangeReaches,
             ChangeEndsSessions, Rows
<1>2. CASE UNCHANGED vars
  BY <1>2 DEF vars, tables, IInv, TypeOK, LockHeld, FamilyNames, OneLivePerFamily,
             UpdateReaches, ReuseEndsFamily, ClaimsArePast, ChangeReaches,
             ChangeEndsSessions, Rows
<1> QED BY <1>1, <1>2, OpeningStep, ReuseStep, FlushStep, IssueStep, RotateStep,
           LogoutStep, RevokeFamilyStep, RevokeAllStep, AcceptStep DEF Next

LEMMA IInvHolds == Spec => []IInv
  BY InitIInv, NextIInv, PTL DEF Spec

\* The rows, claims and requests keep their types for every number of each.
THEOREM TypeCorrect == Spec => []TypeOK
<1>1. IInv => TypeOK
  BY DEF IInv
<1> QED BY <1>1, IInvHolds, PTL

\* rotate_refresh_token's FOR UPDATE: any number of tabs that refresh at once
\* leave one usable refresh token per login.
THEOREM RotationIsExclusive == Spec => []OneLivePerFamily
<1>1. IInv => OneLivePerFamily
  BY DEF IInv
<1> QED BY <1>1, IInvHolds, PTL

\* A family ended by a reused token stays ended, whatever else is under way,
\* unless a rotation committed while the UPDATE that ends it was waiting.
THEOREM ReuseIsFinal == Spec => []ReuseEndsFamily
<1>1. IInv => ReuseEndsFamily
  BY DEF IInv
<1> QED BY <1>1, IInvHolds, PTL

\* revoke_all_user_sessions: what a reset or a colleague's change misses was
\* committed while it was at work, and the next such change gets it, whatever
\* invitations set the password in between.
THEOREM ChangeIsThorough == Spec => []ChangeEndsSessions
<1>1. IInv => ChangeEndsSessions
  BY DEF IInv
<1> QED BY <1>1, IInvHolds, PTL

\* get_auth_context compares whole seconds: a token that went out before the last
\* new password is refused, unless password_changed_at is of a second in which it
\* had been set before the token went out.
THEOREM OldTokensAreRefused == Spec => []StaleTokensRefused
<1>1. ASSUME IInv PROVE StaleTokensRefused
  <2>1. ASSUME NEW i \in Rows, Accepts(i)
        PROVE  \E c \in 0..sessions[i].at : Moment(c) = Version
    <3>1. Known(changes, Version, sessions[i].at)
      BY <1>1, <2>1 DEF IInv, ClaimsArePast, Accepts
    <3> QED BY <3>1 DEF Known, Moment
  <2> QED BY <2>1 DEF StaleTokensRefused
<1> QED BY <1>1, IInvHolds, PTL
=============================================================================
