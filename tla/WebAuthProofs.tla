----------------------------- MODULE WebAuthProofs -----------------------------
(***************************************************************************)
(* What WebAuth guarantees for any requests, sessions, clients and limits.  *)
(* The argument: a login and a reset hold the administrator's row from the  *)
(* statement that reads it to the commit, so the password a login has       *)
(* verified is still the administrator's when its session appears, and a    *)
(* reset sees every session there is.                                      *)
(***************************************************************************)
EXTENDS WebAuth, FiniteSetTheorems, SequenceTheorems, TLAPS

\* What holds of a request under way.
Consistent(r) ==
  /\ request[r].op \in {"setup", "reset"} => request[r].password # 0
  /\ request[r].op = "login" => request[r].client \in Clients
  /\ request[r].op \in {"use", "logout"} => request[r].session \in Sessions
  /\ request[r].session # NoOne => session[request[r].session].state # "none"
  /\ request[r].session # NoOne /\ request[r].late => ~Live(request[r].session)
  /\ request[r].at = "resolved" => request[r].op = "use" /\ ~request[r].late
  /\ At(r, "login", "verify") /\ request[r].seen # 0 => userLock = r /\ request[r].seen = password
  /\ At(r, "reset", "user") => userLock = r /\ password # 0
  /\ At(r, "logout", "both") => userLock = r

RequestsConsistent == \A r \in Requests : Consistent(r)
SessionsOpened == \A s \in Sessions : Live(s) => session[s].password = password /\ password # 0
Account == RequestsConsistent /\ SessionsOpened /\ OneAdministrator

IInv == TypeOK /\ Account /\ LimiterBounded
--------------------------------------------------------------------------------
(* Types. *)

LEMMA Elements ==
  ASSUME NEW S, NEW f \in Seq(S)
  PROVE  Len(f) \in Nat /\ DOMAIN f = 1 .. Len(f) /\ \A i \in 1 .. Len(f) : f[i] \in S
<1>1. \A i \in 1 .. Len(f) : f[i] \in S
  BY ElementOfSeq
<1> QED
  BY <1>1

LEMMA ActiveType ==
  ASSUME TypeOK, NEW c \in Clients
  PROVE  Active(c) \in Seq(0 .. Window) /\ Len(Active(c)) <= Len(failures[c])
<1> DEFINE f == failures[c]
           gone == {i \in DOMAIN f : f[i] = 0}
<1>1. f \in Seq(0 .. Window) /\ Len(f) \in Nat /\ DOMAIN f = 1 .. Len(f)
  BY DEF TypeOK
<1>2. gone \in SUBSET (1 .. Len(f))
  BY <1>1
<1>3. IsFiniteSet(1 .. Len(f)) /\ Cardinality(1 .. Len(f)) = Len(f)
  BY <1>1, FS_Interval
<1>4. Cardinality(gone) \in Nat /\ Cardinality(gone) <= Len(f)
  BY <1>1, <1>2, <1>3, FS_Subset, FS_CardinalityType
<1>5. Active(c) = SubSeq(f, Cardinality(gone) + 1, Len(f))
  BY DEF Active, Expired
<1> DEFINE n == Cardinality(gone)
<1> HIDE DEF f, n
<1>6. SubSeq(f, n + 1, Len(f)) \in Seq(0 .. Window) /\ Len(SubSeq(f, n + 1, Len(f))) = Len(f) - n
  <2>1. \A i \in n + 1 .. Len(f) : f[i] \in 0 .. Window
    <3>1. \A i \in 1 .. Len(f) : f[i] \in 0 .. Window
      BY <1>1, Elements
    <3> QED
      BY <1>1, <1>4, <3>1 DEF n
  <2>2. n + 1 \in Int /\ Len(f) \in Int
    BY <1>1, <1>4 DEF n
  <2> QED
    BY <1>1, <1>4, <2>1, <2>2, SubSeqProperties DEF n
<1> QED
  BY <1>1, <1>4, <1>5, <1>6 DEF f, n

LEMMA Records ==
  /\ NoRequest \in RequestStates
  /\ \A q \in RequestStates, step \in Steps : [q EXCEPT !.at = step] \in RequestStates
  /\ \A q \in RequestStates, step \in Steps, n \in Nat :
        [q EXCEPT !.at = step, !.seen = n] \in RequestStates
  /\ \A row \in Rows : [row EXCEPT !.state = "ended"] \in Rows
<1>1. NoRequest \in RequestStates
  BY DEF RequestStates, NoRequest, Steps, Operations
<1>2. \A row \in Rows : [row EXCEPT !.state = "ended"] \in Rows
  BY DEF Rows
<1>3. \A q \in RequestStates, step \in Steps : [q EXCEPT !.at = step] \in RequestStates
  BY DEF RequestStates
<1>4. \A q \in RequestStates, step \in Steps, n \in Nat :
        [q EXCEPT !.at = step, !.seen = n] \in RequestStates
  BY DEF RequestStates
<1> QED
  BY <1>1, <1>2, <1>3, <1>4

LEMMA GoesTo ==
  ASSUME TypeOK, NEW r \in Requests, NEW step \in Steps, Goes(r, step)
  PROVE  /\ request' \in [Requests -> RequestStates]
         /\ request'[r] = [request[r] EXCEPT !.at = step]
         /\ \A q \in Requests \ {r} : request'[q] = request[q]
BY Records DEF TypeOK, Goes

LEMMA EndsAs ==
  ASSUME TypeOK, NEW r \in Requests, Ends(r)
  PROVE  /\ request' \in [Requests -> RequestStates]
         /\ request'[r] = NoRequest
         /\ \A q \in Requests \ {r} : request'[q] = request[q]
BY Records DEF TypeOK, Ends

LEMMA ArrivesAs ==
  ASSUME TypeOK, NEW r \in Requests, NEW op \in Operations, NEW c \in Clients \cup {NoOne},
         NEW s \in Sessions \cup {NoOne}, NEW p \in Nat, Arrives(r, op, c, s, p)
  PROVE  /\ request' \in [Requests -> RequestStates]
         /\ \A q \in Requests \ {r} : request'[q] = request[q]
         /\ request'[r].op = op /\ request'[r].at = "arrived" /\ request'[r].client = c
         /\ request'[r].session = s /\ request'[r].password = p
         /\ request'[r].late => s # NoOne /\ (session[s].state = "ended" \/ session[s].password # password)
<1> DEFINE late == s # NoOne /\ (session[s].state = "ended" \/ session[s].password # password)
           new == [op |-> op, at |-> "arrived", client |-> c, session |-> s, password |-> p,
                   seen |-> 0, late |-> late]
<1>1. request' = [request EXCEPT ![r] = new]
  BY DEF Arrives
<1>2. late \in BOOLEAN
  OBVIOUS
<1>3. new \in RequestStates /\ new.op = op /\ new.at = "arrived" /\ new.client = c
      /\ new.session = s /\ new.password = p /\ new.late = late
  BY <1>2 DEF RequestStates, Steps
<1> HIDE DEF new, late
<1>4. request'[r] = new
  BY <1>1 DEF TypeOK
<1>5. request'[r].late => late
  BY <1>3, <1>4
<1>6. /\ request' \in [Requests -> RequestStates]
      /\ \A q \in Requests \ {r} : request'[q] = request[q]
  BY <1>1, <1>3 DEF TypeOK
<1> QED
  BY <1>3, <1>4, <1>5, <1>6 DEF late

LEMMA LimiterType ==
  ASSUME TypeOK, NEW c \in Clients, Look(c) \/ Record(c) \/ Clear(c)
  PROVE  /\ failures' \in [Clients -> Seq(0 .. Window)] /\ older' \in SUBSET (Clients \X Clients)
         /\ \A d \in Clients \ {c} : Len(failures'[d]) <= Len(failures[d])
         /\ Look(c) => failures'[c] = Active(c)
         /\ Look(c) \/ Clear(c) => Len(failures'[c]) <= Len(failures[c])
         /\ Len(failures'[c]) <= Len(Active(c)) + 1
<1> USE ActiveType, WebAuthAssumption
<1>1. Without(c) \in SUBSET (Clients \X Clients) /\ AtEnd(c) \in SUBSET (Clients \X Clients)
  BY DEF Without, AtEnd, Entries, TypeOK
<1>2. Window \in 0 .. Window /\ <<>> \in Seq(0 .. Window) /\ Len(<<>>) = 0
      /\ Append(Active(c), Window) \in Seq(0 .. Window)
      /\ Len(Append(Active(c), Window)) = Len(Active(c)) + 1
      /\ Len(Active(c)) \in Nat
      /\ \A d \in Clients : failures[d] \in Seq(0 .. Window) /\ Len(failures[d]) \in Nat
  BY DEF TypeOK
<1>3. failures \in [Clients -> Seq(0 .. Window)]
  BY DEF TypeOK
<1>4. CASE Look(c)
  BY <1>1, <1>2, <1>3, <1>4 DEF Look
<1>5. CASE Clear(c)
  <2>1. failures' = [failures EXCEPT ![c] = <<>>] /\ older' = Without(c)
    BY <1>5 DEF Clear
  <2>2. failures'[c] = <<>> /\ \A d \in Clients \ {c} : failures'[d] = failures[d]
    BY <2>1, <1>3
  <2>3. failures' \in [Clients -> Seq(0 .. Window)]
    BY <2>1, <1>2, <1>3
  <2>4. Look(c) => failures'[c] = Active(c)
    BY <1>3 DEF Look
  <2> QED
    BY <2>1, <2>2, <2>3, <2>4, <1>1, <1>2
<1>6. CASE Record(c)
  <2> DEFINE recorded == [failures EXCEPT ![c] = Append(Active(c), Window)]
  <2>1. /\ recorded \in [Clients -> Seq(0 .. Window)]
        /\ recorded[c] = Append(Active(c), Window)
        /\ \A d \in Clients \ {c} : recorded[d] = failures[d]
    BY <1>2, <1>3
  <2>2. /\ \/ failures' = recorded
           \/ \E v \in Clients : failures' = [recorded EXCEPT ![v] = <<>>]
        /\ older' \in SUBSET (Clients \X Clients)
    BY <1>6, <1>1 DEF Record, Entries
  <2> HIDE DEF recorded
  <2>3. failures' \in [Clients -> Seq(0 .. Window)]
    BY <2>1, <2>2, <1>2
  <2>4. \A d \in Clients : failures'[d] = recorded[d] \/ failures'[d] = <<>>
    BY <2>1, <2>2
  <2>5. Look(c) => failures'[c] = Active(c) /\ Len(failures'[c]) <= Len(failures[c])
    BY <1>2, <1>3 DEF Look
  <2>6. Clear(c) => Len(failures'[c]) <= Len(failures[c])
    <3>1. Clear(c) => failures'[c] = <<>>
      BY <1>3 DEF Clear
    <3> QED
      BY <3>1, <1>2
  <2>7. Len(failures'[c]) <= Len(Active(c)) + 1
    BY <2>1, <2>4, <1>2
  <2>8. \A d \in Clients \ {c} : Len(failures'[d]) <= Len(failures[d])
    BY <2>1, <2>4, <1>2
  <2> QED
    BY <2>2, <2>3, <2>5, <2>6, <2>7, <2>8
<1> QED
  BY <1>4, <1>5, <1>6

LEMMA InitType == Init => TypeOK
<1> SUFFICES ASSUME Init PROVE TypeOK
  OBVIOUS
<1>1. [state |-> "none", password |-> 0] \in Rows
  BY DEF Rows
<1>2. session \in [Sessions -> Rows] /\ request \in [Requests -> RequestStates]
  BY <1>1, Records DEF Init
<1>3. failures \in [Clients -> Seq(0 .. Window)]
  BY EmptySeq DEF Init
<1> QED
  BY <1>2, <1>3 DEF Init, TypeOK

LEMMA StepType == ASSUME TypeOK, RequestsConsistent, [Next]_vars PROVE TypeOK'
<1> DEFINE Same == UNCHANGED <<database, locks, limiter>>
<1>1. ASSUME NEW r \in Requests, Ask(r) PROVE TypeOK'
  <2>1. CASE \E op \in {"setup", "reset"} : Choose(r, op)
    <3>1. PICK op \in {"setup", "reset"} : Choose(r, op)
      BY <2>1
    <3>2. chosen + 1 \in Nat /\ op \in Operations
      BY DEF TypeOK, Operations
    <3>3. request' \in [Requests -> RequestStates]
      BY <3>1, <3>2, ArrivesAs DEF Choose
    <3> QED
      BY <3>1, <3>2, <3>3 DEF Choose, Arrives, TypeOK, locks, limiter
  <2>2. CASE \E c \in Clients, p \in 0 .. MaxPasswords : AskLogin(r, c, p)
    <3>1. PICK c \in Clients, p \in 0 .. MaxPasswords : AskLogin(r, c, p)
      BY <2>2
    <3>2. p \in Nat /\ "login" \in Operations
      BY WebAuthAssumption DEF Operations
    <3>3. request' \in [Requests -> RequestStates]
      BY <3>1, <3>2, ArrivesAs DEF AskLogin
    <3> QED
      BY <3>1, <3>3 DEF AskLogin, Arrives, TypeOK, locks, limiter
  <2>3. CASE \E op \in {"use", "logout"}, s \in Sessions : AskWith(r, op, s)
    <3>1. PICK op \in {"use", "logout"}, s \in Sessions : AskWith(r, op, s)
      BY <2>3
    <3>2. op \in Operations
      BY DEF Operations
    <3>3. request' \in [Requests -> RequestStates]
      BY <3>1, <3>2, ArrivesAs DEF AskWith
    <3> QED
      BY <3>1, <3>3 DEF AskWith, Arrives, TypeOK, locks, limiter
  <2> QED
    BY <1>1, <2>1, <2>2, <2>3 DEF Ask
<1>2. ASSUME NEW r \in Requests, SetupCheck(r) \/ Resolve(r) \/ Touch(r) PROVE TypeOK'
  <2>1. request' \in [Requests -> RequestStates]
    BY <1>2, GoesTo, EndsAs DEF SetupCheck, Resolve, Touch, Steps
  <2> QED
    BY <1>2, <2>1 DEF SetupCheck, Resolve, Touch, TypeOK, database, locks, limiter
<1>3. ASSUME NEW r \in Requests, SetupInsert(r) PROVE TypeOK'
  <2>1. request' \in [Requests -> RequestStates] /\ request[r].password \in Nat
    BY <1>3, EndsAs DEF SetupInsert, TypeOK, RequestStates
  <2> QED
    BY <1>3, <2>1 DEF SetupInsert, TypeOK, locks, limiter
<1>4. ASSUME NEW r \in Requests, LoginCheck(r) \/ LoginClear(r) \/ LoginRefuse(r) PROVE TypeOK'
  <2>1. request' \in [Requests -> RequestStates]
    BY <1>4, GoesTo, EndsAs DEF LoginCheck, LoginClear, LoginRefuse, Steps
  <2>2. request[r].client \in Clients
    BY <1>4 DEF RequestsConsistent, Consistent, LoginCheck, LoginClear, LoginRefuse, At
  <2>3. /\ failures' \in [Clients -> Seq(0 .. Window)]
        /\ older' \in SUBSET (Clients \X Clients)
    BY <1>4, <2>2, LimiterType DEF LoginCheck, LoginClear, LoginRefuse
  <2> QED
    BY <1>4, <2>1, <2>3 DEF LoginCheck, LoginClear, LoginRefuse, Unlocked, TypeOK, database, locks
<1>5. ASSUME NEW r \in Requests, LoginRead(r) PROVE TypeOK'
  <2>1. request' \in [Requests -> RequestStates]
    <3>1. "verify" \in Steps /\ password \in Nat
      BY DEF Steps, TypeOK
    <3>2. CASE request' = [request EXCEPT ![r].at = "verify", ![r].seen = 0]
      BY <3>1, <3>2, Records DEF TypeOK
    <3>3. CASE request' = [request EXCEPT ![r].at = "verify", ![r].seen = password]
      BY <3>1, <3>3, Records DEF TypeOK
    <3> QED
      BY <1>5, <3>2, <3>3 DEF LoginRead
  <2> QED
    BY <1>5, <2>1 DEF LoginRead, TypeOK, database, limiter
<1>6. ASSUME NEW r \in Requests, NEW s \in Sessions, LoginOpen(r, s) PROVE TypeOK'
  <2>1. request' \in [Requests -> RequestStates]
    BY <1>6, GoesTo DEF LoginOpen, Steps
  <2>2. [state |-> "live", password |-> request[r].seen] \in Rows
    BY DEF TypeOK, RequestStates, Rows
  <2> QED
    BY <1>6, <2>1, <2>2 DEF LoginOpen, Unlocked, TypeOK, limiter
<1>7. ASSUME NEW r \in Requests, LogoutSession(r) \/ LogoutUser(r) PROVE TypeOK'
  <2>1. request' \in [Requests -> RequestStates]
    BY <1>7, GoesTo, EndsAs DEF LogoutSession, LogoutUser, Steps
  <2> QED
    BY <1>7, <2>1 DEF LogoutSession, LogoutUser, TypeOK, database, limiter
<1>8. ASSUME NEW r \in Requests, LogoutEnd(r) PROVE TypeOK'
  <2>1. request' \in [Requests -> RequestStates]
    BY <1>8, EndsAs DEF LogoutEnd
  <2>2. session' \in [Sessions -> Rows]
    <3>1. request[r].session \in Sessions
      BY <1>8 DEF LogoutEnd, At, RequestsConsistent, Consistent
    <3>2. [session[request[r].session] EXCEPT !.state = "ended"] \in Rows
      BY <3>1, Records DEF TypeOK
    <3>3. [session EXCEPT ![request[r].session].state = "ended"] \in [Sessions -> Rows]
      BY <3>2 DEF TypeOK
    <3> QED
      BY <1>8, <3>3 DEF LogoutEnd, TypeOK
  <2> QED
    BY <1>8, <2>1, <2>2 DEF LogoutEnd, TypeOK, limiter
<1>9. ASSUME NEW r \in Requests, ResetUser(r) PROVE TypeOK'
  <2>1. request' \in [Requests -> RequestStates]
    BY <1>9, GoesTo, EndsAs DEF ResetUser, Steps
  <2> QED
    BY <1>9, <2>1 DEF ResetUser, TypeOK, database, limiter
<1>10. ASSUME NEW r \in Requests, NEW s \in Sessions, ResetSession(r, s) PROVE TypeOK'
  BY <1>10 DEF ResetSession, TypeOK, database, limiter
<1>11. ASSUME NEW r \in Requests, ResetCommit(r) PROVE TypeOK'
  <2>1. request' \in [Requests -> RequestStates] /\ request[r].password \in Nat
    BY <1>11, EndsAs DEF ResetCommit, TypeOK, RequestStates
  <2>2. session' \in [Sessions -> Rows]
    BY <1>11, Records DEF ResetCommit, TypeOK
  <2>3. sessionLock' \in [Sessions -> Requests \cup {NoOne}]
    BY <1>11 DEF ResetCommit, Released, TypeOK
  <2> QED
    BY <1>11, <2>1, <2>2, <2>3 DEF ResetCommit, TypeOK, limiter
<1>12. ASSUME NEW r \in Requests, Abort(r) PROVE TypeOK'
  <2>1. request' \in [Requests -> RequestStates]
    BY <1>12, EndsAs DEF Abort
  <2> QED
    BY <1>12, <2>1 DEF Abort, Released, Unlocked, TypeOK, database, limiter
<1>13. ASSUME NEW s \in Sessions, Expire(s) PROVE TypeOK'
  <2>1. session' \in [Sessions -> Rows]
    BY <1>13, Records DEF Expire, TypeOK
  <2> QED
    BY <1>13, <2>1 DEF Expire, TypeOK, locks, limiter
<1>14. ASSUME Tick PROVE TypeOK'
  <2>1. ASSUME NEW c \in Clients
        PROVE  [i \in DOMAIN failures[c] |-> IF failures[c][i] = 0 THEN 0 ELSE failures[c][i] - 1]
                 \in Seq(0 .. Window)
    <3> DEFINE f == failures[c]
    <3>1. f \in Seq(0 .. Window)
      BY DEF TypeOK
    <3> HIDE DEF f
    <3>2. Len(f) \in Nat /\ DOMAIN f = 1 .. Len(f) /\ \A i \in DOMAIN f : f[i] \in 0 .. Window
      BY <3>1, Elements
    <3>3. \A i \in DOMAIN f : (IF f[i] = 0 THEN 0 ELSE f[i] - 1) \in 0 .. Window
      BY <3>2, WebAuthAssumption
    <3>4. [i \in 1 .. Len(f) |-> IF f[i] = 0 THEN 0 ELSE f[i] - 1] \in Seq(0 .. Window)
      BY <3>2, <3>3
    <3> QED
      BY <3>2, <3>4 DEF f
  <2>2. failures' \in [Clients -> Seq(0 .. Window)]
    BY <1>14, <2>1 DEF Tick
  <2> QED
    BY <1>14, <2>2 DEF Tick, TypeOK, database, locks
<1>15. ASSUME Restart PROVE TypeOK'
  <2>1. request' \in [Requests -> RequestStates]
    BY <1>15, Records DEF Restart, TypeOK
  <2>2. userLock' \in Requests \cup {NoOne} /\ sessionLock' \in [Sessions -> Requests \cup {NoOne}]
    BY <1>15 DEF Restart, TypeOK
  <2>3. failures' \in [Clients -> Seq(0 .. Window)] /\ older' \in SUBSET (Clients \X Clients)
    BY <1>15, EmptySeq DEF Restart
  <2> QED
    BY <1>15, <2>1, <2>2, <2>3 DEF Restart, TypeOK, database
<1>16. CASE UNCHANGED vars
  BY <1>16 DEF vars, TypeOK
<1> QED
  BY <1>1, <1>2, <1>3, <1>4, <1>5, <1>6, <1>7, <1>8, <1>9, <1>10, <1>11, <1>12, <1>13, <1>14, <1>15,
     <1>16 DEF Next, Step, Deadlock
--------------------------------------------------------------------------------
(* The account and its sessions. *)

\* What no step undoes: a session that exists goes on existing, and does not come back to life.
Forward ==
  \A s \in Sessions : session[s].state # "none" => session'[s].state # "none" /\ (Live(s)' => Live(s))

\* A request that a step of another leaves alone stays consistent.
LEMMA Others ==
  ASSUME TypeOK, NEW q \in Requests, Consistent(q), request'[q] = request[q], Forward,
         userLock = q => userLock' = q /\ password' = password
  PROVE  Consistent(q)'
<1>1. request[q].session # NoOne => request[q].session \in Sessions
  BY DEF TypeOK, RequestStates
<1> QED
  BY <1>1 DEF Consistent, At, Forward, Live

LEMMA EndedConsistent ==
  ASSUME NEW r \in Requests, request'[r] = NoRequest
  PROVE  Consistent(r)'
BY DEF Consistent, At, NoRequest

\* A step that changes one request, no session and not the password.
LEMMA OneRequest ==
  ASSUME TypeOK, Account, NEW r \in Requests,
         \A q \in Requests \ {r} : request'[q] = request[q],
         UNCHANGED <<password, setups, session>>,
         \A q \in Requests \ {r} : userLock = q => userLock' = q,
         Consistent(r)'
  PROVE  Account'
<1>1. Forward
  BY DEF Forward, Live
<1>2. \A q \in Requests \ {r} : Consistent(q)'
  BY <1>1, Others DEF Account, RequestsConsistent
<1> QED
  BY <1>2 DEF Account, RequestsConsistent, SessionsOpened, OneAdministrator, Live

\* A step that ends a request, and changes neither sessions nor password.
LEMMA EndStep ==
  ASSUME TypeOK, Account, NEW r \in Requests, Ends(r), UNCHANGED <<password, setups, session>>,
         userLock' = userLock \/ Unlocked(r) \/ userLock = r
  PROVE  Account'
<1>1. /\ \A q \in Requests \ {r} : request'[q] = request[q]
      /\ request'[r] = NoRequest
  BY EndsAs
<1>2. \A q \in Requests \ {r} : userLock = q => userLock' = q
  BY DEF Unlocked
<1> QED
  BY <1>1, <1>2, EndedConsistent, OneRequest

\* A step that moves a request on, and changes neither sessions nor password.
LEMMA GoStep ==
  ASSUME TypeOK, Account, NEW r \in Requests, NEW step \in Steps \ {"verify"}, Goes(r, step),
         UNCHANGED <<password, setups, session>>,
         userLock' = userLock \/ (userLock = NoOne /\ userLock' = r),
         step = "resolved" => request[r].op = "use" /\ ~request[r].late,
         step = "user" => userLock' = r /\ password # 0,
         step = "both" => userLock' = r
  PROVE  Account'
<1>1. /\ \A q \in Requests \ {r} : request'[q] = request[q]
      /\ request'[r] = [request[r] EXCEPT !.at = step]
  BY GoesTo
<1>2. /\ request'[r].op = request[r].op /\ request'[r].at = step
      /\ request'[r].client = request[r].client /\ request'[r].session = request[r].session
      /\ request'[r].password = request[r].password /\ request'[r].seen = request[r].seen
      /\ request'[r].late = request[r].late
  BY <1>1 DEF TypeOK, RequestStates
<1>3. Consistent(r)'
  BY <1>2 DEF Account, RequestsConsistent, Consistent, At, Live
<1>4. \A q \in Requests \ {r} : userLock = q => userLock' = q
  BY WebAuthAssumption
<1> QED
  BY <1>1, <1>3, <1>4, OneRequest

LEMMA StepAccount == ASSUME TypeOK, Account, [Next]_vars PROVE Account'
<1>0. {"insert", "allowed", "resolved", "session", "both", "user"} \subseteq Steps \ {"verify"}
  BY DEF Steps
<1>1. ASSUME NEW r \in Requests, Ask(r) PROVE Account'
  <2>1. CASE \E op \in {"setup", "reset"} : Choose(r, op)
    <3>1. PICK op \in {"setup", "reset"} : Choose(r, op)
      BY <2>1
    <3>2. chosen + 1 \in Nat /\ chosen + 1 # 0 /\ op \in Operations
      BY DEF TypeOK, Operations
    <3>3. /\ \A q \in Requests \ {r} : request'[q] = request[q]
          /\ request'[r].op = op /\ request'[r].at = "arrived" /\ request'[r].session = NoOne
          /\ request'[r].password = chosen + 1
      BY <3>1, <3>2, ArrivesAs DEF Choose
    <3>4. Consistent(r)'
      BY <3>2, <3>3 DEF Account, RequestsConsistent, At, Consistent, At
    <3> QED
      BY <3>1, <3>3, <3>4, OneRequest DEF Choose, Arrives, locks
  <2>2. CASE \E c \in Clients, p \in 0 .. MaxPasswords : AskLogin(r, c, p)
    <3>1. PICK c \in Clients, p \in 0 .. MaxPasswords : AskLogin(r, c, p)
      BY <2>2
    <3>2. p \in Nat /\ "login" \in Operations
      BY WebAuthAssumption DEF Operations
    <3>3. /\ \A q \in Requests \ {r} : request'[q] = request[q]
          /\ request'[r].op = "login" /\ request'[r].at = "arrived" /\ request'[r].session = NoOne
          /\ request'[r].client = c
      BY <3>1, <3>2, ArrivesAs DEF AskLogin
    <3>4. Consistent(r)'
      BY <3>3 DEF Account, RequestsConsistent, At, Consistent, At
    <3> QED
      BY <3>1, <3>3, <3>4, OneRequest DEF AskLogin, Arrives, locks
  <2>3. CASE \E op \in {"use", "logout"}, s \in Sessions : AskWith(r, op, s)
    <3>1. PICK op \in {"use", "logout"}, s \in Sessions : AskWith(r, op, s)
      BY <2>3
    <3>2. op \in Operations
      BY DEF Operations
    <3>3. /\ \A q \in Requests \ {r} : request'[q] = request[q]
          /\ request'[r].op = op /\ request'[r].at = "arrived" /\ request'[r].session = s
          /\ request'[r].late => session[s].state = "ended" \/ session[s].password # password
      BY <3>1, <3>2, ArrivesAs DEF AskWith
    <3>4. session' = session /\ session[s].state # "none"
      BY <3>1 DEF AskWith, Arrives
    <3>5. request'[r].late => ~Live(s)
      BY <3>3 DEF Account, RequestsConsistent, At, Live, SessionsOpened
    <3>6. Consistent(r)'
      BY <3>3, <3>4, <3>5 DEF Account, RequestsConsistent, At, Consistent, At, Live
    <3> QED
      BY <3>1, <3>3, <3>6, OneRequest DEF AskWith, Arrives, locks
  <2> QED
    BY <1>1, <2>1, <2>2, <2>3 DEF Ask
<1>4. ASSUME NEW r \in Requests, SetupCheck(r) \/ LoginCheck(r) \/ LoginClear(r) \/ Touch(r)
                                 \/ LoginRefuse(r)
      PROVE  Account'
  <2>1. UNCHANGED <<password, setups, session>> /\ (userLock' = userLock \/ Unlocked(r))
    BY <1>4 DEF SetupCheck, LoginCheck, LoginClear, Touch, LoginRefuse, database, locks
  <2>2. CASE Ends(r)
    BY EndStep, <2>1, <2>2
  <2>3. CASE Goes(r, "insert") /\ SetupCheck(r)
    BY <1>0, GoStep, <2>1, <2>3 DEF SetupCheck, locks
  <2>4. CASE Goes(r, "allowed") /\ LoginCheck(r)
    BY <1>0, GoStep, <2>1, <2>4 DEF LoginCheck, locks
  <2> QED
    BY <1>4, <2>2, <2>3, <2>4 DEF SetupCheck, LoginCheck, LoginClear, Touch, LoginRefuse
<1>5. ASSUME NEW r \in Requests, Resolve(r) PROVE Account'
  <2> UNCHANGED <<password, setups, session, userLock>>
    BY <1>5 DEF Resolve, database, locks
  <2>1. CASE Ends(r)
    BY EndStep, <2>1
  <2>2. CASE Live(request[r].session) /\ Goes(r, "resolved")
    <3>1. request[r].op = "use" /\ request[r].session \in Sessions
      BY <1>5 DEF Account, RequestsConsistent, At, Resolve, Consistent
    <3>2. ~request[r].late
      BY <2>2, <3>1, WebAuthAssumption DEF Account, RequestsConsistent, At, Consistent
    <3> QED
      BY <1>0, GoStep, <2>2, <3>1, <3>2
  <2> QED
    BY <1>5, <2>1, <2>2 DEF Resolve
<1>6. ASSUME NEW r \in Requests, LogoutSession(r) PROVE Account'
  <2> UNCHANGED <<password, setups, session, userLock>>
    BY <1>6 DEF LogoutSession, database
  <2>1. CASE Ends(r)
    BY EndStep, <2>1
  <2>2. CASE Goes(r, "session")
    BY <1>0, GoStep, <2>2
  <2> QED
    BY <1>6, <2>1, <2>2 DEF LogoutSession
<1>7. ASSUME NEW r \in Requests, LogoutUser(r) \/ ResetUser(r) PROVE Account'
  <2> UNCHANGED <<password, setups, session>>
    BY <1>7 DEF LogoutUser, ResetUser, database
  <2>1. CASE Ends(r) /\ UNCHANGED userLock
    BY EndStep, <2>1
  <2>2. CASE Goes(r, "user") /\ userLock = NoOne /\ userLock' = r /\ password # 0
    BY <1>0, GoStep, <2>2
  <2>3. CASE Goes(r, "both") /\ userLock = NoOne /\ userLock' = r
    BY <1>0, GoStep, <2>3
  <2> QED
    BY <1>7, <2>1, <2>2, <2>3 DEF LogoutUser, ResetUser, Free
<1>8. ASSUME NEW r \in Requests, NEW s \in Sessions, ResetSession(r, s) PROVE Account'
  <2>1. UNCHANGED <<password, setups, session, userLock, request>>
    BY <1>8 DEF ResetSession, database
  <2> QED
    BY <2>1 DEF Account, RequestsConsistent, At, Consistent, SessionsOpened, OneAdministrator, Live
<1>9. ASSUME NEW r \in Requests, Abort(r) PROVE Account'
  BY EndStep, <1>9 DEF Abort, database
<1>10. ASSUME NEW r \in Requests, SetupInsert(r) PROVE Account'
  <2>1. CASE password # 0
    BY EndStep, <1>10, <2>1 DEF SetupInsert, locks
  <2>2. CASE password = 0
    <3>1. /\ \A q \in Requests \ {r} : request'[q] = request[q]
          /\ request'[r] = NoRequest
      BY <1>10, EndsAs DEF SetupInsert
    <3>2. request[r].password # 0 /\ password' = request[r].password /\ setups' = setups + 1
          /\ UNCHANGED <<session, userLock>>
      BY <1>10, <2>2 DEF Account, RequestsConsistent, At, SetupInsert, Consistent, locks
    <3>3. \A s \in Sessions : ~Live(s)
      BY <2>2 DEF Account, RequestsConsistent, At, SessionsOpened
    <3>4. ASSUME NEW q \in Requests \ {r} PROVE Consistent(q)'
      <4>1. request[q].session # NoOne => request[q].session \in Sessions
        BY DEF TypeOK, RequestStates
      <4>2. ~(At(q, "login", "verify") /\ request[q].seen # 0) /\ ~At(q, "reset", "user")
        BY <2>2 DEF Account, RequestsConsistent, At, Consistent
      <4> QED
        BY <3>1, <3>2, <4>1, <4>2 DEF Account, RequestsConsistent, At, Consistent, Live
    <3>5. Consistent(r)'
      BY <3>1, EndedConsistent
    <3> QED
      BY <2>2, <3>2, <3>3, <3>4, <3>5 DEF Account, RequestsConsistent, At, SessionsOpened, OneAdministrator, Live
  <2> QED
    BY <2>1, <2>2
<1>11. ASSUME NEW r \in Requests, LoginRead(r) PROVE Account'
  <2>1. PICK seen \in Nat :
          /\ request' = [request EXCEPT ![r].at = "verify", ![r].seen = seen]
          /\ \/ seen = 0 /\ UNCHANGED userLock
             \/ seen = password /\ Free(userLock) /\ userLock' = r
    BY <1>11 DEF LoginRead, TypeOK
  <2>2. /\ \A q \in Requests \ {r} : request'[q] = request[q]
        /\ request'[r] = [request[r] EXCEPT !.at = "verify", !.seen = seen]
    BY <2>1 DEF TypeOK
  <2>3. /\ request'[r].op = request[r].op /\ request'[r].at = "verify"
        /\ request'[r].client = request[r].client /\ request'[r].session = request[r].session
        /\ request'[r].seen = seen /\ request'[r].late = request[r].late
    BY <2>2 DEF TypeOK, RequestStates
  <2>4. UNCHANGED <<password, setups, session>> /\ request[r].op = "login"
    BY <1>11 DEF LoginRead, database, At
  <2>5. Consistent(r)'
    BY <2>1, <2>3, <2>4 DEF Account, RequestsConsistent, At, Consistent, Live
  <2> QED
    BY <2>1, <2>2, <2>4, <2>5, OneRequest, WebAuthAssumption DEF Free
<1>12. ASSUME NEW r \in Requests, NEW s \in Sessions, LoginOpen(r, s) PROVE Account'
  <2>1. /\ \A q \in Requests \ {r} : request'[q] = request[q]
        /\ request'[r] = [request[r] EXCEPT !.at = "clear"]
    BY <1>12, GoesTo DEF LoginOpen, Steps
  <2>2. /\ request'[r].op = "login" /\ request'[r].at = "clear"
        /\ request'[r].client = request[r].client /\ request'[r].session = request[r].session
        /\ request'[r].late = request[r].late
    BY <1>12, <2>1 DEF TypeOK, RequestStates, LoginOpen, At
  <2>3. request[r].seen # 0 /\ request[r].seen = password /\ session[s].state = "none"
    BY <1>12 DEF Account, RequestsConsistent, At, LoginOpen, Verified, Consistent
  <2>4. /\ session'[s].state = "live" /\ session'[s].password = password
        /\ \A t \in Sessions \ {s} : session'[t] = session[t]
        /\ UNCHANGED <<password, setups>>
    BY <1>12, <2>3 DEF LoginOpen, TypeOK
  <2>5. Forward
    BY <2>3, <2>4 DEF Forward, Live
  <2>6. ASSUME NEW q \in Requests \ {r} PROVE Consistent(q)'
    <3>1. userLock = q => userLock' = q
      BY <1>12 DEF LoginOpen, Unlocked
    <3> QED
      BY <2>1, <2>4, <2>5, <3>1, Others DEF Account, RequestsConsistent
  <2>7. Consistent(r)'
    <3>1. request[r].session # NoOne => request[r].session \in Sessions
      BY DEF TypeOK, RequestStates
    <3>2. Consistent(r) /\ request[r].op = "login"
      BY <1>12 DEF LoginOpen, At, Account, RequestsConsistent
    <3> QED
      BY <2>2, <2>5, <3>1, <3>2 DEF At, Consistent, Forward, Live
  <2> QED
    BY <2>3, <2>4, <2>6, <2>7 DEF Account, RequestsConsistent, At, SessionsOpened, OneAdministrator, Live
<1>13. ASSUME NEW r \in Requests, LogoutEnd(r) PROVE Account'
  <2>1. /\ \A q \in Requests \ {r} : request'[q] = request[q]
        /\ request'[r] = NoRequest
    BY <1>13, EndsAs DEF LogoutEnd
  <2>2. userLock = r /\ UNCHANGED <<password, setups>>
    BY <1>13 DEF Account, RequestsConsistent, At, LogoutEnd, Consistent
  <2>3. \A t \in Sessions : \/ session'[t] = session[t]
                            \/ session'[t] = [session[t] EXCEPT !.state = "ended"]
    BY <1>13 DEF LogoutEnd, TypeOK
  <2>4. \A t \in Sessions : session'[t] = session[t] \/ session'[t].state = "ended"
    BY <2>3 DEF TypeOK, Rows
  <2>5. Forward
    BY <2>4 DEF Forward, Live
  <2>6. \A q \in Requests \ {r} : Consistent(q)'
    BY <2>1, <2>2, <2>5, Others DEF Account, RequestsConsistent
  <2> QED
    BY <2>1, <2>2, <2>4, <2>6, EndedConsistent DEF Account, RequestsConsistent, At, SessionsOpened, OneAdministrator, Live
<1>14. ASSUME NEW r \in Requests, ResetCommit(r) PROVE Account'
  <2>1. /\ \A q \in Requests \ {r} : request'[q] = request[q]
        /\ request'[r] = NoRequest
    BY <1>14, EndsAs DEF ResetCommit
  <2>2. userLock = r /\ password # 0 /\ password' = request[r].password /\ password' # 0
        /\ UNCHANGED setups
    BY <1>14 DEF Account, RequestsConsistent, At, ResetCommit, Consistent
  <2>3. \A t \in Sessions : session'[t] = IF Live(t) THEN [session[t] EXCEPT !.state = "ended"] ELSE session[t]
    BY <1>14 DEF ResetCommit
  <2>4. \A t \in Sessions : ~Live(t)' /\ (session[t].state # "none" => session'[t].state # "none")
    BY <2>3 DEF TypeOK, Rows, Live
  <2>5. Forward
    BY <2>4 DEF Forward
  <2>6. \A q \in Requests \ {r} : Consistent(q)'
    BY <2>1, <2>2, <2>5, Others DEF Account, RequestsConsistent
  <2> QED
    BY <2>1, <2>2, <2>4, <2>6, EndedConsistent DEF Account, RequestsConsistent, At, SessionsOpened, OneAdministrator
<1>15. ASSUME NEW s \in Sessions, Expire(s) PROVE Account'
  <2>1. \A t \in Sessions : \/ session'[t] = session[t]
                            \/ session'[t] = [session[t] EXCEPT !.state = "ended"]
    BY <1>15 DEF Expire, TypeOK
  <2>2. \A t \in Sessions : session'[t] = session[t] \/ session'[t].state = "ended"
    BY <2>1 DEF TypeOK, Rows
  <2>3. Forward /\ UNCHANGED <<password, setups, userLock, request>>
    BY <1>15, <2>2 DEF Forward, Live, Expire, locks
  <2>4. \A q \in Requests : Consistent(q)'
    BY <2>3, Others DEF Account, RequestsConsistent
  <2> QED
    BY <2>2, <2>3, <2>4 DEF Account, RequestsConsistent, At, SessionsOpened, OneAdministrator, Live
<1>16. ASSUME Restart PROVE Account'
  <2>1. UNCHANGED <<password, setups, session>> /\ Forward
    BY <1>16 DEF Restart, database, Forward, Live
  <2>2. ASSUME NEW q \in Requests PROVE Consistent(q)'
    <3>1. CASE request[q].op = "reset"
      <4>1. request'[q] = request[q] /\ (userLock = q => userLock' = q)
        BY <1>16, <3>1 DEF Restart
      <4> QED
        BY <2>1, <4>1, Others DEF Account, RequestsConsistent
    <3>2. CASE request[q].op # "reset"
      BY <1>16, <3>2, EndedConsistent DEF Restart
    <3> QED
      BY <3>1, <3>2
  <2> QED
    BY <2>1, <2>2 DEF Account, RequestsConsistent, At, SessionsOpened, OneAdministrator, Live
<1>17. CASE Tick \/ UNCHANGED vars
  <2>1. UNCHANGED <<password, setups, session, userLock, request>>
    BY <1>17 DEF Tick, vars, database, locks
  <2> QED
    BY <2>1 DEF Account, RequestsConsistent, At, Consistent, SessionsOpened, OneAdministrator, Live
<1> QED
  BY <1>1, <1>4, <1>5, <1>6, <1>7, <1>8, <1>9, <1>10, <1>11, <1>12, <1>13, <1>14, <1>15, <1>16, <1>17
     DEF Next, Step, Deadlock
--------------------------------------------------------------------------------
(* The limiter. *)

LEMMA CheckedFinite ==
  ASSUME NEW c \in Clients
  PROVE  /\ IsFiniteSet(Checked(c)) /\ IsFiniteSet(Checked(c)')
         /\ Cardinality(Checked(c)) \in Nat /\ Cardinality(Checked(c)') \in Nat
         /\ Cardinality(Requests) \in Nat
         /\ Cardinality(Checked(c)') <= Cardinality(Requests)
         /\ Checked(c)' \subseteq Checked(c) => Cardinality(Checked(c)') <= Cardinality(Checked(c))
<1>1. Checked(c) \in SUBSET Requests /\ Checked(c)' \in SUBSET Requests /\ IsFiniteSet(Requests)
  BY WebAuthAssumption DEF Checked
<1> HIDE DEF Checked
<1> QED
  BY <1>1, FS_Subset, FS_CardinalityType

\* A step after which a client has no more failures and no more attempts in hand.
LEMMA NoMore ==
  ASSUME TypeOK, TypeOK', LimiterBounded, NEW c \in Clients,
         Len(failures'[c]) <= Len(failures[c]), Checked(c)' \subseteq Checked(c)
  PROVE  Len(failures'[c]) + Cardinality(Checked(c)') < MaxAttempts + Cardinality(Requests)
<1>1. Len(failures[c]) + Cardinality(Checked(c)) < MaxAttempts + Cardinality(Requests)
  BY DEF LimiterBounded
<1>2. Len(failures[c]) \in Nat /\ Len(failures'[c]) \in Nat
  BY EmptySeq DEF TypeOK
<1> QED
  BY <1>1, <1>2, CheckedFinite, WebAuthAssumption

LEMMA StepLimiter ==
  ASSUME TypeOK, TypeOK', RequestsConsistent, LimiterBounded, [Next]_vars
  PROVE  LimiterBounded'
<1> SUFFICES ASSUME NEW c \in Clients
             PROVE  Len(failures'[c]) + Cardinality(Checked(c)') < MaxAttempts + Cardinality(Requests)
  BY DEF LimiterBounded
<1>1. ASSUME NEW r \in Requests, Ends(r), UNCHANGED failures
      PROVE  Checked(c)' \subseteq Checked(c) /\ Len(failures'[c]) <= Len(failures[c])
  <2>1. Len(failures[c]) \in Nat
    BY DEF TypeOK
  <2> QED
    BY <1>1, <2>1, EndsAs DEF Checked, NoRequest
<1>2. ASSUME NEW r \in Requests, NEW step \in Steps \ {"allowed", "verify"}, Goes(r, step), UNCHANGED failures
      PROVE  Checked(c)' \subseteq Checked(c) /\ Len(failures'[c]) <= Len(failures[c])
  <2>1. Len(failures[c]) \in Nat
    BY DEF TypeOK
  <2>2. /\ \A q \in Requests \ {r} : request'[q] = request[q]
        /\ request'[r] = [request[r] EXCEPT !.at = step]
    BY <1>2, GoesTo
  <2>3. request'[r].at = step
    BY <2>2 DEF TypeOK, RequestStates
  <2>4. Checked(c)' \subseteq Checked(c)
    BY <2>2, <2>3 DEF Checked
  <2> QED
    BY <1>2, <2>1, <2>4
<1>3. {"insert", "resolved", "session", "both", "user", "clear"} \subseteq Steps \ {"allowed", "verify"}
  BY DEF Steps
\* Requests that come, and steps of the other operations.
<1>4. ASSUME NEW r \in Requests, NEW op \in Operations, NEW d \in Clients \cup {NoOne},
             NEW s \in Sessions \cup {NoOne}, NEW p \in Nat, Arrives(r, op, d, s, p)
      PROVE  Checked(c)' \subseteq Checked(c) /\ Len(failures'[c]) <= Len(failures[c])
  <2>1. Len(failures[c]) \in Nat /\ failures' = failures
    BY <1>4 DEF TypeOK, Arrives, limiter
  <2>2. /\ \A q \in Requests \ {r} : request'[q] = request[q]
        /\ request'[r].at = "arrived"
    BY <1>4, ArrivesAs
  <2> QED
    BY <2>1, <2>2 DEF Checked
<1>5. ASSUME NEW r \in Requests, Ask(r)
      PROVE  Checked(c)' \subseteq Checked(c) /\ Len(failures'[c]) <= Len(failures[c])
  <2>1. \E op \in Operations, d \in Clients \cup {NoOne}, s \in Sessions \cup {NoOne}, p \in Nat :
           Arrives(r, op, d, s, p)
    <3>1. chosen + 1 \in Nat /\ 0 \in Nat /\ 0 .. MaxPasswords \subseteq Nat
          /\ {"setup", "reset", "login", "use", "logout"} \subseteq Operations
      BY WebAuthAssumption DEF TypeOK, Operations
    <3>2. CASE \E op \in {"setup", "reset"} : Choose(r, op)
      BY <3>1, <3>2 DEF Choose
    <3>3. CASE \E d \in Clients, p \in 0 .. MaxPasswords : AskLogin(r, d, p)
      BY <3>1, <3>3 DEF AskLogin
    <3>4. CASE \E op \in {"use", "logout"}, s \in Sessions : AskWith(r, op, s)
      BY <3>1, <3>4 DEF AskWith
    <3> QED
      BY <1>5, <3>2, <3>3, <3>4 DEF Ask
  <2> QED
    BY <2>1, <1>4
<1>6. ASSUME NEW r \in Requests, SetupCheck(r) \/ SetupInsert(r) \/ Resolve(r) \/ Touch(r) \/ LogoutSession(r)
                \/ LogoutUser(r) \/ LogoutEnd(r) \/ ResetUser(r) \/ ResetCommit(r) \/ Abort(r)
      PROVE  Checked(c)' \subseteq Checked(c) /\ Len(failures'[c]) <= Len(failures[c])
  <2>1. UNCHANGED failures
    BY <1>6 DEF SetupCheck, SetupInsert, Resolve, Touch, LogoutSession, LogoutUser, LogoutEnd,
                ResetUser, ResetCommit, Abort, limiter
  <2>2. Ends(r) \/ \E step \in {"insert", "resolved", "session", "both", "user"} : Goes(r, step)
    BY <1>6 DEF SetupCheck, SetupInsert, Resolve, Touch, LogoutSession, LogoutUser, LogoutEnd,
                ResetUser, ResetCommit, Abort
  <2> QED
    BY <1>1, <1>2, <1>3, <2>1, <2>2
<1>7. ASSUME NEW r \in Requests, NEW s \in Sessions, LoginOpen(r, s)
      PROVE  Checked(c)' \subseteq Checked(c) /\ Len(failures'[c]) <= Len(failures[c])
  BY <1>2, <1>3, <1>7 DEF LoginOpen, limiter
\* Steps of a login.
<1>8. ASSUME NEW r \in Requests, LoginRead(r)
      PROVE  Checked(c)' \subseteq Checked(c) /\ Len(failures'[c]) <= Len(failures[c])
  <2>1. Len(failures[c]) \in Nat /\ failures' = failures
    BY <1>8 DEF TypeOK, LoginRead, limiter
  <2>2. PICK seen \in Nat : request' = [request EXCEPT ![r].at = "verify", ![r].seen = seen]
    BY <1>8 DEF LoginRead, TypeOK
  <2>3. /\ \A q \in Requests \ {r} : request'[q] = request[q]
        /\ request'[r] = [request[r] EXCEPT !.at = "verify", !.seen = seen]
    BY <2>2 DEF TypeOK
  <2>4. request'[r].client = request[r].client /\ request[r].at = "allowed"
    BY <1>8, <2>3 DEF TypeOK, RequestStates, LoginRead, At
  <2>5. Checked(c)' \subseteq Checked(c)
    BY <2>3, <2>4 DEF Checked
  <2> QED
    BY <2>1, <2>5
<1>9. ASSUME NEW r \in Requests, LoginClear(r)
      PROVE  Checked(c)' \subseteq Checked(c) /\ Len(failures'[c]) <= Len(failures[c])
  <2>1. request[r].client \in Clients /\ Clear(request[r].client) /\ Ends(r)
    BY <1>9 DEF LoginClear, At, RequestsConsistent, Consistent
  <2> QED
    BY <2>1, LimiterType, EndsAs DEF Checked, NoRequest
<1>10. ASSUME NEW r \in Requests, LoginCheck(r), Ends(r)
      PROVE  Checked(c)' \subseteq Checked(c) /\ Len(failures'[c]) <= Len(failures[c])
  <2>1. request[r].client \in Clients /\ Look(request[r].client)
    BY <1>10 DEF LoginCheck, At, RequestsConsistent, Consistent
  <2> QED
    BY <1>10, <2>1, LimiterType, EndsAs DEF Checked, NoRequest
<1>11. ASSUME NEW r \in Requests, LoginCheck(r), ~Ends(r)
      PROVE  Len(failures'[c]) + Cardinality(Checked(c)') < MaxAttempts + Cardinality(Requests)
  <2> DEFINE d == request[r].client
  <2>1. d \in Clients /\ Look(d) /\ Len(Active(d)) < MaxAttempts /\ Goes(r, "allowed")
    <3>1. d \in Clients /\ Look(d) /\ ~(Len(Active(d)) >= MaxAttempts) /\ Goes(r, "allowed")
      BY <1>11 DEF LoginCheck, At, RequestsConsistent, Consistent
    <3>2. Len(Active(d)) \in Nat
      BY <3>1, ActiveType
    <3> QED
      BY <3>1, <3>2, WebAuthAssumption
  <2>2. CASE c = d
    <3>1. Len(failures'[c]) < MaxAttempts /\ Len(failures'[c]) \in Nat
      BY <2>1, <2>2, LimiterType, ActiveType
    <3> QED
      BY <3>1, CheckedFinite, WebAuthAssumption
  <2>3. CASE c # d
    <3>1. Len(failures'[c]) <= Len(failures[c])
      BY <2>1, <2>3, LimiterType
    <3>2. /\ \A q \in Requests \ {r} : request'[q] = request[q]
          /\ request'[r] = [request[r] EXCEPT !.at = "allowed"]
      BY <2>1, GoesTo DEF Steps
    <3>3. request'[r].client = d
      BY <3>2 DEF TypeOK, RequestStates
    <3>4. Checked(c)' \subseteq Checked(c)
      BY <2>3, <3>2, <3>3 DEF Checked
    <3> QED
      BY <3>1, <3>4, NoMore
  <2> QED
    BY <2>2, <2>3
<1>12. ASSUME NEW r \in Requests, LoginRefuse(r)
      PROVE  Len(failures'[c]) + Cardinality(Checked(c)') < MaxAttempts + Cardinality(Requests)
  <2> DEFINE d == request[r].client
  <2>1. d \in Clients /\ Record(d) /\ Ends(r) /\ request[r].at = "verify"
    BY <1>12 DEF LoginRefuse, At, RequestsConsistent, Consistent
  <2>2. /\ request'[r] = NoRequest
        /\ \A q \in Requests \ {r} : request'[q] = request[q]
    BY <2>1, EndsAs
  <2>3. CASE c = d
    <3>1. Len(failures'[c]) <= Len(failures[c]) + 1
      <4>1. Len(failures'[c]) <= Len(Active(c)) + 1 /\ Len(Active(c)) <= Len(failures[c])
        BY <2>1, <2>3, LimiterType, ActiveType
      <4>2. Len(failures'[c]) \in Nat /\ Len(Active(c)) \in Nat /\ Len(failures[c]) \in Nat
        BY ActiveType DEF TypeOK
      <4> QED
        BY <4>1, <4>2
    <3>2. Checked(c)' = Checked(c) \ {r} /\ r \in Checked(c)
      BY <2>1, <2>2, <2>3, WebAuthAssumption DEF Checked, NoRequest
    <3>3. Cardinality(Checked(c)') = Cardinality(Checked(c)) - 1
      BY <3>2, CheckedFinite, FS_RemoveElement
    <3>4. Len(failures[c]) + Cardinality(Checked(c)) < MaxAttempts + Cardinality(Requests)
      BY DEF LimiterBounded
    <3>5. Len(failures[c]) \in Nat /\ Len(failures'[c]) \in Nat
      BY DEF TypeOK
    <3>6. Cardinality(Checked(c)) \in Nat /\ Cardinality(Requests) \in Nat /\ MaxAttempts \in Nat
      BY CheckedFinite, WebAuthAssumption
    <3> QED
      BY <3>1, <3>3, <3>4, <3>5, <3>6
  <2>4. CASE c # d
    <3>1. Len(failures'[c]) <= Len(failures[c])
      BY <2>1, <2>4, LimiterType
    <3>2. Checked(c)' \subseteq Checked(c)
      BY <2>2 DEF Checked, NoRequest
    <3> QED
      BY <3>1, <3>2, NoMore
  <2> QED
    BY <2>3, <2>4
\* Steps of nobody's.
<1>13. ASSUME \/ Tick
              \/ Restart
              \/ \E s \in Sessions : Expire(s) \/ \E r \in Requests : ResetSession(r, s)
              \/ UNCHANGED vars
      PROVE  Checked(c)' \subseteq Checked(c) /\ Len(failures'[c]) <= Len(failures[c])
  <2>1. Len(failures[c]) \in Nat
    BY DEF TypeOK
  <2>2. Checked(c)' \subseteq Checked(c)
    <3>1. CASE Restart
      BY <3>1 DEF Restart, Checked, NoRequest
    <3>2. CASE ~Restart
      <4>1. UNCHANGED request
        BY <1>13, <3>2 DEF Tick, Expire, ResetSession, vars
      <4> QED
        BY <4>1 DEF Checked
    <3> QED
      BY <3>1, <3>2
  <2>3. CASE Tick
    <3>1. Len(failures'[c]) = Len(failures[c])
      <4>1. failures'[c] = [i \in DOMAIN failures[c] |-> IF failures[c][i] = 0 THEN 0 ELSE failures[c][i] - 1]
        BY <2>3 DEF Tick
      <4>2. failures[c] \in Seq(0 .. Window) /\ failures'[c] \in Seq(0 .. Window)
        BY DEF TypeOK
      <4>3. DOMAIN failures'[c] = DOMAIN failures[c]
        BY <4>1
      <4> QED
        BY <4>2, <4>3, Elements
    <3> QED
      BY <2>1, <2>2, <3>1
  <2>4. CASE Restart
    BY <2>1, <2>2, <2>4, EmptySeq DEF Restart
  <2>5. CASE ~Tick /\ ~Restart
    <3>1. UNCHANGED failures
      BY <1>13, <2>5 DEF Expire, ResetSession, limiter, vars
    <3> QED
      BY <2>1, <2>2, <3>1
  <2> QED
    BY <2>3, <2>4, <2>5
<1> QED
  BY <1>5, <1>6, <1>7, <1>8, <1>9, <1>10, <1>11, <1>12, <1>13, NoMore DEF Next, Step, Deadlock
--------------------------------------------------------------------------------
(* Theorems. *)

LEMMA InitInv == Init => IInv
<1> SUFFICES ASSUME Init PROVE IInv
  OBVIOUS
<1>1. \A r \in Requests : request[r] = NoRequest
  BY DEF Init
<1>2. Account
  BY <1>1 DEF Init, Account, RequestsConsistent, Consistent, At, NoRequest, SessionsOpened, Live,
              OneAdministrator
<1>3. LimiterBounded
  <2>1. ASSUME NEW c \in Clients
        PROVE  Len(failures[c]) + Cardinality(Checked(c)) < MaxAttempts + Cardinality(Requests)
    <3>1. Checked(c) = {}
      BY <1>1 DEF Checked, NoRequest
    <3>2. failures[c] = <<>>
      BY DEF Init
    <3> QED
      BY <3>1, <3>2, FS_EmptySet, EmptySeq, FS_CardinalityType, WebAuthAssumption
  <2> QED
    BY <2>1 DEF LimiterBounded
<1> QED
  BY <1>2, <1>3, InitType DEF IInv

LEMMA StepInv == IInv /\ [Next]_vars => IInv'
BY StepType, StepAccount, StepLimiter DEF IInv, Account

\* The invariant: what holds the administrator's row has read it as it is.
THEOREM AccountInvariant == Spec => []IInv
BY InitInv, StepInv, PTL DEF Spec

\* Every column, lock, request and counter keeps its type, and no failure counts beyond
\* its window.
THEOREM TypeCorrect == Spec => []TypeOK
BY AccountInvariant, PTL DEF IInv

\* A login that races a reset of the password never leaves a session behind (login and
\* reset_password lock the administrator's row first).
THEOREM SessionsMatchPassword == Spec => []SessionsOfPassword
<1>1. IInv => SessionsOfPassword
  BY DEF IInv, Account, SessionsOpened, SessionsOfPassword
<1> QED
  BY <1>1, AccountInvariant, PTL

\* However many setups race, one succeeds, and no reset is taken for one.
THEOREM SetupOnce == Spec => []OneAdministrator
<1>1. IInv => OneAdministrator
  BY DEF IInv, Account
<1> QED
  BY <1>1, AccountInvariant, PTL

\* What has ended, or belongs to an earlier password, admits no request that comes later.
THEOREM EndedSessionsRefused == Spec => []RefusedAfterEnd
<1>1. IInv => RefusedAfterEnd
  BY DEF IInv, Account, RequestsConsistent, Consistent, RefusedAfterEnd
<1> QED
  BY <1>1, AccountInvariant, PTL

\* Attempts that pass the check in parallel exceed the limit by their number at most.
THEOREM AttemptsBounded == Spec => []LimiterBounded
<1>1. IInv => LimiterBounded
  BY DEF IInv
<1> QED
  BY <1>1, AccountInvariant, PTL
================================================================================
