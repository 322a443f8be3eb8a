-------------------------------- MODULE WebAuth --------------------------------
(***************************************************************************)
(* The administrator's account, its sessions and the login limiter          *)
(* (web_auth/service.py): setup, login, use and end of a session over HTTP, *)
(* and the reset of the password from the command line (web_auth/cli.py).   *)
(*                                                                         *)
(* A request is a sequence of statements; a transaction keeps the row locks *)
(* it takes until its commit, which is its last step here.  Hashing and     *)
(* verifying a password is slow and lies between two steps.  A password is  *)
(* a number, new at every setup and reset; 0 stands for a wrong one, or for *)
(* a username that is not the administrator's.                              *)
(***************************************************************************)
EXTENDS Integers, Sequences, FiniteSets

CONSTANTS
  Requests,      \* the requests under way at a time, and the command line's
  Sessions,      \* session tokens, each used once
  Clients,       \* rate_limit_key of the browsers' addresses
  NoOne,
  MaxAttempts, Window, MaxEntries,   \* of the LoginRateLimiter; Window in ticks
  MaxPasswords   \* bound on the passwords of a behaviour

ASSUME WebAuthAssumption ==
  /\ IsFiniteSet(Requests) /\ NoOne \notin Requests \cup Sessions \cup Clients
  /\ MaxAttempts \in Nat \ {0} /\ Window \in Nat \ {0} /\ MaxEntries \in Nat \ {0}
  /\ MaxPasswords \in Nat

VARIABLES
  password,      \* of the administrator; 0 before the setup
  chosen,        \* the last password that somebody chose
  setups,        \* (history) setups that were answered with success
  session,       \* token -> its row: whether it is usable, and the password it was opened with
  userLock,      \* who holds the administrator's row
  sessionLock,   \* token -> who holds its row
  failures,      \* client -> the ticks its failures still count, oldest first
  older,         \* the order of the OrderedDict: <<a, b>> when a is before b
  request        \* what each request is, how far it is and what it has read

database == <<password, chosen, setups, session>>
locks == <<userLock, sessionLock>>
limiter == <<failures, older>>
vars == <<password, chosen, setups, session, userLock, sessionLock, failures, older, request>>

\* "idle" is a request that is over, or has not come yet.
Steps == {"idle", "arrived", "insert", "allowed", "verify", "clear", "resolved",
          "session", "both", "user"}
Operations == {"none", "setup", "login", "use", "logout", "reset"}
Rows == [state : {"none", "live", "ended"}, password : Nat]
RequestStates == [op : Operations, at : Steps, client : Clients \cup {NoOne},
                  session : Sessions \cup {NoOne}, password : Nat, seen : Nat, late : BOOLEAN]

TypeOK ==
  /\ password \in Nat /\ chosen \in Nat /\ setups \in Nat
  /\ session \in [Sessions -> Rows]
  /\ userLock \in Requests \cup {NoOne}
  /\ sessionLock \in [Sessions -> Requests \cup {NoOne}]
  /\ failures \in [Clients -> Seq(0 .. Window)]
  /\ older \in SUBSET (Clients \X Clients)
  /\ request \in [Requests -> RequestStates]

NoRequest == [op |-> "none", at |-> "idle", client |-> NoOne, session |-> NoOne,
              password |-> 0, seen |-> 0, late |-> FALSE]

Init ==
  /\ password = 0 /\ chosen = 0 /\ setups = 0
  /\ session = [s \in Sessions |-> [state |-> "none", password |-> 0]]
  /\ userLock = NoOne /\ sessionLock = [s \in Sessions |-> NoOne]
  /\ failures = [c \in Clients |-> <<>>] /\ older = {}
  /\ request = [r \in Requests |-> NoRequest]
--------------------------------------------------------------------------------
(* The login limiter. *)

\* _active_failures: the failures that still count.
Expired(c) == Cardinality({i \in DOMAIN failures[c] : failures[c][i] = 0})
Active(c) == SubSeq(failures[c], Expired(c) + 1, Len(failures[c]))

Entries == {c \in Clients : failures[c] # <<>>}
Without(c) == {p \in older : p[1] # c /\ p[2] # c}
\* move_to_end
AtEnd(c) == Without(c) \cup ((Entries \ {c}) \X {c})

\* Every look prunes the client's entry, moves it to the end, or drops it when it is empty.
Look(c) ==
  /\ failures' = [failures EXCEPT ![c] = Active(c)]
  /\ older' = IF Active(c) = <<>> THEN Without(c) ELSE AtEnd(c)

\* record_failure; one entry too many evicts the one that was looked at least recently.
Record(c) ==
  LET recorded == [failures EXCEPT ![c] = Append(Active(c), Window)]
      oldest(v) == ~\E p \in AtEnd(c) : p[2] = v
  IN IF Cardinality(Entries \cup {c}) <= MaxEntries
     THEN failures' = recorded /\ older' = AtEnd(c)
     ELSE \E v \in Entries \cup {c} :
            /\ oldest(v)
            /\ failures' = [recorded EXCEPT ![v] = <<>>]
            /\ older' = {p \in AtEnd(c) : p[1] # v}

\* record_success
Clear(c) == failures' = [failures EXCEPT ![c] = <<>>] /\ older' = Without(c)

\* (Mutant: what has expired goes on counting down.)
TickOn ==
  /\ failures' = [c \in Clients |-> [i \in DOMAIN failures[c] |-> failures[c][i] - 1]]
  /\ UNCHANGED <<database, locks, older, request>>
Tick ==
  /\ failures' = [c \in Clients |-> [i \in DOMAIN failures[c] |->
                    IF failures[c][i] = 0 THEN 0 ELSE failures[c][i] - 1]]
  /\ UNCHANGED <<database, locks, older, request>>
--------------------------------------------------------------------------------
(* Requests. *)

At(r, op, step) == request[r].op = op /\ request[r].at = step
Goes(r, step) == request' = [request EXCEPT ![r].at = step]
Ends(r) == request' = [request EXCEPT ![r] = NoRequest]

Live(s) == session[s].state = "live"
Free(lock) == lock = NoOne

Arrives(r, op, c, s, p) ==
  /\ request[r].at = "idle"
  /\ request' = [request EXCEPT ![r] =
       [op |-> op, at |-> "arrived", client |-> c, session |-> s, password |-> p, seen |-> 0,
        late |-> s # NoOne /\ (session[s].state = "ended" \/ session[s].password # password)]]
  /\ UNCHANGED <<password, setups, session, locks, limiter>>

\* A setup or a reset brings a new password.
Choose(r, op) ==
  /\ chosen < MaxPasswords /\ chosen' = chosen + 1
  /\ Arrives(r, op, NoOne, NoOne, chosen + 1)
\* While a token is left for every login under way.
AskLogin(r, c, p) ==
  /\ Cardinality({q \in Requests : request[q].op = "login"})
       < Cardinality({s \in Sessions : session[s].state = "none"})
  /\ UNCHANGED chosen /\ p <= chosen /\ Arrives(r, "login", c, NoOne, p)
\* With the cookie of a session, live or not.
AskWith(r, op, s) ==
  UNCHANGED chosen /\ session[s].state # "none" /\ Arrives(r, op, NoOne, s, 0)

\* setup_admin: is there an administrator, and is the setup token right?
SetupCheck(r) ==
  /\ At(r, "setup", "arrived")
  /\ \/ Ends(r)
     \/ password = 0 /\ Goes(r, "insert")
  /\ UNCHANGED <<database, locks, limiter>>

\* The unique singleton_key makes the insert wait for another one, and fail.
\* (Mutant: without that column.)
SetupInsertAny(r) ==
  /\ At(r, "setup", "insert") /\ Ends(r)
  /\ password' = request[r].password /\ setups' = setups + 1
  /\ UNCHANGED <<chosen, session, locks, limiter>>
SetupInsert(r) ==
  /\ At(r, "setup", "insert") /\ Ends(r)
  /\ IF password = 0 THEN password' = request[r].password /\ setups' = setups + 1
     ELSE UNCHANGED <<password, setups>>
  /\ UNCHANGED <<chosen, session, locks, limiter>>

\* login: ensure_allowed.
\* (Mutant: one attempt more.)
LoginCheckLate(r) ==
  /\ At(r, "login", "arrived") /\ Look(request[r].client)
  /\ IF Len(Active(request[r].client)) > MaxAttempts THEN Ends(r) ELSE Goes(r, "allowed")
  /\ UNCHANGED <<database, locks>>
LoginCheck(r) ==
  /\ At(r, "login", "arrived") /\ Look(request[r].client)
  /\ IF Len(Active(request[r].client)) >= MaxAttempts THEN Ends(r) ELSE Goes(r, "allowed")
  /\ UNCHANGED <<database, locks>>

\* SELECT ... FOR UPDATE of the administrator, if there is one and the username is right.
\* (Mutant: without FOR UPDATE.)
LoginReadUnlocked(r) ==
  /\ At(r, "login", "allowed")
  /\ UNCHANGED userLock
  /\ request' = [request EXCEPT ![r].at = "verify", ![r].seen = password]
  /\ UNCHANGED <<database, sessionLock, limiter>>
LoginRead(r) ==
  /\ At(r, "login", "allowed")
  /\ \/ /\ password = 0 \/ request[r].password = 0
        /\ UNCHANGED userLock
        /\ request' = [request EXCEPT ![r].at = "verify", ![r].seen = 0]
     \/ /\ password # 0 /\ Free(userLock) /\ userLock' = r
        /\ request' = [request EXCEPT ![r].at = "verify", ![r].seen = password]
  /\ UNCHANGED <<database, sessionLock, limiter>>

Verified(r) == request[r].seen # 0 /\ request[r].password = request[r].seen
Unlocked(r) == userLock' = IF userLock = r THEN NoOne ELSE userLock

\* The failure is recorded and the transaction rolled back.
\* (Mutant: the transaction stays open.)
LoginRefuseOpen(r) ==
  /\ At(r, "login", "verify") /\ ~Verified(r) /\ Ends(r)
  /\ Record(request[r].client)
  /\ UNCHANGED <<database, locks>>
LoginRefuse(r) ==
  /\ At(r, "login", "verify") /\ ~Verified(r) /\ Ends(r)
  /\ Record(request[r].client) /\ Unlocked(r)
  /\ UNCHANGED <<database, sessionLock>>

LoginOpen(r, s) ==
  /\ At(r, "login", "verify") /\ Verified(r) /\ session[s].state = "none"
  /\ session' = [session EXCEPT ![s] = [state |-> "live", password |-> request[r].seen]]
  /\ Unlocked(r) /\ Goes(r, "clear")
  /\ UNCHANGED <<password, chosen, setups, sessionLock, limiter>>

LoginClear(r) ==
  /\ At(r, "login", "clear") /\ Ends(r) /\ Clear(request[r].client)
  /\ UNCHANGED <<database, locks>>

\* resolve_session and require_mutation_session; a wrong CSRF token is refused like a
\* session that is over.
Resolve(r) ==
  /\ At(r, "use", "arrived")
  /\ \/ Ends(r)
     \/ Live(request[r].session) /\ Goes(r, "resolved")
  /\ UNCHANGED <<database, locks, limiter>>

\* The update of last_seen_at waits for the row; what was resolved stays resolved.
Touch(r) ==
  /\ At(r, "use", "resolved") /\ Ends(r)
  /\ Free(sessionLock[request[r].session])
  /\ UNCHANGED <<database, locks, limiter>>

\* logout: the SELECT ... FOR UPDATE of the join locks the session, then the user, and
\* looks at the session again when it had to wait.
LogoutSession(r) ==
  LET s == request[r].session IN
  /\ At(r, "logout", "arrived") /\ Free(sessionLock[s])
  /\ IF Live(s) THEN Goes(r, "session") /\ sessionLock' = [sessionLock EXCEPT ![s] = r]
     ELSE Ends(r) /\ UNCHANGED sessionLock
  /\ UNCHANGED <<database, userLock, limiter>>
LogoutUser(r) ==
  /\ At(r, "logout", "session") /\ Free(userLock)
  /\ userLock' = r /\ Goes(r, "both")
  /\ UNCHANGED <<database, sessionLock, limiter>>
\* The session is revoked, or the CSRF token is wrong.
LogoutEnd(r) ==
  LET s == request[r].session IN
  /\ At(r, "logout", "both") /\ Ends(r)
  /\ userLock' = NoOne /\ sessionLock' = [sessionLock EXCEPT ![s] = NoOne]
  /\ session' = [session EXCEPT ![s].state = "ended"] \/ UNCHANGED session
  /\ UNCHANGED <<password, chosen, setups, limiter>>

\* reset_password: the administrator is locked, then every session that is not revoked.
ResetUser(r) ==
  /\ At(r, "reset", "arrived")
  /\ IF password = 0 THEN Ends(r) /\ UNCHANGED userLock
     ELSE Free(userLock) /\ userLock' = r /\ Goes(r, "user")
  /\ UNCHANGED <<database, sessionLock, limiter>>
ResetSession(r, s) ==
  /\ At(r, "reset", "user") /\ Live(s) /\ Free(sessionLock[s])
  /\ sessionLock' = [sessionLock EXCEPT ![s] = r]
  /\ UNCHANGED <<database, userLock, limiter, request>>
Released(r) == sessionLock' = [s \in Sessions |-> IF sessionLock[s] = r THEN NoOne ELSE sessionLock[s]]
ResetCommit(r) ==
  /\ At(r, "reset", "user") /\ \A s \in Sessions : Live(s) => sessionLock[s] = r
  /\ password' = request[r].password
  /\ session' = [s \in Sessions |-> IF Live(s) THEN [session[s] EXCEPT !.state = "ended"] ELSE session[s]]
  /\ userLock' = NoOne /\ Released(r) /\ Ends(r)
  /\ UNCHANGED <<chosen, setups, limiter>>

\* A logout that holds a session and a reset that holds the user wait for each other:
\* PostgreSQL rolls one of them back, which is answered with an error.
Stuck(r, q) ==
  /\ At(r, "logout", "session") /\ userLock = q
  /\ At(q, "reset", "user") /\ Live(request[r].session)
Abort(r) == Unlocked(r) /\ Released(r) /\ Ends(r) /\ UNCHANGED <<database, limiter>>
Deadlock == \E r, q \in Requests : Stuck(r, q) /\ (Abort(r) \/ Abort(q))

\* expires_at
Expire(s) ==
  /\ Live(s) /\ session' = [session EXCEPT ![s].state = "ended"]
  /\ UNCHANGED <<password, chosen, setups, locks, limiter, request>>

\* The API restarts; a reset is a process of its own.
Restart ==
  LET lost == {r \in Requests : request[r].op # "reset"} IN
  /\ request' = [r \in Requests |-> IF r \in lost THEN NoRequest ELSE request[r]]
  /\ userLock' = IF userLock \in lost THEN NoOne ELSE userLock
  /\ sessionLock' = [s \in Sessions |-> IF sessionLock[s] \in lost THEN NoOne ELSE sessionLock[s]]
  /\ failures' = [c \in Clients |-> <<>>] /\ older' = {}
  /\ UNCHANGED database

Step(r) ==
  \/ SetupCheck(r) \/ SetupInsert(r)
  \/ LoginCheck(r) \/ LoginRead(r) \/ LoginRefuse(r) \/ LoginClear(r)
  \/ \E s \in Sessions : LoginOpen(r, s) \/ ResetSession(r, s)
  \/ Resolve(r) \/ Touch(r)
  \/ LogoutSession(r) \/ LogoutUser(r) \/ LogoutEnd(r)
  \/ ResetUser(r) \/ ResetCommit(r)

Ask(r) ==
  \/ \E op \in {"setup", "reset"} : Choose(r, op)
  \/ \E c \in Clients, p \in 0 .. MaxPasswords : AskLogin(r, c, p)
  \/ \E op \in {"use", "logout"}, s \in Sessions : AskWith(r, op, s)

Next ==
  \/ \E r \in Requests : Ask(r) \/ Step(r)
  \/ Deadlock
  \/ \E s \in Sessions : Expire(s)
  \/ Tick
  \/ Restart

Spec == Init /\ [][Next]_vars

\* The server goes on with a request; a row lock goes to those who wait for it in turn.
Fairness == WF_vars(Deadlock) /\ \A r \in Requests : SF_vars(Step(r))
FairSpec == Spec /\ Fairness
--------------------------------------------------------------------------------
(* Properties. *)

\* A session that can be used was opened with the password the administrator has now: no
\* login that races a reset outlives it.
SessionsOfPassword == \A s \in Sessions : Live(s) => session[s].password = password

\* The setup succeeds once, however many race for it.
OneAdministrator == setups = IF password = 0 THEN 0 ELSE 1

\* A request that comes after the end of its session, or after the password was reset,
\* is not admitted.
RefusedAfterEnd == \A r \in Requests : request[r].at = "resolved" => ~request[r].late

\* The failures that count against a client, and its attempts that have passed the check,
\* exceed the limit by no more than the requests that run in parallel.
Checked(c) == {r \in Requests : request[r].client = c /\ request[r].at \in {"allowed", "verify"}}
LimiterBounded ==
  \A c \in Clients : Len(failures[c]) + Cardinality(Checked(c)) < MaxAttempts + Cardinality(Requests)

\* Every request is answered, although a logout and a reset take their locks in opposite orders.
EveryRequestEnds == \A r \in Requests : request[r].at # "idle" ~> request[r].at = "idle"
================================================================================
