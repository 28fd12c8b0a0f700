------------------------------ MODULE WyzeAuth ------------------------------
(***************************************************************************)
(* internal/wyzeapi: the access token that every call to the Wyze cloud    *)
(* shares (auth.go), the file it is kept in (state.go) and, in             *)
(* cmd/wyze-bridge/main.go, the issue that a failed login raises and the   *)
(* saves that a change of some camera starts.                              *)
(*                                                                         *)
(* Callers are the goroutines that use the client: the discovery loop, the *)
(* event poller, MQTT commands, and the WebUI's handlers.  Each runs       *)
(* EnsureAuth and then its own request.  The client has no lock: c.auth is *)
(* read again at every use, refreshed in place, dropped before a new       *)
(* login, and using it while it is nil ends the process, unless the caller *)
(* is an HTTP handler, whose panic net/http recovers.                      *)
(*                                                                         *)
(* Time counts in units no request outlasts; a caller waits for one        *)
(* request at a time.  A token is named by the time the cloud issued it.   *)
(* state.Auth and the document being encoded are pointers: Same is the     *)
(* object c.auth points to, anything else an object it no longer does.     *)
(***************************************************************************)
EXTENDS Integers

CONSTANTS
  Callers,   \* goroutines that use the client
  Handlers,  \* those of them that are HTTP handlers
  Life,      \* how long the cloud honours an access token
  Claim,     \* how long the client takes it to, from the answer: 23 hours
  Margin,    \* NeedsRefresh leaves as much: 5 minutes
  Patience,  \* what one request may last: 30 seconds
  Upsets,    \* bound on saves and on ends of the process that are not panics
  MaxClock,  \* bound on the clock
  None, Same

Auths == [access : Nat, expires : Nat]

ASSUME AuthAssumption ==
  /\ Handlers \subseteq Callers
  /\ Life \in Nat /\ Claim \in Nat /\ Margin \in Nat /\ Patience \in Nat
  /\ Claim + 3 * Patience < Life + Margin
  /\ 2 * Patience < Life
  /\ Upsets \in Nat /\ MaxClock \in Nat
  /\ None \notin Nat /\ None \notin Auths /\ Same \notin Auths /\ None # Same

VARIABLES
  clock,
  auth,     \* c.auth
  pc,       \* where each caller is in EnsureAuth, or before its own request
  since,    \* when it made the request it waits for, or its call
  issue,    \* "wyzeapi/auth" is among the open issues
  state,    \* state.Auth
  pending,  \* goroutines of persistState that have yet to Save
  saver,    \* where the one is that holds writeMu
  doc,      \* what it encodes or has encoded
  early,    \* the access token it has read ahead of the rest
  disk,     \* the Auth in the state file
  up,       \* the bridge runs
  upsets    \* those so far

calls == <<pc, since>>
file  == <<state, pending, saver, doc, early, disk>>
authVars == <<clock, auth, calls, issue, file, up, upsets>>

AuthInit ==
  /\ clock = 0
  /\ auth = None
  /\ pc = [c \in Callers |-> "idle"]
  /\ since = [c \in Callers |-> 0]
  /\ issue = FALSE
  /\ state = None /\ pending = 0
  /\ saver = "idle" /\ doc = None /\ early = None
  /\ disk = None
  /\ up = TRUE /\ upsets = 0

-----------------------------------------------------------------------------
(* Pointers.                                                               *)

Content(pointer) == IF pointer = Same THEN auth ELSE pointer

\* c.auth points to a, another object or none: what pointed to the old one
\* still does.
Repoint(a) ==
  /\ auth' = a
  /\ state' = Content(state)
  /\ doc' = Content(doc)
  /\ UNCHANGED <<pending, saver, early, disk>>

-----------------------------------------------------------------------------
(* EnsureAuth.                                                             *)

NeedsRefresh == auth = None \/ clock > auth.expires - Margin

GoTo(c, label) ==
  /\ pc[c] # "idle"
  /\ pc' = [pc EXCEPT ![c] = label]
  /\ since' = IF label = "idle" THEN [since EXCEPT ![c] = 0] ELSE since
  /\ UNCHANGED <<clock, up, upsets>>

\* Onward to a request.
Ask(c, label) ==
  /\ pc' = [pc EXCEPT ![c] = label]
  /\ since' = [since EXCEPT ![c] = clock]
  /\ UNCHANGED <<clock, issue, up, upsets>>

Call(c) ==
  /\ up /\ pc[c] = "idle"
  /\ pc' = [pc EXCEPT ![c] = IF auth = None THEN "login" ELSE "expiry"]
  /\ since' = [since EXCEPT ![c] = clock]
  /\ UNCHANGED <<clock, auth, issue, file, up, upsets>>

\* The second look at c.auth.
Expiry(c) ==
  /\ pc[c] = "expiry" /\ auth # None
  /\ GoTo(c, IF NeedsRefresh THEN "refresh" ELSE "ready")
  /\ UNCHANGED <<auth, issue, file>>

Refresh(c) ==
  /\ pc[c] = "refresh" /\ auth # None
  /\ Ask(c, "refreshing")
  /\ UNCHANGED <<auth, file>>

\* (mutant) A refresh that fails is an error.
RefreshFailsForGood(c) ==
  /\ pc[c] = "refreshing" \/ (pc[c] = "refresh" /\ auth = None)
  /\ GoTo(c, "idle")
  /\ UNCHANGED <<auth, issue, file>>

\* A refresh that fails, or finds nothing to refresh: log in again.
RefreshFails(c) ==
  /\ pc[c] = "refreshing" \/ (pc[c] = "refresh" /\ auth = None)
  /\ Repoint(None)
  /\ Ask(c, "login")

\* When the cloud may have issued what it answers c with.
IssueTimes(c) == since[c] .. clock

RefreshOk(c) ==
  /\ pc[c] = "refreshing" /\ auth # None
  /\ \E t \in IssueTimes(c) : auth' = [auth EXCEPT !.access = t]
  /\ GoTo(c, "stamp")
  /\ UNCHANGED <<issue, file>>

Stamp(c) ==
  /\ pc[c] = "stamp" /\ auth # None
  /\ auth' = [auth EXCEPT !.expires = clock + Claim]
  /\ GoTo(c, "recover")
  /\ UNCHANGED <<issue, file>>

\* The account wants a code: completeMFA makes a second request.
MfaAsked(c) ==
  /\ pc[c] = "login"
  /\ Ask(c, "totp")
  /\ UNCHANGED <<auth, file>>

LoginOk(c) ==
  /\ pc[c] \in {"login", "totp"}
  /\ \E t \in IssueTimes(c) : Repoint([access |-> t, expires |-> clock + Claim])
  /\ GoTo(c, "recover")
  /\ UNCHANGED <<issue>>

LoginFails(c) ==
  /\ pc[c] \in {"login", "totp"}
  /\ GoTo(c, "alarm")
  /\ UNCHANGED <<auth, issue, file>>

\* notifyAuthRecover, after which EnsureAuth returns nil.
Recover(c) ==
  /\ pc[c] = "recover"
  /\ issue' = FALSE
  /\ GoTo(c, "ready")
  /\ UNCHANGED <<auth, file>>

\* notifyAuthFailure, after which it returns the error.
Alarm(c) ==
  /\ pc[c] = "alarm"
  /\ issue' = TRUE
  /\ pc' = [pc EXCEPT ![c] = "idle"]
  /\ since' = [since EXCEPT ![c] = 0]
  /\ UNCHANGED <<clock, auth, file, up, upsets>>

\* The call proper.  No error of it, "access token expired" included, changes
\* the client.
Request(c) ==
  /\ pc[c] = "ready" /\ auth # None
  /\ GoTo(c, "idle")
  /\ UNCHANGED <<auth, issue, file>>

-----------------------------------------------------------------------------
(* The state file.                                                         *)

Upset == upsets < Upsets /\ upsets' = upsets + 1

\* persistState, first line, in a goroutine that a camera's change starts.
Note ==
  /\ up
  /\ Upset
  /\ state' = IF auth = None THEN None ELSE Same
  /\ pending' = pending + 1
  /\ UNCHANGED <<clock, auth, calls, issue, saver, doc, early, disk, up>>

\* Save: take the lock and encode.
EncodeWhole ==
  /\ up /\ saver = "idle" /\ pending > 0
  /\ doc' = Content(state)
  /\ saver' = "write" /\ pending' = pending - 1
  /\ UNCHANGED <<clock, auth, calls, issue, state, early, disk, up, upsets>>

\* In TornSpec the fields are read one by one.
EncodeAccess ==
  /\ up /\ saver = "idle" /\ pending > 0 /\ Content(state) # None
  /\ doc' = state
  /\ early' = Content(state).access
  /\ saver' = "encode" /\ pending' = pending - 1
  /\ UNCHANGED <<clock, auth, calls, issue, state, disk, up, upsets>>

EncodeExpires ==
  /\ saver = "encode"
  /\ doc' = [access |-> early, expires |-> Content(doc).expires]
  /\ saver' = "write" /\ early' = None
  /\ UNCHANGED <<clock, auth, calls, issue, state, pending, disk, up, upsets>>

\* The temporary file takes the state file's place, and the lock is released.
Rename ==
  /\ saver = "write"
  /\ disk' = doc
  /\ saver' = "idle" /\ doc' = None
  /\ UNCHANGED <<clock, auth, calls, issue, state, pending, early, up, upsets>>

-----------------------------------------------------------------------------
(* The process.                                                            *)

\* What is in memory is lost.
Down ==
  /\ up /\ up' = FALSE
  /\ auth' = None /\ issue' = FALSE
  /\ pc' = [c \in Callers |-> "idle"]
  /\ since' = [c \in Callers |-> 0]
  /\ state' = None /\ pending' = 0
  /\ saver' = "idle" /\ doc' = None /\ early' = None
  /\ UNCHANGED clock

\* c uses c.auth and it is nil.
Panic(c) ==
  /\ pc[c] \in {"expiry", "refresh", "refreshing", "stamp", "ready"} /\ auth = None
  /\ \/ c \in Handlers /\ GoTo(c, "idle") /\ UNCHANGED <<auth, issue, file>>
     \/ c \notin Handlers /\ Down /\ UNCHANGED <<disk, upsets>>

Die ==
  /\ Upset
  /\ Down
  /\ UNCHANGED disk

\* The end of main: a last save, when nobody else holds writeMu.
Shutdown ==
  /\ saver = "idle"
  /\ Upset
  /\ disk' = auth
  /\ Down

\* (mutant) What it loads counts as just issued.
BootRestamps ==
  /\ ~up /\ up' = TRUE
  /\ auth' = IF disk = None THEN None ELSE [disk EXCEPT !.expires = clock + Claim]
  /\ state' = IF disk = None THEN None ELSE Same
  /\ UNCHANGED <<clock, calls, issue, pending, saver, doc, early, disk, upsets>>

\* main again: LoadState, and SetAuth with what it loaded.
Boot ==
  /\ ~up /\ up' = TRUE
  /\ auth' = disk
  /\ state' = IF disk = None THEN None ELSE Same
  /\ UNCHANGED <<clock, calls, issue, pending, saver, doc, early, disk, upsets>>

ClockTick ==
  /\ clock < MaxClock /\ clock' = clock + 1
  /\ \A c \in Callers : pc[c] # "idle" => clock < since[c] + Patience
  /\ UNCHANGED <<auth, calls, issue, file, up, upsets>>

EnsureAuth(c) ==
  \/ Expiry(c) \/ Refresh(c) \/ RefreshFails(c) \/ RefreshOk(c) \/ Stamp(c)
  \/ MfaAsked(c) \/ LoginOk(c) \/ LoginFails(c) \/ Recover(c) \/ Alarm(c)

CallerStep(c) == Call(c) \/ EnsureAuth(c) \/ Request(c) \/ Panic(c)

Save == EncodeWhole \/ Rename

AuthNext ==
  \/ \E c \in Callers : CallerStep(c)
  \/ Note \/ Save
  \/ Die \/ Shutdown \/ Boot
  \/ ClockTick

AuthSpec == AuthInit /\ [][AuthNext]_authVars

\* A refresh may fall between two fields being encoded.
TornSpec == AuthInit /\ [][AuthNext \/ EncodeAccess \/ EncodeExpires]_authVars

\* The loops call again and again and a request is answered or times out; now
\* and then the cloud lets somebody in; a dead bridge is started again.
FairAuthSpec ==
  /\ AuthSpec
  /\ \A c \in Callers : WF_authVars(CallerStep(c)) /\ SF_authVars(LoginOk(c))
  /\ WF_authVars(Boot)

-----------------------------------------------------------------------------

Labels == {"idle", "expiry", "refresh", "refreshing", "stamp", "login", "totp",
           "alarm", "recover", "ready"}

AuthTypeOK ==
  /\ clock \in Nat
  /\ auth \in Auths \cup {None}
  /\ pc \in [Callers -> Labels]
  /\ since \in [Callers -> Nat]
  /\ issue \in BOOLEAN
  /\ state \in Auths \cup {None, Same} /\ pending \in Nat
  /\ saver \in {"idle", "encode", "write"} /\ doc \in Auths \cup {None, Same}
  /\ early \in Nat \cup {None}
  /\ disk \in Auths \cup {None}
  /\ up \in BOOLEAN /\ upsets \in Nat

(* EnsureAuth lets no caller go on with a token the cloud has let expire,
   whoever refreshes it meanwhile, and however old the file is that it was
   read from (auth.go:258-293, main.go:84-87).                             *)
TokenIsLive ==
  \A c \in Callers : pc[c] = "ready" /\ auth # None => clock < auth.access + Life

(* "Cleared automatically when the next attempt succeeds" (README.md:489): at
   rest the issue is not open while the client holds a token.              *)
IssueMeansNoToken == issue /\ (\A c \in Callers : pc[c] = "idle") => auth = None

(* Whatever fails, be it refreshes, logins or the process, the client comes
   to hold a token it need not refresh (auth.go:269-293).                  *)
Renewed == NeedsRefresh ~> ~NeedsRefresh
=============================================================================
