------------------------------ MODULE Sessions ------------------------------
(***************************************************************************)
(* Staying signed in.  AuthService hands out pairs of a short access token *)
(* and a refresh token, and rotates the refresh token each time it is      *)
(* presented; UsersService deactivates, resets and removes accounts; the   *)
(* front end's interceptor answers a 401 by one refresh for all requests   *)
(* that wait for it and sends them again.  Each tab here has a storage of  *)
(* its own: a session storage, or a browser with one tab.  A lost answer,  *)
(* a reload, and a sign-out may come while a refresh is under way.         *)
(***************************************************************************)
EXTENDS Integers, FiniteSetsExt

CONSTANTS Users, Tabs,
          MaxInFlight,   \* bound: requests in flight at a time
          MaxPairs,      \* bound: pairs of tokens issued
          MaxIncidents,   \* bound: lost messages, reloads and changes of accounts
          NoUser, NoPair

Pairs == 1..MaxPairs
Calls == 1..MaxInFlight   \* the requests of a tab: a new one takes the first free place

ASSUME SessionsAssumption ==
    /\ MaxInFlight \in Nat /\ MaxPairs \in Nat /\ MaxIncidents \in Nat
    /\ NoUser \notin Users /\ NoPair \notin Pairs

VARIABLES account,      \* "active", "inactive" or "removed"
          owner,        \* the user each pair was issued to
          row,          \* the refresh token of each pair, as the server knows it
          user,         \* who each tab shows as signed in
          store,        \* the pair in the tab's storage
          request,      \* how far each request of a tab is
          refreshing,   \* the refresh the tab has under way
          leaving,      \* the tabs signing out
          undermined,    \* a tab may hold a token that was revoked behind its back
          incidents

server == <<account, owner, row>>
tabs == <<user, store, request, refreshing, leaving>>
sessionsVars == <<server, tabs, undermined, incidents>>

\* What became of a refresh token; the rows of a removed user are gone.
Rows == {"unissued", "live", "revoked", "gone"}

\* A refresh on its way: the token presented, what the server has done so far, and
\* the pair it answers with.
Refreshes == [token : Pairs, stage : {"sent", "found", "issued", "done", "failed"},
              pair : Pairs \union {NoPair}]
NoRefresh == [token |-> NoPair, stage |-> "none", pair |-> NoPair]

SessionsInit ==
    /\ account = [u \in Users |-> "active"]
    /\ owner = [n \in Pairs |-> NoUser]
    /\ row = [n \in Pairs |-> "unissued"]
    /\ user = [t \in Tabs |-> NoUser]
    /\ store = [t \in Tabs |-> NoPair]
    /\ request = [t \in Tabs |-> [q \in Calls |-> "idle"]]
    /\ refreshing = [t \in Tabs |-> NoRefresh]
    /\ leaving = {}
    /\ undermined = FALSE
    /\ incidents = 0

Incident == incidents < MaxIncidents /\ incidents' = incidents + 1

Unissued == {n \in Pairs : row[n] = "unissued"}

\* issueTokens: a new row for user u.
Issue(n, u) ==
    /\ Unissued # {} /\ n = Min(Unissued)
    /\ owner' = [owner EXCEPT ![n] = u]
    /\ row' = [row EXCEPT ![n] = "live"]

-----------------------------------------------------------------------------
\* login: the tokens go to the tab's storage and the user is shown.
Login(t, u) ==
    /\ user[t] = NoUser
    /\ account[u] = "active"
    /\ \E n \in Unissued :
        /\ Issue(n, u)
        /\ store' = [store EXCEPT ![t] = n]
    /\ user' = [user EXCEPT ![t] = u]
    /\ UNCHANGED <<account, request, refreshing, leaving, undermined, incidents>>

\* A page asks for something, with the access token in the storage.
Call(t, q) ==
    /\ user[t] # NoUser
    /\ request[t][q] = "idle" /\ \A p \in 1..(q - 1) : request[t][p] # "idle"
    /\ Quantify(Tabs \X Calls, LAMBDA p : request[p[1]][p[2]] # "idle") < MaxInFlight
    /\ request' = [request EXCEPT ![t][q] = "sent"]
    /\ UNCHANGED <<server, user, store, refreshing, leaving, undermined, incidents>>

\* The server answers a request, or refuses it with a 401 (JwtStrategy): its access
\* token may have expired at any moment, so either may happen to any request.  One
\* that was sent again ends either way.
Serve(t, q) ==
    /\ \/ request[t][q] \in {"sent", "resent"} /\ request' = [request EXCEPT ![t][q] = "idle"]
       \/ request[t][q] = "sent" /\ request' = [request EXCEPT ![t][q] = "refused"]
    /\ UNCHANGED <<server, user, store, refreshing, leaving, undermined, incidents>>

\* Mutant: every refused request refreshes by itself.
HandleAlone(t, q) ==
    /\ request[t][q] = "refused"
    /\ request' = [request EXCEPT ![t][q] = "waiting"]
    /\ refreshing' = [refreshing EXCEPT ![t] =
           IF store[t] = NoPair THEN [NoRefresh EXCEPT !.stage = "failed"]
           ELSE [token |-> store[t], stage |-> "sent", pair |-> NoPair]]
    /\ undermined' = (undermined \/ t \in leaving)
    /\ UNCHANGED <<server, user, store, leaving, incidents>>

\* The interceptor takes the 401: it waits for the refresh under way, or starts one
\* with the refresh token in the storage, which a sign-out may just have revoked.
Handle(t, q) ==
    /\ request[t][q] = "refused"
    /\ request' = [request EXCEPT ![t][q] = "waiting"]
    /\ refreshing' = [refreshing EXCEPT ![t] =
           IF @ # NoRefresh THEN @
           ELSE IF store[t] = NoPair THEN [NoRefresh EXCEPT !.stage = "failed"]
           ELSE [token |-> store[t], stage |-> "sent", pair |-> NoPair]]
    /\ undermined' = (undermined \/ t \in leaving)
    /\ UNCHANGED <<server, user, store, leaving, incidents>>

-----------------------------------------------------------------------------
Refresh(t, stage) == refreshing' = [refreshing EXCEPT ![t].stage = stage]

\* refresh: a token that is known, not revoked and of an active user is found good;
\* one that was revoked has every live token of its user revoked.
Find(t) ==
    /\ refreshing[t].stage = "sent"
    /\ LET n == refreshing[t].token
       IN  IF row[n] = "live"
             THEN /\ Refresh(t, IF account[owner[n]] = "active" THEN "found" ELSE "failed")
                  /\ UNCHANGED row
             ELSE /\ Refresh(t, "failed")
                  /\ row' = IF row[n] = "gone" THEN row
                            ELSE [m \in Pairs |->
                                     IF row[m] = "live" /\ owner[m] = owner[n] THEN "revoked"
                                     ELSE row[m]]
    /\ UNCHANGED <<account, owner, user, store, request, leaving, undermined, incidents>>

\* issueTokens creates the row of the new pair, which an account removed meanwhile
\* prevents.
IssueNew(t) ==
    /\ refreshing[t].stage = "found"
    /\ LET u == owner[refreshing[t].token]
       IN  /\ account[u] # "removed"
           /\ \E n \in Unissued :
               /\ Issue(n, u)
               /\ refreshing' = [refreshing EXCEPT ![t].stage = "issued", ![t].pair = n]
    /\ UNCHANGED <<account, user, store, request, leaving, undermined, incidents>>

\* ... and then revokes the token presented.
Rotate(t) ==
    /\ refreshing[t].stage = "issued"
    /\ row[refreshing[t].token] # "gone"
    /\ row' = [row EXCEPT ![refreshing[t].token] = IF @ = "live" THEN "revoked" ELSE @]
    /\ Refresh(t, "done")
    /\ UNCHANGED <<account, owner, user, store, request, leaving, undermined, incidents>>

\* The database fails at either step, or the rows are gone with their user, or no
\* pair is left (bound): an error is answered.
Stumble(t) ==
    /\ refreshing[t].stage \in {"found", "issued"}
    /\ \/ Incident
       \/ /\ \/ refreshing[t].stage = "found" /\ Unissued = {}
             \/ account[owner[refreshing[t].token]] = "removed"
          /\ UNCHANGED incidents
    /\ Refresh(t, "failed")
    /\ UNCHANGED <<server, user, store, request, leaving, undermined>>

\* Mutant: the waiting requests are let go only when the refresh succeeded.
ResumeRenewed(t, state) ==
    /\ request' = [request EXCEPT ![t] =
           [q \in Calls |-> IF @[q] = "waiting" /\ state = "resent" THEN state ELSE @[q]]]
    /\ refreshing' = [refreshing EXCEPT ![t] = NoRefresh]

\* The requests that wait for the refresh go on.
Resume(t, state) ==
    /\ request' = [request EXCEPT ![t] =
           [q \in Calls |-> IF @[q] = "waiting" THEN state ELSE @[q]]]
    /\ refreshing' = [refreshing EXCEPT ![t] = NoRefresh]

\* The new pair arrives: it is stored, whoever is signed in by now, and the requests
\* that waited are sent again with it.
Renewed(t) ==
    /\ refreshing[t].stage = "done"
    /\ store' = [store EXCEPT ![t] = refreshing[t].pair]
    /\ Resume(t, "resent")
    /\ UNCHANGED <<server, user, leaving, undermined, incidents>>

\* The tab holds no token and shows nobody.
SignedOut(t) ==
    /\ store' = [store EXCEPT ![t] = NoPair]
    /\ user' = [user EXCEPT ![t] = NoUser]

\* The refresh failed: the tab is signed out and its requests end in an error.
NotRenewed(t) ==
    /\ refreshing[t].stage = "failed"
    /\ SignedOut(t)
    /\ Resume(t, "idle")
    /\ UNCHANGED <<server, leaving, undermined, incidents>>

\* The refresh, or its answer, is lost, and it fails for the tab.
LoseRefresh(t) ==
    /\ refreshing[t].stage \in {"sent", "done"}
    /\ Incident
    /\ Refresh(t, "failed")
    /\ UNCHANGED <<server, user, store, request, leaving, undermined>>

-----------------------------------------------------------------------------
\* Sign out: the server revokes the refresh token, unless the request is lost or the
\* access token no longer good; that 401 is not followed by a refresh.
Logout(t) ==
    /\ user[t] # NoUser /\ t \notin leaving
    /\ leaving' = leaving \union {t}
    /\ row' \in {row, [row EXCEPT ![store[t]] = IF @ = "live" THEN "revoked" ELSE @]}
    /\ undermined' = (undermined \/ refreshing[t] # NoRefresh)
    /\ UNCHANGED <<account, owner, user, store, request, refreshing, incidents>>

\* ... and the tab forgets its tokens either way.
Left(t) ==
    /\ t \in leaving
    /\ leaving' = leaving \ {t}
    /\ SignedOut(t)
    /\ UNCHANGED <<server, request, refreshing, undermined, incidents>>

\* The page is reloaded, or closed and opened again: what it waited for is lost, and
\* the user is whom the storage names.  The storage is cleared only once the server
\* has answered a sign-out (doLogout), so a page left before that still holds its
\* tokens.  A refresh that is lost at the server, or runs there to its end, counts as
\* one left at "sent" or at "done".
Reload(t) ==
    /\ user[t] # NoUser
    /\ refreshing[t].stage \in {"none", "sent", "done"}
    /\ Incident
    /\ request' = [request EXCEPT ![t] = [q \in Calls |-> "idle"]]
    /\ refreshing' = [refreshing EXCEPT ![t] = NoRefresh]
    /\ leaving' = leaving \ {t}
    /\ undermined' = (undermined \/ refreshing[t] # NoRefresh \/ t \in leaving)
    /\ UNCHANGED <<server, user, store>>

-----------------------------------------------------------------------------
\* setActive, or update.
SetActive(u, state) ==
    /\ account[u] # "removed" /\ account[u] # state
    /\ Incident
    /\ account' = [account EXCEPT ![u] = state]
    /\ UNCHANGED <<owner, row, tabs, undermined>>

\* changePassword revokes the user's live tokens with it.
ChangePassword(u) ==
    /\ account[u] # "removed"
    /\ Incident
    /\ row' = [n \in Pairs |-> IF row[n] = "live" /\ owner[n] = u THEN "revoked" ELSE row[n]]
    /\ undermined' = TRUE
    /\ UNCHANGED <<account, owner, tabs>>

\* remove: the user's tokens go with the account.
RemoveUser(u) ==
    /\ account[u] # "removed"
    /\ Incident
    /\ account' = [account EXCEPT ![u] = "removed"]
    /\ row' = [n \in Pairs |-> IF owner[n] = u THEN "gone" ELSE row[n]]
    /\ UNCHANGED <<owner, tabs, undermined>>

-----------------------------------------------------------------------------
\* The refresh of tab t goes on, at the server or back at the tab.
Refreshing(t) == \/ Find(t) \/ IssueNew(t) \/ Rotate(t) \/ Stumble(t)
                 \/ Renewed(t) \/ NotRenewed(t)

SessionsNext ==
    \/ \E t \in Tabs, u \in Users : Login(t, u)
    \/ \E t \in Tabs, q \in Calls : Call(t, q) \/ Serve(t, q) \/ Handle(t, q)
    \/ \E t \in Tabs : Refreshing(t) \/ LoseRefresh(t) \/ Logout(t) \/ Left(t) \/ Reload(t)
    \/ \E u \in Users, state \in {"active", "inactive"} : SetActive(u, state)
    \/ \E u \in Users : ChangePassword(u) \/ RemoveUser(u)

SessionsSpec == SessionsInit /\ [][SessionsNext]_sessionsVars

\* The server answers what reaches it and the page takes the answers.
SessionsFairness ==
    \A t \in Tabs :
        /\ WF_sessionsVars(Refreshing(t))
        /\ \A q \in Calls : WF_sessionsVars(Serve(t, q)) /\ WF_sessionsVars(Handle(t, q))

SessionsFairSpec == SessionsSpec /\ SessionsFairness

-----------------------------------------------------------------------------
\* Tokens, tabs and requests are well formed; a request waits only while its tab's
\* refresh is under way, and what a tab holds has been issued.
SessionsTypeOK ==
    /\ account \in [Users -> {"active", "inactive", "removed"}]
    /\ owner \in [Pairs -> Users \union {NoUser}]
    /\ row \in [Pairs -> Rows]
    /\ user \in [Tabs -> Users \union {NoUser}]
    /\ store \in [Tabs -> Pairs \union {NoPair}]
    /\ request \in [Tabs -> [Calls -> {"idle", "sent", "refused", "waiting", "resent"}]]
    /\ \A t \in Tabs :
        /\ refreshing[t].stage \in {"none", "failed"} \/ refreshing[t] \in Refreshes
        /\ (\E q \in Calls : request[t][q] = "waiting") <=> refreshing[t] # NoRefresh
        /\ store[t] # NoPair => row[store[t]] # "unissued"
        /\ user[t] # NoUser => store[t] # NoPair
    /\ leaving \subseteq Tabs /\ undermined \in BOOLEAN /\ incidents \in 0..MaxIncidents

\* Nobody is thrown out for nothing: the token a tab holds is one the server takes,
\* unless the tab is signing out, rotating it now, or the account is gone.  So reuse
\* detection meets no token of an honest tab, however many of its requests are
\* refused together, whatever is lost or fails, and when accounts are deactivated
\* (api.ts's one refresh for all the requests that wait; AuthService.refresh).  It
\* takes that no page is left in the middle of a refresh, or of signing out (the
\* server has revoked the token, the storage still holds it); no password reset; and
\* no refresh under way while its tab signs out: each leaves a tab with a revoked
\* token, whose next refresh ends every session of the user, new ones too.
HeldTokenStands ==
    ~undermined => \A t \in Tabs :
        store[t] # NoPair =>
            \/ row[store[t]] \in {"live", "gone"}
            \/ t \in leaving
            \/ refreshing[t].token = store[t] /\ refreshing[t].stage \in {"done", "failed"}

\* Every request ends, in an answer or an error, however many wait for one refresh
\* and whatever becomes of it (api.ts retries once).
EveryCallEnds ==
    \A t \in Tabs, q \in Calls : request[t][q] # "idle" ~> request[t][q] = "idle"
-----------------------------------------------------------------------------
\* What the repository says and the code does not keep.
\* README.md:227: "Logout revokes the presented refresh token."  The route asks for
\* a good access token, and the 401 of one that has expired is not followed by a
\* refresh: the tab forgets a token that stays good at the server.
LogoutRevokes ==
    [][\A t \in Tabs : Left(t) /\ store[t] # NoPair => row[store[t]] # "live"]_sessionsVars

\* README.md:227-228: "password reset revokes all sessions for the user."  A refresh
\* that found its token good before the reset issues a live pair after it.
IssuedAgainstLive ==
    [][\A t \in Tabs : IssueNew(t) => row[refreshing[t].token] = "live"]_sessionsVars
=============================================================================
