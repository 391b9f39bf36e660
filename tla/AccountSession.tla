----------------------------- MODULE AccountSession -----------------------------
(***************************************************************************)
(* The browser's side of a session: the account page, the login and        *)
(* registration form, and what every private page (wardrobe, plans, wear   *)
(* events) does when its session is gone (components/account,              *)
(* hooks/account, the 401 effects and error handlers of the views).  All   *)
(* of them share one query cache and one cookie; a request goes on when    *)
(* its page is left, and its reply still changes the cache, the cookie and *)
(* the address.  The name and e-mail of an account are one content; that   *)
(* e-mails are unique and verified, and the fields' own checks, are left   *)
(* out.                                                                    *)
(***************************************************************************)
EXTENDS Naturals, FiniteSets, Sequences

CONSTANTS Users,        \* accounts
          Registered,   \* those that exist at first
          Contents,     \* what the fields of an account may say
          None,         \* nothing known, read, asked or stored
          MaxVisits,    \* bound on the pages the owner opens or has read again
          MaxRequests,  \* bound on the requests the owner sends
          Disturbances  \* bound on failures and changes made elsewhere

Rows  == [id : Users, revision : Nat \ {0}, content : Contents]
Views == [data : Rows \union {None}, error : {"none", "unauthorized", "failed"}]
Reads == [token : Nat \union {None}, reply : Views \union {None}]

ASSUME UsersAssumption == Registered \subseteq Users /\ Registered # {} /\ Contents # {}
ASSUME NoneAssumption == None \notin Users \union Rows \union Reads
ASSUME BoundAssumption == {MaxVisits, MaxRequests, Disturbances} \subseteq Nat

VARIABLES page,     \* the page that is open
          me,       \* the cached current user: row and error
          read,     \* the request for it that is awaited
          lists,    \* whose private lists are cached
          listing,  \* the request for them that is awaited
          draft,    \* what the owner typed, and for which row
          op,       \* the request the open page waits for
          orphans,  \* requests whose page has been left
          ghosts,   \* cookies of reads that were dropped and are still answered
          cookie,   \* the token the browser sends
          issued,   \* server: whose session each token is
          live,     \* server: tokens of live sessions
          users,    \* server: account rows
          bounds    \* visits, requests and disturbances left

cache  == <<me, read, lists, listing, ghosts>>
server == <<issued, live, users>>
vars   == <<page, cache, draft, op, orphans, cookie, server, bounds>>

Spends(what) == bounds[what] > 0 /\ bounds' = [bounds EXCEPT ![what] = @ - 1]

-----------------------------------------------------------------------------
(* The query cache *)

\* useCurrentUser: pending, or a row, an error, or the row an error came after.
Unknown == [data |-> None, error |-> "none"]
Known(row) == [data |-> row, error |-> "none"]

Sent(token) == [token |-> token, reply |-> None]

EmptiedCurrent(row, token) ==   \* mutant: only the current user is replaced
  /\ me' = row
  /\ read' = Sent(token)
  /\ ghosts' = ghosts \union ({r.token : r \in {read} \ {None}} \ {None})
  /\ UNCHANGED <<lists, listing>>

\* queryClient.clear(): all that is cached goes, and no reply on its way is
\* taken; what the page still shows of it is read again.
Emptied(row, token) ==
  /\ me' = row
  /\ read' = Sent(token)
  /\ lists' = None /\ listing' = None
  /\ ghosts' = ghosts \union ({r.token : r \in {read, listing} \ {None}} \ {None})

Cleared(token) == Emptied(Unknown, token)

Init ==
  /\ page \in {"auth", "account", "private"}
  /\ me = Unknown /\ lists = None /\ listing = None
  /\ draft = None /\ op = None /\ orphans = {} /\ ghosts = {}
  /\ users = [u \in Users |->
       IF u \in Registered THEN [id |-> u, revision |-> 1, content |-> CHOOSE c \in Contents : TRUE]
       ELSE None]
  /\ issued \in {<<u>> : u \in Registered} /\ live = {1}
  /\ cookie \in {1, None}
  /\ read = Sent(cookie)
  /\ bounds = [visits |-> MaxVisits, requests |-> MaxRequests, disturbances |-> Disturbances]

Live(token) == token \in live

\* The cookie after a reply that says the session of this token is gone.
Expired(token) == IF token = None THEN cookie ELSE None

\* What a page shows is read again when the browser reconnects or the owner asks.
Read ==
  /\ page # "receipt" /\ read = None
  /\ Spends("visits")
  /\ read' = Sent(cookie)
  /\ me' = IF me.data = None THEN Unknown ELSE me
  /\ UNCHANGED <<page, lists, listing, ghosts, draft, op, orphans, cookie, server>>

ReadAnswered ==
  /\ read # None /\ read.reply = None
  /\ \/ /\ read' = [read EXCEPT !.reply =
             IF Live(read.token) THEN Known(users[issued[read.token]])
             ELSE [data |-> None, error |-> "unauthorized"]]
        /\ UNCHANGED bounds
     \/ /\ read' = [read EXCEPT !.reply = [data |-> None, error |-> "failed"]]
        /\ Spends("disturbances")
  /\ UNCHANGED <<page, me, lists, listing, ghosts, draft, op, orphans, cookie, server>>

\* An error leaves the row that was read before.
ReadShown ==
  /\ read # None /\ read.reply # None
  /\ read' = None
  /\ me' = IF read.reply.error = "none" THEN read.reply ELSE [me EXCEPT !.error = read.reply.error]
  /\ cookie' = IF read.reply.error = "unauthorized" THEN Expired(read.token) ELSE cookie
  /\ UNCHANGED <<page, lists, listing, ghosts, draft, op, orphans, server, bounds>>

\* A read that was dropped is answered all the same, and may expire the cookie.
GhostAnswered(token) ==
  /\ ghosts' = ghosts \ {token}
  /\ cookie' = IF Live(token) THEN cookie ELSE None
  /\ UNCHANGED <<page, me, read, lists, listing, draft, op, orphans, server, bounds>>

-----------------------------------------------------------------------------
(* Pages *)

\* A page is replaced: its state is gone, and a request it waits for, other
\* than the one just answered, goes on without it.
Go(p, answered) ==
  /\ page' = p
  /\ IF p = page
     THEN /\ op' = IF op = answered THEN None ELSE op
          /\ orphans' = orphans \ {answered}
          /\ UNCHANGED draft
     ELSE /\ op' = None
          /\ orphans' = (orphans \union {op}) \ {None, answered}
          /\ draft' = None

\* A page that is opened reads the account, unless that is under way.
Opened(p) ==
  /\ Go(p, None)
  /\ read' = IF read = None THEN Sent(cookie) ELSE read
  /\ me' = IF read = None /\ me.data = None THEN Unknown ELSE me
  /\ UNCHANGED <<lists, listing, ghosts, cookie, server>>

Visit(p) ==
  /\ p # page
  /\ Spends("visits")
  /\ Opened(p)

\* AuthForm's effect: who has a session is sent to the account page.
AlreadyIn ==
  /\ page = "auth" /\ me.data # None
  /\ Opened("account")
  /\ UNCHANGED bounds

SessionLostUncleared ==   \* mutant: the effect only changes the address
  /\ page \in {"account", "private"} /\ me.error = "unauthorized"
  /\ Opened("auth")
  /\ UNCHANGED bounds

\* The effect of the account page, unless it shows a deletion receipt, and of
\* the private pages: a session that is gone empties the cache.
SessionLost ==
  /\ page \in {"account", "private"} /\ me.error = "unauthorized"
  /\ Cleared(cookie)
  /\ Go("auth", None)
  /\ UNCHANGED <<cookie, server, bounds>>

\* The private lists are read once the account is known, and again like it.
ReadLists ==
  /\ page = "private" /\ me.data # None /\ listing = None
  /\ IF lists = None THEN UNCHANGED bounds ELSE Spends("visits")
  /\ listing' = Sent(cookie)
  /\ UNCHANGED <<page, me, read, lists, ghosts, draft, op, orphans, cookie, server>>

ListsShown ==
  /\ listing # None /\ Live(listing.token)
  /\ lists' = issued[listing.token]
  /\ listing' = None
  /\ UNCHANGED <<page, me, read, ghosts, draft, op, orphans, cookie, server, bounds>>

ListsRefused ==
  /\ listing # None /\ ~Live(listing.token)
  /\ cookie' = Expired(listing.token)
  /\ IF page = "private"
     THEN Cleared(cookie') /\ Go("auth", None)
     ELSE listing' = None /\ UNCHANGED <<page, me, read, lists, ghosts, draft, op, orphans>>
  /\ UNCHANGED <<server, bounds>>

-----------------------------------------------------------------------------
(* The owner *)

\* The forms exist only past the gates of their pages.
SignInOpen  == page = "auth" /\ me.data = None /\ me.error = "unauthorized"
AccountOpen == page = "account" /\ me.data # None /\ me.error = "none"
PrivateOpen == page = "private" /\ me.data # None /\ me.error = "none"

KeyByUser(row) == row.id   \* mutant: a draft survives a new revision

\* userKey: a draft is one of a row and its revision.
Key(row) == <<row.id, row.revision>>

DraftShown == draft # None /\ draft.key = Key(me.data)

Type ==
  /\ AccountOpen
  /\ \E content \in Contents :
       draft' = [key |-> Key(me.data), content |-> content,
                 from |-> IF DraftShown THEN draft.from ELSE me.data]
  /\ UNCHANGED <<page, cache, op, orphans, cookie, server, bounds>>

\* A record with the fields of another added or replaced.
Joined(new, old) ==
  [field \in DOMAIN new \union DOMAIN old |->
     IF field \in DOMAIN new THEN new[field] ELSE old[field]]

\* A request keeps the cookie it was sent with and the row it was sent from.
Ask(request) ==
  /\ op = None
  /\ Spends("requests")
  /\ op' = Joined(request, [no |-> bounds.requests, token |-> cookie, fate |-> "sent"])
  /\ UNCHANGED <<page, cache, draft, orphans, cookie, server>>

\* What the fields of AuthForm, once they are all right, ask for.
Credentials == [kind : {"login", "register"}, user : Users]

SignIn == SignInOpen /\ \E c \in Credentials : Ask(c)

Save ==
  /\ AccountOpen
  /\ Ask([kind |-> "update", base |-> me.data,
          content |-> IF DraftShown THEN draft.content ELSE me.data.content,
          from |-> IF DraftShown THEN draft.from ELSE me.data])

Logout == AccountOpen /\ Ask([kind |-> "logout"])
Remove == AccountOpen /\ Ask([kind |-> "delete"])
Write  == PrivateOpen /\ Ask([kind |-> "write"])

-----------------------------------------------------------------------------
(* The server *)

\* A request that is still to be answered becomes one with its answer.
Answered(o, answer) ==
  IF o = op THEN op' = Joined(answer, o) /\ UNCHANGED orphans
  ELSE orphans' = (orphans \ {o}) \union {Joined(answer, o)} /\ UNCHANGED op

Refused(o, fate) == Answered(o, [fate |-> fate]) /\ UNCHANGED server

\* A new account has an id of its own (uuid.NewString): one that was deleted
\* does not come back.
Unused(u) == users[u] = None /\ \A t \in DOMAIN issued : issued[t] # u

\* A wrong password and an e-mail that is taken are refused.
Admitted(o) == IF o.kind = "login" THEN users[o.user] # None ELSE Unused(o.user)

\* Registering makes the account; both make a session.
Enter(o) ==
  /\ o.kind \in {"login", "register"}
  /\ IF Admitted(o)
     THEN /\ users' = [users EXCEPT ![o.user] =
               IF o.kind = "login" THEN @
               ELSE [id |-> o.user, revision |-> 1, content |-> CHOOSE c \in Contents : TRUE]]
          /\ issued' = Append(issued, o.user)
          /\ live' = live \union {Len(issued')}
          /\ Answered(o, [fate |-> "done", row |-> users'[o.user], session |-> Len(issued')])
     ELSE Refused(o, "refused")

Owner(o) == users[issued[o.token]]

\* UpdateUser: the fields are replaced and the revision moves.
Revised(row, content) == [row EXCEPT !.content = content, !.revision = @ + 1]

Change(o) ==
  /\ o.kind = "update" /\ Live(o.token)
  /\ IF Owner(o).revision = o.base.revision
     THEN /\ users' = [users EXCEPT ![issued[o.token]] = Revised(@, o.content)]
          /\ Answered(o, [fate |-> "done", row |-> users'[issued[o.token]]])
          /\ UNCHANGED <<issued, live>>
     ELSE Refused(o, "refused")

EndSession(o) ==
  /\ o.kind = "logout" /\ Live(o.token)
  /\ live' = live \ {o.token}
  /\ Answered(o, [fate |-> "done"])
  /\ UNCHANGED <<issued, users>>

\* BeginAccountDeletion revokes every session of the account.
DeleteAccount(o) ==
  /\ o.kind = "delete" /\ Live(o.token)
  /\ users' = [users EXCEPT ![issued[o.token]] = None]
  /\ live' = {t \in live : issued[t] # issued[o.token]}
  /\ Answered(o, [fate |-> "done"])
  /\ UNCHANGED issued

Written(o) ==
  /\ o.kind = "write" /\ Live(o.token)
  /\ Answered(o, [fate |-> "done"])
  /\ UNCHANGED server

Unauthorized(o) ==
  /\ o.kind \in {"update", "logout", "delete", "write"} /\ ~Live(o.token)
  /\ Refused(o, "unauthorized")

Handle(o) ==
  /\ o.fate = "sent"
  /\ \/ Enter(o) \/ Change(o) \/ EndSession(o) \/ DeleteAccount(o) \/ Written(o)
     \/ Unauthorized(o)
  /\ UNCHANGED <<page, cache, draft, cookie, bounds>>

\* A session expires or is revoked, or the account changes, elsewhere.
Elsewhere ==
  /\ Spends("disturbances")
  /\ \/ \E token \in live : live' = live \ {token} /\ UNCHANGED users
     \/ \E u \in {v \in Users : users[v] # None}, content \in Contents :
          /\ users' = [users EXCEPT ![u] = Revised(@, content)]
          /\ UNCHANGED live
  /\ UNCHANGED <<page, cache, draft, op, orphans, cookie, issued>>

-----------------------------------------------------------------------------
(* Replies, to the page that waits or to one that has been left *)

\* register and login: the cache is emptied before the new account is put in.
SignedIn(o) ==
  /\ o.kind \in {"login", "register"} /\ o.fate = "done"
  /\ cookie' = o.session
  /\ Emptied(Known(o.row), cookie')
  /\ Go("account", o)

\* update: the row answered is the row shown; a read on its way goes on.
Saved(o) ==
  /\ o.kind = "update" /\ o.fate = "done"
  /\ me' = Known(o.row)
  /\ Go(page, o)
  /\ UNCHANGED <<read, lists, listing, ghosts, cookie>>

LoggedOut(o) ==
  /\ o.kind = "logout" /\ o.fate = "done"
  /\ cookie' = None
  /\ Cleared(cookie')
  /\ Go("auth", o)

\* remove: the receipt is shown by the page that asked, if it is still there.
Removed(o) ==
  /\ o.kind = "delete" /\ o.fate = "done"
  /\ cookie' = None
  /\ Cleared(cookie')
  /\ Go(IF o = op THEN "receipt" ELSE page, o)

\* save, remove and the views' showError; logout shows the error like any other.
TurnedAway(o) ==
  /\ o.fate = "unauthorized" /\ o.kind # "logout"
  /\ cookie' = Expired(o.token)
  /\ Cleared(cookie')
  /\ Go("auth", o)

LogoutRefused(o) ==
  /\ o.fate = "unauthorized" /\ o.kind = "logout"
  /\ cookie' = Expired(o.token)
  /\ Go(page, o)
  /\ UNCHANGED cache

NothingChanged(o) ==
  /\ o.fate = "refused" \/ (o.fate = "done" /\ o.kind = "write")
  /\ Go(page, o)
  /\ UNCHANGED <<cache, cookie>>

ReplyShown(o) ==
  /\ \/ SignedIn(o) \/ Saved(o) \/ LoggedOut(o) \/ Removed(o)
     \/ TurnedAway(o) \/ LogoutRefused(o) \/ NothingChanged(o)
  /\ UNCHANGED <<server, bounds>>

\* The request is not handled, or its reply is lost: an error is shown.
ReplyFails(o) ==
  /\ Spends("disturbances")
  /\ Go(page, o)
  /\ UNCHANGED <<cache, cookie, server>>

-----------------------------------------------------------------------------
Asked == (orphans \union {op}) \ {None}

Next ==
  \/ \E p \in {"auth", "account", "private"} : Visit(p)
  \/ AlreadyIn \/ SessionLost
  \/ Read \/ ReadAnswered \/ ReadShown
  \/ ReadLists \/ ListsShown \/ ListsRefused
  \/ \E token \in ghosts : GhostAnswered(token)
  \/ Type \/ SignIn \/ Save \/ Logout \/ Remove \/ Write
  \/ \E o \in Asked : Handle(o) \/ ReplyShown(o) \/ ReplyFails(o)
  \/ Elsewhere

Spec == Init /\ [][Next]_vars

\* Effects run, and every request awaited ends; nothing is assumed of the owner
\* or of the other devices.
Fairness ==
  /\ WF_vars(AlreadyIn) /\ WF_vars(SessionLost)
  /\ WF_vars(ReadAnswered \/ ReadShown)
  /\ WF_vars(ListsShown \/ ListsRefused)
  /\ WF_vars(\E o \in Asked : Handle(o) \/ ReplyShown(o) \/ ReplyFails(o))

FairSpec == Spec /\ Fairness

-----------------------------------------------------------------------------
(* Correctness *)

Tokens == 1 .. Len(issued)

\* Types of the state.
TypeOK ==
  /\ page \in {"auth", "account", "private", "receipt"}
  /\ me \in Views /\ (me = Unknown => read # None)
  /\ lists \in Users \union {None}
  /\ cookie \in Tokens \union {None} /\ live \union ghosts \subseteq Tokens
  /\ \A r \in {read, listing} \ {None} : r.token \in Tokens \union {None}
  /\ \A o \in Asked : o.token \in Tokens \union {None}
  /\ users \in [Users -> Rows \union {None}]
  /\ \A u \in Users : users[u] # None => users[u].id = u

\* The private lists in the cache are those of the account the browser is
\* signed in to, whatever was on its way when the accounts changed ("the
\* client's cache is cleared when logging out or changing identity",
\* PROJECT.md, 4.5).
ListsAreOfTheSession == lists # None /\ cookie # None => lists = issued[cookie]

\* The same of the account itself.
MeIsOfTheSession == me.data # None /\ cookie # None => me.data.id = issued[cookie]

\* What is saved for an account replaces the row of it that was on the page
\* when the owner began to type: an account changed elsewhere and read again
\* meanwhile is not overwritten by a draft of before (userKey in AccountView).
DraftIsOfTheRowReplaced ==
  [][ \A o \in Asked \ Asked' :
        o.kind = "update" /\ users' # users /\ o.from.id = issued[o.token]
          => o.from = users[o.from.id] ]_vars

\* A form goes to the account it is of.  It does not: see MeIsOfTheSession.
SavedToItsAccount ==
  [][ \A o \in Asked \ Asked' :
        o.kind = "update" /\ users' # users => o.from.id = issued[o.token] ]_vars

\* Leaving by a logout is leaving: when its reply says that the session is
\* gone, one way or the other, nothing of the account stays in the cache.
LogoutClears ==
  [][ op # None /\ op.kind = "logout" /\ op.fate # "sent"
        /\ op' = None /\ orphans' = orphans /\ bounds' = bounds => me'.data = None ]_vars

\* The pages do not send one another to and fro: who is signed in on one page
\* is so on the next (the effects of AuthForm, AccountView and the views).
NavigationSettles == <>[][page' = page]_vars

=============================================================================
