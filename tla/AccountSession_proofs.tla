------------------------- MODULE AccountSession_proofs -------------------------
(***************************************************************************)
(* A theorem about AccountSession, for any accounts and any number of      *)
(* pages, requests, sessions, failures and changes made elsewhere.         *)
(***************************************************************************)
EXTENDS AccountSession, SequenceTheorems, TLAPS

-----------------------------------------------------------------------------
(* The cookie and what was read with it.  A read of the lists keeps the     *)
(* cookie it was sent with; the cookie only ever goes, or is replaced when  *)
(* the cache is emptied.                                                    *)

Entering == {"login", "register"}

\* Who signs in, and the session a login was given.
IsAsked(tokens, o) ==
  /\ {"kind", "fate"} \subseteq DOMAIN o
  /\ o.kind \in Entering => "user" \in DOMAIN o /\ o.user \in Users
  /\ o.kind \in Entering /\ o.fate = "done" => o.session \in tokens

AskedInv == \A o \in Asked : IsAsked(Tokens, o)

SessionInv ==
  /\ issued \in Seq(Users)
  /\ cookie # None => cookie \in Tokens
  /\ ListsAreOfTheSession
  /\ listing # None /\ cookie # None => listing.token = cookie
  /\ AskedInv

\* Leaving a page, or answering its request, adds nothing to what was asked.
LEMMA GoAsks ==
  ASSUME NEW p, NEW answered, Go(p, answered)
  PROVE  Asked' \subseteq Asked
BY DEF Go, Asked

LEMMA CookieStaysOrGoes ==
  ASSUME SessionInv, issued' = issued, cookie' \in {cookie, None}, Asked' \subseteq Asked,
         \/ lists' = lists /\ listing' \in {listing, None}
         \/ lists' = None /\ listing' = None
  PROVE  SessionInv'
<1>1. Tokens' = Tokens
  BY DEF Tokens
<1>2. AskedInv'
  BY <1>1 DEF AskedInv, SessionInv
<1> QED BY <1>1, <1>2 DEF SessionInv, ListsAreOfTheSession

\* What is asked is one of the owner's requests, not answered yet.
LEMMA AskedAnew ==
  ASSUME SessionInv, NEW request, Ask(request), "kind" \in DOMAIN request,
         "fate" \notin DOMAIN request,
         request.kind \in Entering => "user" \in DOMAIN request /\ request.user \in Users
  PROVE  SessionInv'
<1>1. /\ issued' = issued /\ cookie' = cookie /\ lists' = lists /\ listing' = listing
      /\ orphans' = orphans
  BY DEF Ask, cache, server
<1>2. Tokens' = Tokens
  BY <1>1 DEF Tokens
<1>3. IsAsked(Tokens, op')
  <2>1. op' = Joined(request, [no |-> bounds.requests, token |-> cookie, fate |-> "sent"])
    BY DEF Ask
  <2>2. /\ DOMAIN op' = DOMAIN request \union {"no", "token", "fate"}
        /\ \A x \in DOMAIN request : op'[x] = request[x]
        /\ op'.fate = "sent"
    BY <2>1 DEF Joined
  <2> QED BY <2>2 DEF IsAsked
<1>4. AskedInv'
  BY <1>1, <1>2, <1>3 DEF AskedInv, SessionInv, Asked
<1> QED BY <1>1, <1>2, <1>4 DEF SessionInv, ListsAreOfTheSession

-----------------------------------------------------------------------------
(* The server's answers.                                                    *)

LEMMA AnswerKept ==
  ASSUME NEW tokens, NEW o, NEW answer, Answered(o, answer),
         \A q \in Asked : IsAsked(tokens, q), IsAsked(tokens, Joined(answer, o))
  PROVE  \A q \in Asked' : IsAsked(tokens, q)
BY DEF Answered, Asked

\* An answer without a session, to a request that asks for none or is refused.
LEMMA PlainAnswer ==
  ASSUME NEW tokens, NEW o, NEW answer, IsAsked(tokens, o),
         "kind" \notin DOMAIN answer, "user" \notin DOMAIN answer, "fate" \in DOMAIN answer,
         o.kind \notin Entering \/ answer.fate # "done"
  PROVE  IsAsked(tokens, Joined(answer, o))
<1> DEFINE a == Joined(answer, o)
<1>1. /\ DOMAIN a = DOMAIN answer \union DOMAIN o
      /\ \A x \in DOMAIN a : a[x] = IF x \in DOMAIN answer THEN answer[x] ELSE o[x]
  BY DEF Joined
<1>2. /\ a.kind = o.kind /\ a.fate = answer.fate
      /\ "user" \in DOMAIN o => "user" \in DOMAIN a /\ a.user = o.user
  BY <1>1 DEF IsAsked
<1> HIDE DEF a
<1>3. IsAsked(tokens, a)
  BY <1>1, <1>2 DEF IsAsked
<1> QED BY <1>3 DEF a

LEMMA EnterKeeps ==
  ASSUME SessionInv, NEW o \in Asked, o.fate = "sent", Enter(o),
         cookie' = cookie, lists' = lists, listing' = listing
  PROVE  SessionInv'
<1>1. IsAsked(Tokens, o) /\ o.kind \in Entering
  BY DEF SessionInv, AskedInv, Enter, Entering
<1>2. CASE Admitted(o)
  <2> DEFINE answer == [fate |-> "done", row |-> users'[o.user], session |-> Len(issued')]
  <2>1. issued' = Append(issued, o.user) /\ Answered(o, answer)
    BY <1>2 DEF Enter
  <2>2. o.user \in Users /\ issued \in Seq(Users)
    BY <1>1 DEF IsAsked, SessionInv
  <2>3. /\ issued' \in Seq(Users) /\ Len(issued') = Len(issued) + 1 /\ Len(issued) \in Nat
        /\ \A i \in 1 .. Len(issued) : issued'[i] = issued[i]
    BY <2>1, <2>2, AppendProperties, LenProperties
  <2>4. Tokens \subseteq Tokens' /\ Len(issued') \in Tokens'
    BY <2>3 DEF Tokens
  <2>5. IsAsked(Tokens', Joined(answer, o))
    <3> DEFINE a == Joined(answer, o)
    <3>1. /\ DOMAIN a = {"fate", "row", "session"} \union DOMAIN o
          /\ \A x \in DOMAIN a : a[x] = IF x \in {"fate", "row", "session"} THEN answer[x] ELSE o[x]
      BY DEF Joined
    <3>2. /\ a.kind = o.kind /\ a.session = Len(issued') /\ "user" \in DOMAIN a /\ a.user = o.user
      BY <1>1, <3>1 DEF IsAsked
    <3> HIDE DEF a
    <3>3. IsAsked(Tokens', a)
      BY <1>1, <2>2, <2>4, <3>1, <3>2 DEF IsAsked
    <3> QED BY <3>3 DEF a
  <2>6. \A q \in Asked : IsAsked(Tokens', q)
    BY <2>4 DEF SessionInv, AskedInv, IsAsked
  <2>7. AskedInv'
    <3> HIDE DEF answer
    <3> QED BY <2>1, <2>5, <2>6, AnswerKept DEF AskedInv
  <2> QED BY <2>3, <2>4, <2>7 DEF SessionInv, ListsAreOfTheSession, Tokens
<1>3. CASE ~Admitted(o)
  <2>1. Answered(o, [fate |-> "refused"]) /\ issued' = issued
    BY <1>3 DEF Enter, Refused, server
  <2>2. IsAsked(Tokens, Joined([fate |-> "refused"], o))
    BY <1>1, PlainAnswer
  <2>3. AskedInv'
    BY <2>1, <2>2, AnswerKept DEF SessionInv, AskedInv, Tokens
  <2> QED BY <2>1, <2>3 DEF SessionInv, ListsAreOfTheSession, Tokens
<1> QED BY <1>2, <1>3

LEMMA HandleKeeps ==
  ASSUME SessionInv, NEW o \in Asked, Handle(o)
  PROVE  SessionInv'
<1>0. cookie' = cookie /\ lists' = lists /\ listing' = listing /\ o.fate = "sent"
  BY DEF Handle, cache
<1>1. IsAsked(Tokens, o)
  BY DEF SessionInv, AskedInv
<1>2. CASE Enter(o)
  BY <1>0, <1>2, EnterKeeps
<1>3. CASE Change(o) \/ EndSession(o) \/ DeleteAccount(o) \/ Written(o) \/ Unauthorized(o)
  <2>1. o.kind \notin Entering /\ issued' = issued
    BY <1>3 DEF Change, EndSession, DeleteAccount, Written, Unauthorized, Refused, server, Entering
  <2>2. PICK answer : /\ Answered(o, answer)
                      /\ "kind" \notin DOMAIN answer /\ "user" \notin DOMAIN answer
                      /\ "fate" \in DOMAIN answer
    <3>1. ASSUME NEW fate, Answered(o, [fate |-> fate])
          PROVE  \E answer : /\ Answered(o, answer)
                             /\ "kind" \notin DOMAIN answer /\ "user" \notin DOMAIN answer
                             /\ "fate" \in DOMAIN answer
      <4> DEFINE answer == [fate |-> fate]
      <4>1. DOMAIN answer = {"fate"} /\ Answered(o, answer)
        BY <3>1
      <4> HIDE DEF answer
      <4> QED BY <4>1
    <3>2. ASSUME NEW row, Answered(o, [fate |-> "done", row |-> row])
          PROVE  \E answer : /\ Answered(o, answer)
                             /\ "kind" \notin DOMAIN answer /\ "user" \notin DOMAIN answer
                             /\ "fate" \in DOMAIN answer
      <4> DEFINE answer == [fate |-> "done", row |-> row]
      <4>1. DOMAIN answer = {"fate", "row"} /\ Answered(o, answer)
        BY <3>2
      <4> HIDE DEF answer
      <4> QED BY <4>1
    <3> QED BY <1>3, <3>1, <3>2
            DEF Change, EndSession, DeleteAccount, Written, Unauthorized, Refused
  <2>3. IsAsked(Tokens, Joined(answer, o))
    BY <1>1, <2>1, <2>2, PlainAnswer
  <2>4. AskedInv'
    BY <2>1, <2>2, <2>3, AnswerKept DEF SessionInv, AskedInv, Tokens
  <2> QED BY <1>0, <2>1, <2>4 DEF SessionInv, ListsAreOfTheSession, Tokens
<1> QED BY <1>2, <1>3 DEF Handle

-----------------------------------------------------------------------------
(* Replies.                                                                 *)

LEMMA ReplyKeeps ==
  ASSUME SessionInv, NEW o \in Asked, ReplyShown(o) \/ ReplyFails(o)
  PROVE  SessionInv'
<1>0. issued' = issued
  BY DEF ReplyShown, ReplyFails, server
<1>1. Asked' \subseteq Asked
  BY GoAsks DEF ReplyShown, ReplyFails, SignedIn, Saved, LoggedOut, Removed, TurnedAway,
                LogoutRefused, NothingChanged
<1>2. CASE SignedIn(o)
  <2>1. cookie' = o.session /\ lists' = None /\ listing' = None
    BY <1>2 DEF SignedIn, Emptied
  <2>2. o.session \in Tokens
    BY <1>2 DEF SignedIn, SessionInv, AskedInv, IsAsked, Entering
  <2>3. AskedInv'
    BY <1>0, <1>1 DEF SessionInv, AskedInv, Tokens
  <2> QED BY <1>0, <2>1, <2>2, <2>3 DEF SessionInv, ListsAreOfTheSession, Tokens
<1>3. CASE LoggedOut(o) \/ Removed(o) \/ TurnedAway(o)
  <2>1. cookie' \in {cookie, None} /\ lists' = None /\ listing' = None
    BY <1>3 DEF LoggedOut, Removed, TurnedAway, Cleared, Emptied, Expired
  <2> QED BY <1>0, <1>1, <2>1, CookieStaysOrGoes
<1>4. CASE Saved(o) \/ LogoutRefused(o) \/ NothingChanged(o) \/ ReplyFails(o)
  <2>1. cookie' \in {cookie, None} /\ lists' = lists /\ listing' = listing
    BY <1>4 DEF Saved, LogoutRefused, NothingChanged, ReplyFails, Expired, cache
  <2> QED BY <1>0, <1>1, <2>1, CookieStaysOrGoes
<1> QED BY <1>2, <1>3, <1>4 DEF ReplyShown

-----------------------------------------------------------------------------
(* The pages.                                                               *)

LEMMA PageKeeps ==
  ASSUME SessionInv,
         \/ \E p \in {"auth", "account", "private"} : Visit(p)
         \/ AlreadyIn \/ SessionLost \/ ListsRefused
  PROVE  SessionInv'
<1>1. CASE AlreadyIn \/ \E p \in {"auth", "account", "private"} : Visit(p)
  <2>1. PICK p : Opened(p)
    BY <1>1 DEF AlreadyIn, Visit
  <2>2. /\ issued' = issued /\ cookie' = cookie /\ lists' = lists /\ listing' = listing
        /\ Asked' \subseteq Asked
    BY <2>1, GoAsks DEF Opened, server
  <2> QED BY <2>2, CookieStaysOrGoes
<1>2. CASE SessionLost
  <2>1. /\ issued' = issued /\ cookie' = cookie /\ lists' = None /\ listing' = None
        /\ Asked' \subseteq Asked
    BY <1>2, GoAsks DEF SessionLost, Cleared, Emptied, server
  <2> QED BY <2>1, CookieStaysOrGoes
<1>3. CASE ListsRefused
  <2>1. issued' = issued /\ cookie' \in {cookie, None}
    BY <1>3 DEF ListsRefused, Expired, server
  <2>2. CASE page = "private"
    <3>1. lists' = None /\ listing' = None /\ Asked' \subseteq Asked
      BY <1>3, <2>2, GoAsks DEF ListsRefused, Cleared, Emptied
    <3> QED BY <2>1, <3>1, CookieStaysOrGoes
  <2>3. CASE page # "private"
    <3>1. lists' = lists /\ listing' = None /\ Asked' \subseteq Asked
      BY <1>3, <2>3 DEF ListsRefused, Asked
    <3> QED BY <2>1, <3>1, CookieStaysOrGoes
  <2> QED BY <2>2, <2>3
<1> QED BY <1>1, <1>2, <1>3

LEMMA OwnerKeeps ==
  ASSUME SessionInv, SignIn \/ Save \/ Logout \/ Remove \/ Write
  PROVE  SessionInv'
<1>1. CASE SignIn
  <2>1. PICK c \in Credentials : Ask(c)
    BY <1>1 DEF SignIn
  <2>2. DOMAIN c = {"kind", "user"} /\ c.user \in Users
    BY DEF Credentials
  <2> QED BY <2>1, <2>2, AskedAnew
<1>2. ASSUME NEW request, Ask(request), "kind" \in DOMAIN request, "fate" \notin DOMAIN request,
             request.kind \notin Entering
      PROVE  SessionInv'
  BY <1>2, AskedAnew
<1>3. CASE Save
  <2> DEFINE request == [kind |-> "update", base |-> me.data,
               content |-> IF DraftShown THEN draft.content ELSE me.data.content,
               from |-> IF DraftShown THEN draft.from ELSE me.data]
  <2>1. Ask(request)
    BY <1>3 DEF Save
  <2>2. DOMAIN request = {"kind", "base", "content", "from"} /\ request.kind = "update"
    OBVIOUS
  <2> HIDE DEF request
  <2> QED BY <1>2, <2>1, <2>2 DEF Entering
<1>4. CASE Logout \/ Remove \/ Write
  <2>1. PICK kind \in {"logout", "delete", "write"} : Ask([kind |-> kind])
    BY <1>4 DEF Logout, Remove, Write
  <2>2. DOMAIN [kind |-> kind] = {"kind"} /\ [kind |-> kind].kind = kind
    OBVIOUS
  <2> QED BY <1>2, <2>1, <2>2 DEF Entering
<1> QED BY <1>1, <1>3, <1>4

\* The private lists in the cache are those of the account the browser is
\* signed in to, however many accounts follow one another and whatever is
\* still on its way for those before.
THEOREM ListsAreOfTheSessionAlways == Spec => []ListsAreOfTheSession
<1>1. Init => SessionInv
  <2> SUFFICES ASSUME Init PROVE SessionInv
    OBVIOUS
  <2>1. issued \in Seq(Users) /\ Len(issued) = 1
    <3>1. PICK u \in Registered : issued = <<u>>
      BY DEF Init
    <3> QED BY <3>1, UsersAssumption
  <2>2. Asked = {}
    BY DEF Init, Asked
  <2> QED BY <2>1, <2>2 DEF Init, SessionInv, AskedInv, ListsAreOfTheSession, Tokens
<1>2. SessionInv /\ [Next]_vars => SessionInv'
  <2> SUFFICES ASSUME SessionInv, [Next]_vars PROVE SessionInv'
    OBVIOUS
  <2>1. CASE \/ \E p \in {"auth", "account", "private"} : Visit(p)
             \/ AlreadyIn \/ SessionLost \/ ListsRefused
    BY <2>1, PageKeeps
  <2>2. CASE SignIn \/ Save \/ Logout \/ Remove \/ Write
    BY <2>2, OwnerKeeps
  <2>3. ASSUME NEW o \in Asked, Handle(o) \/ ReplyShown(o) \/ ReplyFails(o) PROVE SessionInv'
    BY <2>3, HandleKeeps, ReplyKeeps
  <2>4. CASE ReadLists
    BY <2>4 DEF ReadLists, Sent, server, SessionInv, ListsAreOfTheSession, Tokens, AskedInv, Asked
  <2>5. CASE ListsShown
    BY <2>5 DEF ListsShown, server, SessionInv, ListsAreOfTheSession, Tokens, AskedInv, Asked
  <2>6. CASE \/ Read \/ ReadAnswered \/ ReadShown \/ Type \/ Elsewhere \/ UNCHANGED vars
             \/ \E token \in ghosts : GhostAnswered(token)
    <3>1. /\ issued' = issued /\ cookie' \in {cookie, None} /\ lists' = lists
          /\ listing' = listing /\ Asked' \subseteq Asked
      BY <2>6 DEF Read, ReadAnswered, ReadShown, Type, Elsewhere, GhostAnswered, Expired, vars,
                  cache, server, Asked
    <3> QED BY <3>1, CookieStaysOrGoes
  <2> QED BY <2>1, <2>2, <2>3, <2>4, <2>5, <2>6 DEF Next
<1>3. SessionInv => ListsAreOfTheSession
  BY DEF SessionInv
<1> QED BY <1>1, <1>2, <1>3, PTL DEF Spec

-----------------------------------------------------------------------------
(* Account rows.  A row that was read once is, as long as its account       *)
(* exists, either the row there is or one of an earlier revision: the id of *)
(* an account is never given again.                                         *)

Seen(rows, used, row) ==
  /\ row \in Rows
  /\ rows[row.id] = None => \E t \in DOMAIN used : used[t] = row.id
  /\ rows[row.id] # None =>
       /\ row.revision <= rows[row.id].revision
       /\ row.revision = rows[row.id].revision => row = rows[row.id]

AreRows(rows) ==
  /\ rows \in [Users -> Rows \union {None}]
  /\ \A u \in Users : rows[u] # None => rows[u].id = u

\* The accounts, and the sessions: those that live are of accounts that exist.
ServerInv ==
  /\ issued \in Seq(Users)
  /\ AreRows(users)
  /\ live \subseteq Tokens
  /\ \A t \in live : users[issued[t]] # None

\* What a step may do to the accounts.
Grows ==
  /\ DOMAIN issued \subseteq DOMAIN issued' /\ \A t \in DOMAIN issued : issued'[t] = issued[t]
  /\ \A u \in Users :
       \/ users'[u] = users[u]
       \/ Unused(u)
       \/ users'[u] = None /\ \E t \in DOMAIN issued : issued[t] = u
       \/ users[u] # None /\ users'[u] # None /\ users[u].revision < users'[u].revision

LEMMA CurrentIsSeen ==
  ASSUME NEW rows, NEW used, AreRows(rows), NEW u \in Users, rows[u] # None
  PROVE  Seen(rows, used, rows[u])
<1>1. rows[u] \in Rows /\ rows[u].id = u
  BY DEF AreRows
<1>2. rows[u].revision \in Nat
  BY <1>1 DEF Rows
<1> QED BY <1>1, <1>2 DEF Seen

LEMMA SeenStays ==
  ASSUME ServerInv, ServerInv', Grows, NEW row, Seen(users, issued, row)
  PROVE  Seen(users', issued', row)
<1>1. row \in Rows /\ row.id \in Users /\ row.revision \in Nat
  BY DEF Seen, Rows
<1> DEFINE u == row.id
<1>2. CASE users'[u] = users[u]
  BY <1>1, <1>2 DEF Seen, Grows
<1>3. CASE Unused(u)
  BY <1>1, <1>3 DEF Seen, Unused
<1>4. CASE users'[u] = None /\ \E t \in DOMAIN issued : issued[t] = u
  BY <1>1, <1>4 DEF Seen, Grows
<1>5. CASE users[u] # None /\ users'[u] # None /\ users[u].revision < users'[u].revision
  <2>1. users[u] \in Rows /\ users'[u] \in Rows
    BY <1>1, <1>5 DEF ServerInv, AreRows
  <2>2. users[u].revision \in Nat /\ users'[u].revision \in Nat
    BY <2>1 DEF Rows
  <2>3. row.revision <= users[u].revision
    BY <1>5 DEF Seen
  <2>4. row.revision < users'[u].revision
    BY <1>1, <1>5, <2>2, <2>3
  <2> QED BY <1>1, <1>5, <2>2, <2>4 DEF Seen
<1> QED BY <1>1, <1>2, <1>3, <1>4, <1>5 DEF Grows

Rewritten(rows, u, content) == [rows EXCEPT ![u] = Revised(@, content)]

\* A new content makes a new revision of the same account.
LEMMA RowChanges ==
  ASSUME NEW u \in Users, NEW rows, AreRows(rows), rows[u] # None, NEW content \in Contents,
         NEW new
  PROVE  new = Rewritten(rows, u, content) =>
           /\ AreRows(new) /\ new[u] # None /\ rows[u].revision < new[u].revision
           /\ \A v \in Users \ {u} : new[v] = rows[v]
<1> SUFFICES ASSUME new = Rewritten(rows, u, content)
             PROVE  /\ AreRows(new) /\ new[u] # None /\ rows[u].revision < new[u].revision
                    /\ \A v \in Users \ {u} : new[v] = rows[v]
  OBVIOUS
<1>1. rows[u] \in Rows /\ rows[u].id = u /\ DOMAIN rows = Users
  BY DEF AreRows
<1>2. new[u] = Revised(rows[u], content)
  BY <1>1 DEF Rewritten
<1>3. \A v \in Users \ {u} : new[v] = rows[v]
  BY <1>1 DEF Rewritten
<1>4. /\ new[u] \in Rows /\ new[u].id = u /\ new[u].revision = rows[u].revision + 1
      /\ rows[u].revision \in Nat
  <2> DEFINE row == rows[u]
  <2>1. row \in [id : Users, revision : Nat \ {0}, content : Contents] /\ row.id = u
    BY <1>1 DEF Rows
  <2>2. new[u] = [row EXCEPT !.content = content, !.revision = row.revision + 1]
    BY <1>2 DEF Revised
  <2> HIDE DEF row
  <2>3. new[u] = [id |-> u, revision |-> row.revision + 1, content |-> content]
    BY <2>1, <2>2
  <2>4. row.revision \in Nat /\ row.revision + 1 \in Nat \ {0}
    BY <2>1
  <2>5. /\ new[u] \in [id : Users, revision : Nat \ {0}, content : Contents]
        /\ new[u].id = u /\ new[u].revision = row.revision + 1
    BY <2>3, <2>4
  <2> QED BY <2>4, <2>5 DEF Rows, row
<1>5. new[u] # None
  BY <1>4, NoneAssumption
<1>6. DOMAIN new = Users /\ new = [v \in Users |-> new[v]]
  BY <1>1 DEF Rewritten
<1>7. new \in [Users -> Rows \union {None}]
  BY <1>3, <1>4, <1>6 DEF AreRows
<1> QED BY <1>3, <1>4, <1>5, <1>7 DEF AreRows

LEMMA EnterServer ==
  ASSUME ServerInv, NEW o, Enter(o), o.user \in Users
  PROVE  ServerInv' /\ Grows
<1>1. CASE Admitted(o)
  <2> DEFINE u == o.user
  <2>1. /\ issued' = Append(issued, u)
        /\ live' = live \union {Len(issued')}
        /\ users' = [users EXCEPT ![u] = IF o.kind = "login" THEN @
             ELSE [id |-> u, revision |-> 1, content |-> CHOOSE c \in Contents : TRUE]]
    BY <1>1 DEF Enter
  <2>2. /\ issued' \in Seq(Users) /\ Len(issued') = Len(issued) + 1 /\ Len(issued) \in Nat
        /\ \A i \in 1 .. Len(issued) : issued'[i] = issued[i]
        /\ issued'[Len(issued')] = u
    BY <2>1, AppendProperties, LenProperties DEF ServerInv
  <2>3. DOMAIN issued = Tokens /\ DOMAIN issued' = Tokens' /\ Tokens \subseteq Tokens'
    BY <2>2 DEF ServerInv, Tokens
  <2>4. DOMAIN users = Users /\ \A v \in Users \ {u} : users'[v] = users[v]
    BY <2>1 DEF ServerInv, AreRows
  <2>5. AreRows(users') /\ users'[u] # None /\ (users'[u] = users[u] \/ Unused(u))
    <3>1. CASE o.kind = "login"
      <4>1. users' = users
        BY <2>1, <2>4, <3>1 DEF ServerInv, AreRows
      <4> QED BY <1>1, <3>1, <4>1 DEF Admitted, ServerInv
    <3>2. CASE o.kind # "login"
      <4> DEFINE row == [id |-> u, revision |-> 1, content |-> CHOOSE c \in Contents : TRUE]
      <4>1. users'[u] = row
        BY <2>1, <2>4, <3>2
      <4>2. row \in Rows /\ row.id = u
        BY UsersAssumption DEF Rows
      <4>3. users' \in [Users -> Rows \union {None}]
        <5>1. users' = [v \in Users |-> users'[v]]
          BY <2>1, <2>4
        <5> HIDE DEF row
        <5> QED BY <2>4, <4>1, <4>2, <5>1 DEF ServerInv, AreRows
      <4>4. users'[u] # None /\ users'[u].id = u
        BY <4>1, <4>2, NoneAssumption
      <4>5. \A v \in Users : users'[v] # None => users'[v].id = v
        BY <2>4, <4>4 DEF ServerInv, AreRows
      <4> QED BY <1>1, <3>2, <4>3, <4>4, <4>5 DEF AreRows, Admitted
    <3> QED BY <3>1, <3>2
  <2>6. live' \subseteq Tokens'
    BY <2>1, <2>2, <2>3 DEF ServerInv, Tokens
  <2>7. \A t \in live' : users'[issued'[t]] # None
    <3> TAKE t \in live'
    <3>1. CASE t \in live
      <4>1. t \in Tokens /\ issued'[t] = issued[t] /\ issued[t] \in Users /\ users[issued[t]] # None
        BY <2>2, <3>1 DEF ServerInv, Tokens
      <4> QED BY <2>4, <2>5, <4>1
    <3>2. CASE t = Len(issued')
      BY <2>2, <2>5, <3>2
    <3> QED BY <2>1, <3>1, <3>2
  <2>8. Grows
    BY <2>2, <2>3, <2>4, <2>5 DEF Grows, Tokens
  <2> QED BY <2>2, <2>5, <2>6, <2>7, <2>8 DEF ServerInv
<1>2. CASE ~Admitted(o)
  BY <1>2 DEF Enter, Refused, server, ServerInv, Grows, Tokens, AreRows
<1> QED BY <1>1, <1>2

\* An account gets a new revision, here or elsewhere.
LEMMA RevisionServer ==
  ASSUME ServerInv, NEW u \in Users, users[u] # None, NEW content \in Contents,
         users' = [users EXCEPT ![u] = Revised(@, content)], issued' = issued, live' = live
  PROVE  ServerInv' /\ Grows
<1>1. /\ AreRows(users') /\ users'[u] # None /\ users[u].revision < users'[u].revision
      /\ \A v \in Users \ {u} : users'[v] = users[v]
  <2>1. AreRows(users) /\ users' = Rewritten(users, u, content)
    BY DEF ServerInv, Rewritten
  <2>2. /\ AreRows(users') /\ users'[u] # None /\ users[u].revision < users'[u].revision
        /\ \A v \in Users \ {u} : users'[v] = users[v]
    <3> DEFINE new == users' rows == users
    <3>1. AreRows(rows) /\ new = Rewritten(rows, u, content) /\ rows[u] # None
      BY <2>1
    <3> HIDE DEF new, rows
    <3>2. /\ AreRows(new) /\ new[u] # None /\ rows[u].revision < new[u].revision
          /\ \A v \in Users \ {u} : new[v] = rows[v]
      BY <3>1, RowChanges
    <3> QED BY <3>2 DEF new, rows
  <2> QED BY <2>2
<1>2. \A t \in live : issued[t] \in Users
  BY DEF ServerInv, Tokens
<1>3. \A t \in live' : users'[issued'[t]] # None
  BY <1>1, <1>2 DEF ServerInv
<1>4. Grows
  BY <1>1 DEF Grows
<1> QED BY <1>1, <1>3, <1>4 DEF ServerInv, Tokens

LEMMA DeleteServer ==
  ASSUME ServerInv, NEW o, DeleteAccount(o)
  PROVE  ServerInv' /\ Grows
<1> DEFINE u == issued[o.token]
<1>1. /\ users' = [users EXCEPT ![u] = None]
      /\ live' = {t \in live : issued[t] # u}
      /\ issued' = issued /\ o.token \in Tokens /\ u \in Users /\ o.token \in DOMAIN issued
  BY DEF DeleteAccount, Live, ServerInv, Tokens
<1>2. users'[u] = None /\ \A v \in Users \ {u} : users'[v] = users[v]
  BY <1>1 DEF ServerInv, AreRows
<1>3. AreRows(users')
  <2>1. users' \in [Users -> Rows \union {None}]
    BY <1>1 DEF ServerInv, AreRows
  <2> QED BY <1>2, <2>1 DEF ServerInv, AreRows
<1>4. \A t \in live : issued[t] \in Users
  BY DEF ServerInv, Tokens
<1>5. \A t \in live' : users'[issued'[t]] # None
  BY <1>1, <1>2, <1>4 DEF ServerInv
<1>6. Grows
  BY <1>1, <1>2 DEF Grows
<1> QED BY <1>1, <1>3, <1>5, <1>6 DEF ServerInv, Tokens

\* The server's other steps leave the accounts alone.
LEMMA ServerStays ==
  ASSUME ServerInv, users' = users, issued' = issued, live' \subseteq live
  PROVE  ServerInv' /\ Grows
BY DEF ServerInv, Grows, Tokens, AreRows

-----------------------------------------------------------------------------
(* What the browser holds of an account, and the requests made of it: a     *)
(* form is of the row it was begun from, under whatever revision it is      *)
(* sent.                                                                    *)

Ids(used) == DOMAIN used \union {None}

SeenIf(rows, used, row) == row # None => Seen(rows, used, row)

IsRead(rows, used, r) ==
  /\ r \in Reads /\ r.token \in Ids(used)
  /\ r.reply # None =>
       /\ SeenIf(rows, used, r.reply.data)
       /\ r.reply.error = "none" => r.reply.data # None

IsDraft(rows, used, d) ==
  d.key = Key(d.from) /\ d.content \in Contents /\ Seen(rows, used, d.from)

IsForm(rows, used, o) ==
  /\ {"kind", "fate", "token"} \subseteq DOMAIN o /\ o.token \in Ids(used)
  /\ o.kind \in Entering => "user" \in DOMAIN o /\ o.user \in Users
  /\ o.kind = "update" =>
       /\ {"base", "from", "content"} \subseteq DOMAIN o
       /\ Key(o.base) = Key(o.from) /\ o.content \in Contents /\ Seen(rows, used, o.from)
  /\ o.kind \in Entering \union {"update"} /\ o.fate = "done" =>
       "row" \in DOMAIN o /\ Seen(rows, used, o.row)
  /\ o.kind \in Entering /\ o.fate = "done" => "session" \in DOMAIN o /\ o.session \in DOMAIN used

MeInv    == me \in Views /\ SeenIf(users, issued, me.data) /\ (me = Unknown => read # None)
ReadInv  == read # None => IsRead(users, issued, read)
DraftInv == draft # None => IsDraft(users, issued, draft)
FormInv  == \A o \in Asked : IsForm(users, issued, o)
TokenInv ==
  /\ page \in {"auth", "account", "private", "receipt"}
  /\ lists \in Users \union {None}
  /\ cookie \in Ids(issued) /\ ghosts \subseteq DOMAIN issued
  /\ listing # None => listing.token \in Ids(issued)

AccountInv == ServerInv /\ MeInv /\ ReadInv /\ DraftInv /\ FormInv /\ TokenInv

\* What was seen stays seen.
LEMMA SeenIfStays ==
  ASSUME ServerInv, ServerInv', Grows, NEW row, SeenIf(users, issued, row)
  PROVE  SeenIf(users', issued', row)
BY SeenStays DEF SeenIf

LEMMA ReadStays ==
  ASSUME ServerInv, ServerInv', Grows, NEW r, IsRead(users, issued, r)
  PROVE  IsRead(users', issued', r)
<1>1. Ids(issued) \subseteq Ids(issued')
  BY DEF Grows, Ids
<1>2. r.reply # None => SeenIf(users', issued', r.reply.data)
  BY SeenIfStays DEF IsRead
<1> QED BY <1>1, <1>2 DEF IsRead

LEMMA DraftStays ==
  ASSUME ServerInv, ServerInv', Grows, NEW d, IsDraft(users, issued, d)
  PROVE  IsDraft(users', issued', d)
BY SeenStays DEF IsDraft

LEMMA FormStays ==
  ASSUME ServerInv, ServerInv', Grows, NEW o, IsForm(users, issued, o)
  PROVE  IsForm(users', issued', o)
<1>1. Ids(issued) \subseteq Ids(issued') /\ DOMAIN issued \subseteq DOMAIN issued'
  BY DEF Grows, Ids
<1>2. o.kind = "update" => Seen(users', issued', o.from)
  BY SeenStays DEF IsForm
<1>3. o.kind \in Entering \union {"update"} /\ o.fate = "done" => Seen(users', issued', o.row)
  BY SeenStays DEF IsForm
<1> QED BY <1>1, <1>2, <1>3 DEF IsForm

\* A step of the server leaves the browser as it was, the request it answers aside.
LEMMA BrowserStays ==
  ASSUME AccountInv, ServerInv', Grows, FormInv', UNCHANGED <<page, cache, draft, cookie>>
  PROVE  AccountInv'
<1>1. Ids(issued) \subseteq Ids(issued') /\ DOMAIN issued \subseteq DOMAIN issued'
  BY DEF Grows, Ids
<1>2. MeInv'
  BY SeenIfStays DEF AccountInv, MeInv, cache, Unknown
<1>3. ReadInv'
  BY ReadStays DEF AccountInv, ReadInv, cache
<1>4. DraftInv'
  BY DraftStays DEF AccountInv, DraftInv
<1>5. TokenInv'
  BY <1>1 DEF AccountInv, TokenInv, cache
<1> QED BY <1>2, <1>3, <1>4, <1>5 DEF AccountInv

\* A step of the browser leaves the server as it was, and mostly asks nothing.
LEMMA ServerAlone ==
  ASSUME AccountInv, UNCHANGED server, Asked' \subseteq Asked
  PROVE  ServerInv' /\ FormInv' /\ issued' = issued /\ users' = users
<1>1. issued' = issued /\ users' = users /\ live' = live
  BY DEF server
<1>2. ServerInv'
  BY <1>1, ServerStays DEF AccountInv
<1>3. FormInv'
  BY <1>1 DEF AccountInv, FormInv
<1> QED BY <1>1, <1>2, <1>3

-----------------------------------------------------------------------------
(* The server's answers, once more: what they say of an account is its row. *)

LEMMA FormAnswered ==
  ASSUME NEW rows, NEW used, NEW o, IsForm(rows, used, o), NEW answer,
         "fate" \in DOMAIN answer, DOMAIN answer \subseteq {"fate", "row", "session"},
         answer.fate = "done" /\ o.kind \in Entering \union {"update"} =>
           "row" \in DOMAIN answer /\ Seen(rows, used, answer.row),
         answer.fate = "done" /\ o.kind \in Entering =>
           "session" \in DOMAIN answer /\ answer.session \in DOMAIN used
  PROVE  IsForm(rows, used, Joined(answer, o))
<1> DEFINE a == Joined(answer, o)
<1>1. /\ DOMAIN a = DOMAIN answer \union DOMAIN o
      /\ \A x \in DOMAIN answer : a[x] = answer[x]
      /\ \A x \in DOMAIN o \ DOMAIN answer : a[x] = o[x]
  BY DEF Joined
<1>2. /\ a.kind = o.kind /\ a.token = o.token /\ a.fate = answer.fate
      /\ {"kind", "fate", "token"} \subseteq DOMAIN a
  <2> HIDE DEF a
  <2> QED BY <1>1 DEF IsForm
<1>3. "user" \in DOMAIN o => "user" \in DOMAIN a /\ a.user = o.user
  <2> HIDE DEF a
  <2> QED BY <1>1
<1>4. {"base", "from", "content"} \subseteq DOMAIN o =>
        {"base", "from", "content"} \subseteq DOMAIN a
        /\ a.base = o.base /\ a.from = o.from /\ a.content = o.content
  <2> HIDE DEF a
  <2> QED BY <1>1
<1>5. /\ "row" \in DOMAIN answer => "row" \in DOMAIN a /\ a.row = answer.row
      /\ "session" \in DOMAIN answer => "session" \in DOMAIN a /\ a.session = answer.session
  <2> HIDE DEF a
  <2> QED BY <1>1
<1> HIDE DEF a
<1>6. a.kind \in Entering => "user" \in DOMAIN a /\ a.user \in Users
  BY <1>2, <1>3 DEF IsForm
<1>7. a.kind = "update" =>
        /\ {"base", "from", "content"} \subseteq DOMAIN a
        /\ Key(a.base) = Key(a.from) /\ a.content \in Contents /\ Seen(rows, used, a.from)
  BY <1>2, <1>4 DEF IsForm
<1>8. /\ a.kind \in Entering \union {"update"} /\ a.fate = "done" =>
           "row" \in DOMAIN a /\ Seen(rows, used, a.row)
      /\ a.kind \in Entering /\ a.fate = "done" =>
           "session" \in DOMAIN a /\ a.session \in DOMAIN used
  BY <1>2, <1>5
<1>9. IsForm(rows, used, a)
  BY <1>2, <1>6, <1>7, <1>8 DEF IsForm
<1> QED BY <1>9 DEF a

LEMMA FormsAnswered ==
  ASSUME AccountInv, ServerInv', Grows, NEW o \in Asked, NEW answer, Answered(o, answer),
         IsForm(users', issued', Joined(answer, o))
  PROVE  FormInv'
<1>1. \A q \in Asked : IsForm(users', issued', q)
  BY FormStays DEF AccountInv, FormInv
<1>2. \A q \in Asked' : q \in Asked \/ q = Joined(answer, o)
  BY DEF Answered, Asked
<1> QED BY <1>1, <1>2 DEF FormInv

\* An answer that gives no row: to a refused request, or to one that asks for none.
LEMMA PlainForm ==
  ASSUME AccountInv, ServerInv', Grows, NEW o \in Asked, NEW fate, Answered(o, [fate |-> fate]),
         fate # "done" \/ o.kind \notin Entering \union {"update"}
  PROVE  FormInv'
<1> DEFINE answer == [fate |-> fate]
<1>1. IsForm(users', issued', o)
  BY FormStays DEF AccountInv, FormInv
<1>2. DOMAIN answer = {"fate"} /\ answer.fate = fate
  OBVIOUS
<1>3. Answered(o, answer)
  OBVIOUS
<1> HIDE DEF answer
<1>4. IsForm(users', issued', Joined(answer, o))
  BY <1>1, <1>2, FormAnswered
<1> QED BY <1>3, <1>4, FormsAnswered

LEMMA EnterForm ==
  ASSUME AccountInv, NEW o \in Asked, Enter(o)
  PROVE  ServerInv' /\ Grows /\ FormInv'
<1>1. IsForm(users, issued, o) /\ o.kind \in Entering /\ o.user \in Users
  BY DEF AccountInv, FormInv, IsForm, Enter, Entering
<1>2. ServerInv' /\ Grows
  BY <1>1, EnterServer DEF AccountInv
<1>3. IsForm(users', issued', o)
  BY <1>1, <1>2, FormStays DEF AccountInv
<1>4. CASE Admitted(o)
  <2> DEFINE answer == [fate |-> "done", row |-> users'[o.user], session |-> Len(issued')]
  <2>1. Answered(o, answer) /\ issued' = Append(issued, o.user)
    BY <1>4 DEF Enter
  <2>2. Len(issued') \in DOMAIN issued' /\ issued'[Len(issued')] = o.user
    BY <1>1, <2>1, AppendProperties, LenProperties DEF AccountInv, ServerInv
  <2>3. Len(issued') \in live'
    BY <1>4 DEF Enter
  <2>4. users'[o.user] # None
    BY <1>2, <2>2, <2>3 DEF ServerInv
  <2>5. Seen(users', issued', users'[o.user])
    <3>1. AreRows(users')
      BY <1>2 DEF ServerInv
    <3> QED BY <1>1, <2>4, <3>1, CurrentIsSeen
  <2>6. /\ DOMAIN answer = {"fate", "row", "session"}
        /\ answer.row = users'[o.user] /\ answer.session = Len(issued')
    OBVIOUS
  <2> HIDE DEF answer
  <2>7. IsForm(users', issued', Joined(answer, o))
    BY <1>3, <2>2, <2>5, <2>6, FormAnswered
  <2>8. FormInv'
    BY <1>2, <2>1, <2>7, FormsAnswered
  <2> QED BY <1>2, <2>8
<1>5. CASE ~Admitted(o)
  <2>1. Answered(o, [fate |-> "refused"])
    BY <1>5 DEF Enter, Refused
  <2>2. FormInv'
    BY <1>2, <2>1, PlainForm
  <2> QED BY <1>2, <2>2
<1> QED BY <1>4, <1>5

LEMMA ChangeForm ==
  ASSUME AccountInv, NEW o \in Asked, Change(o)
  PROVE  ServerInv' /\ Grows /\ FormInv'
<1> DEFINE u == issued[o.token]
<1>1. /\ IsForm(users, issued, o) /\ o.kind = "update" /\ o.content \in Contents
      /\ o.token \in live
  BY DEF AccountInv, FormInv, IsForm, Change, Live
<1>2. u \in Users /\ users[u] # None
  <2>1. issued \in Seq(Users) /\ o.token \in 1 .. Len(issued) /\ users[issued[o.token]] # None
    BY <1>1 DEF AccountInv, ServerInv, Tokens
  <2> QED BY <2>1
<1>3. CASE Owner(o).revision = o.base.revision
  <2> DEFINE answer == [fate |-> "done", row |-> users'[u]]
  <2>1. /\ users' = [users EXCEPT ![u] = Revised(@, o.content)]
        /\ issued' = issued /\ live' = live /\ Answered(o, answer)
    BY <1>3 DEF Change
  <2>2. ServerInv' /\ Grows
    <3> HIDE DEF u
    <3> QED BY <1>1, <1>2, <2>1, RevisionServer DEF AccountInv
  <2>3. users'[u] # None
    BY <1>1, <2>1, <2>2 DEF ServerInv
  <2>4. Seen(users', issued', users'[u])
    <3>1. AreRows(users')
      BY <2>2 DEF ServerInv
    <3> QED BY <1>2, <2>3, <3>1, CurrentIsSeen
  <2>5. DOMAIN answer = {"fate", "row"} /\ answer.row = users'[u]
    OBVIOUS
  <2>6. IsForm(users', issued', o)
    BY <1>1, <2>2, FormStays DEF AccountInv
  <2>7. o.kind \notin Entering
    BY <1>1 DEF Entering
  <2> HIDE DEF answer
  <2>8. IsForm(users', issued', Joined(answer, o))
    BY <2>4, <2>5, <2>6, <2>7, FormAnswered
  <2>9. FormInv'
    BY <2>1, <2>2, <2>8, FormsAnswered
  <2> QED BY <2>2, <2>9
<1>4. CASE Owner(o).revision # o.base.revision
  <2>1. Answered(o, [fate |-> "refused"]) /\ UNCHANGED server
    BY <1>4 DEF Change, Refused
  <2>2. ServerInv' /\ Grows
    BY <2>1, ServerStays DEF AccountInv, server
  <2> QED BY <2>1, <2>2, PlainForm
<1> QED BY <1>3, <1>4

LEMMA HandleAccount ==
  ASSUME AccountInv, NEW o \in Asked, Handle(o)
  PROVE  AccountInv'
<1>1. UNCHANGED <<page, cache, draft, cookie>>
  BY DEF Handle
<1>2. ServerInv' /\ Grows /\ FormInv'
  <2>1. CASE Enter(o)
    BY <2>1, EnterForm
  <2>2. CASE Change(o)
    BY <2>2, ChangeForm
  <2>3. CASE EndSession(o) \/ DeleteAccount(o) \/ Written(o) \/ Unauthorized(o)
    <3>1. ServerInv' /\ Grows
      BY <2>3, ServerStays, DeleteServer
         DEF AccountInv, EndSession, Written, Unauthorized, Refused, server
    <3>2. PICK fate : /\ Answered(o, [fate |-> fate])
                      /\ fate # "done" \/ o.kind \notin Entering \union {"update"}
      <4>1. CASE Unauthorized(o)
        BY <4>1 DEF Unauthorized, Refused
      <4>2. CASE EndSession(o) \/ DeleteAccount(o) \/ Written(o)
        BY <4>2 DEF EndSession, DeleteAccount, Written, Entering
      <4> QED BY <2>3, <4>1, <4>2
    <3> QED BY <3>1, <3>2, PlainForm
  <2> QED BY <2>1, <2>2, <2>3 DEF Handle
<1> QED BY <1>1, <1>2, BrowserStays

LEMMA ElsewhereAccount ==
  ASSUME AccountInv, Elsewhere
  PROVE  AccountInv'
<1>1. /\ UNCHANGED <<page, cache, draft, cookie>> /\ issued' = issued
      /\ op' = op /\ orphans' = orphans
  BY DEF Elsewhere
<1>2. ServerInv' /\ Grows
  <2>1. ASSUME NEW token \in live, live' = live \ {token}, users' = users
        PROVE  ServerInv' /\ Grows
    BY <1>1, <2>1, ServerStays DEF AccountInv
  <2>2. ASSUME NEW u \in Users, users[u] # None, NEW content \in Contents,
               users' = [users EXCEPT ![u] = Revised(@, content)], live' = live
        PROVE  ServerInv' /\ Grows
    BY <1>1, <2>2, RevisionServer DEF AccountInv
  <2> QED BY <2>1, <2>2 DEF Elsewhere
<1>3. FormInv'
  BY <1>1, <1>2, FormStays DEF AccountInv, FormInv, Asked
<1> QED BY <1>1, <1>2, <1>3, BrowserStays

-----------------------------------------------------------------------------
(* The browser's own steps.                                                 *)

LEMMA SentIsRead ==
  ASSUME NEW rows, NEW used, used \in Seq(Users), NEW token \in Ids(used)
  PROVE  Sent(token) # None /\ IsRead(rows, used, Sent(token))
<1>1. Sent(token) = [token |-> token, reply |-> None]
  BY DEF Sent
<1>2. token \in Nat \union {None}
  BY DEF Ids
<1>3. Sent(token) \in Reads
  BY <1>1, <1>2 DEF Reads
<1> QED BY <1>1, <1>3, NoneAssumption DEF IsRead

LEMMA UnknownIsView ==
  /\ Unknown \in Views /\ Unknown.data = None
  /\ \A row \in Rows : Known(row) \in Views /\ Known(row).data = row /\ Known(row) # Unknown
BY NoneAssumption DEF Unknown, Known, Views

\* The cache is emptied, and read again.
LEMMA EmptiedKeeps ==
  ASSUME AccountInv, UNCHANGED server, NEW view \in Views, SeenIf(users, issued, view.data),
         NEW token \in Ids(issued), Emptied(view, token)
  PROVE  /\ MeInv' /\ ReadInv'
         /\ lists' = None /\ listing' = None /\ ghosts' \subseteq DOMAIN issued
<1>1. /\ me' = view /\ read' = Sent(token) /\ lists' = None /\ listing' = None
      /\ ghosts' = ghosts \union ({r.token : r \in {read, listing} \ {None}} \ {None})
      /\ issued' = issued /\ users' = users
  BY DEF Emptied, server
<1>2. read' # None /\ IsRead(users, issued, read')
  BY <1>1, SentIsRead DEF AccountInv, ServerInv
<1>3. \A r \in {read, listing} \ {None} : r.token \in Ids(issued)
  BY DEF AccountInv, ReadInv, IsRead, TokenInv
<1>4. ghosts' \subseteq DOMAIN issued
  BY <1>1, <1>3 DEF AccountInv, TokenInv, Ids
<1> QED BY <1>1, <1>2, <1>4 DEF MeInv, ReadInv

Pages == {"auth", "account", "private", "receipt"}

\* A page is left, or its request answered.
LEMMA GoKeeps ==
  ASSUME AccountInv, UNCHANGED server, NEW p \in Pages, NEW answered, Go(p, answered)
  PROVE  /\ ServerInv' /\ FormInv' /\ DraftInv' /\ page' \in Pages
         /\ issued' = issued /\ users' = users
<1>1. Asked' \subseteq Asked
  BY GoAsks
<1>2. ServerInv' /\ FormInv' /\ issued' = issued /\ users' = users
  BY <1>1, ServerAlone
<1>3. page' = p /\ draft' \in {draft, None}
  BY DEF Go
<1> QED BY <1>2, <1>3 DEF AccountInv, DraftInv

\* The cache stays while the page may change.
LEMMA CacheKept ==
  ASSUME AccountInv, UNCHANGED <<cache, server>>, NEW p \in Pages, NEW answered, Go(p, answered),
         cookie' \in {cookie, None}
  PROVE  AccountInv'
<1>1. /\ ServerInv' /\ FormInv' /\ DraftInv' /\ page' \in Pages
      /\ issued' = issued /\ users' = users
  BY GoKeeps
<1>2. MeInv' /\ ReadInv'
  BY <1>1 DEF AccountInv, MeInv, ReadInv, cache, Unknown
<1>3. TokenInv'
  BY <1>1 DEF AccountInv, TokenInv, cache, Pages, Ids
<1> QED BY <1>1, <1>2, <1>3 DEF AccountInv

\* The cache is emptied and the page replaced.
LEMMA CacheEmptied ==
  ASSUME AccountInv, UNCHANGED server, NEW view \in Views, SeenIf(users, issued, view.data),
         Emptied(view, cookie'), cookie' \in Ids(issued),
         NEW p \in Pages, NEW answered, Go(p, answered)
  PROVE  AccountInv'
<1>1. /\ ServerInv' /\ FormInv' /\ DraftInv' /\ page' \in Pages
      /\ issued' = issued /\ users' = users
  BY GoKeeps
<1>2. /\ MeInv' /\ ReadInv'
      /\ lists' = None /\ listing' = None /\ ghosts' \subseteq DOMAIN issued
  <2> DEFINE token == cookie'
  <2>1. token \in Ids(issued) /\ Emptied(view, token)
    OBVIOUS
  <2> HIDE DEF token
  <2> QED BY <2>1, EmptiedKeeps
<1>3. TokenInv'
  BY <1>1, <1>2 DEF TokenInv, Pages
<1> QED BY <1>1, <1>2, <1>3 DEF AccountInv

LEMMA OpenedKeeps ==
  ASSUME AccountInv, NEW p \in Pages, Opened(p)
  PROVE  AccountInv'
<1>1. /\ ServerInv' /\ FormInv' /\ DraftInv' /\ page' \in Pages
      /\ issued' = issued /\ users' = users
  BY GoKeeps DEF Opened
<1>2. /\ read' = IF read = None THEN Sent(cookie) ELSE read
      /\ me' = IF read = None /\ me.data = None THEN Unknown ELSE me
      /\ lists' = lists /\ listing' = listing /\ ghosts' = ghosts /\ cookie' = cookie
  BY DEF Opened
<1>3. Sent(cookie) # None /\ IsRead(users, issued, Sent(cookie))
  BY SentIsRead DEF AccountInv, ServerInv, TokenInv
<1>4. read' # None /\ IsRead(users, issued, read')
  BY <1>2, <1>3 DEF AccountInv, ReadInv
<1>5. me' \in Views /\ SeenIf(users, issued, me'.data)
  BY <1>2, UnknownIsView DEF AccountInv, MeInv, SeenIf
<1>6. MeInv' /\ ReadInv'
  BY <1>1, <1>4, <1>5 DEF MeInv, ReadInv
<1>7. TokenInv'
  BY <1>1, <1>2 DEF AccountInv, TokenInv, Pages
<1> QED BY <1>1, <1>6, <1>7 DEF AccountInv

LEMMA NavigationAccount ==
  ASSUME AccountInv,
         \/ \E p \in {"auth", "account", "private"} : Visit(p)
         \/ AlreadyIn \/ SessionLost
  PROVE  AccountInv'
<1>1. CASE AlreadyIn \/ \E p \in {"auth", "account", "private"} : Visit(p)
  <2>1. PICK p \in Pages : Opened(p)
    BY <1>1 DEF AlreadyIn, Visit, Pages
  <2> QED BY <2>1, OpenedKeeps
<1>2. CASE SessionLost
  <2>1. /\ Emptied(Unknown, cookie') /\ Go("auth", None) /\ UNCHANGED server
        /\ cookie' \in Ids(issued)
    BY <1>2 DEF SessionLost, Cleared, AccountInv, TokenInv
  <2>2. Unknown \in Views /\ SeenIf(users, issued, Unknown.data) /\ "auth" \in Pages
    BY UnknownIsView DEF SeenIf, Pages
  <2> QED BY <2>1, <2>2, CacheEmptied
<1> QED BY <1>1, <1>2

LEMMA ReadAccount ==
  ASSUME AccountInv, Read
  PROVE  AccountInv'
<1>1. /\ read' = Sent(cookie) /\ me' = IF me.data = None THEN Unknown ELSE me
      /\ UNCHANGED <<page, lists, listing, ghosts, draft, op, orphans, cookie, server>>
  BY DEF Read
<1>2. /\ ServerInv' /\ FormInv' /\ issued' = issued /\ users' = users
  <2>1. Asked' \subseteq Asked
    BY <1>1 DEF Asked
  <2> QED BY <1>1, <2>1, ServerAlone
<1>3. Sent(cookie) # None /\ IsRead(users, issued, Sent(cookie))
  BY SentIsRead DEF AccountInv, ServerInv, TokenInv
<1>4. me' \in Views /\ SeenIf(users, issued, me'.data)
  BY <1>1, UnknownIsView DEF AccountInv, MeInv, SeenIf
<1>5. MeInv' /\ ReadInv'
  BY <1>1, <1>2, <1>3, <1>4 DEF MeInv, ReadInv
<1>6. DraftInv' /\ TokenInv'
  BY <1>1, <1>2 DEF AccountInv, DraftInv, TokenInv
<1> QED BY <1>2, <1>5, <1>6 DEF AccountInv

\* What is answered to a read is the row of a session that lives.
LEMMA ReadAnsweredAccount ==
  ASSUME AccountInv, ReadAnswered
  PROVE  AccountInv'
<1>1. /\ read # None /\ IsRead(users, issued, read)
      /\ UNCHANGED <<page, me, lists, listing, ghosts, draft, op, orphans, cookie, server>>
  BY DEF ReadAnswered, AccountInv, ReadInv
<1>2. /\ ServerInv' /\ FormInv' /\ issued' = issued /\ users' = users
  <2>1. Asked' \subseteq Asked
    BY <1>1 DEF Asked
  <2> QED BY <1>1, <2>1, ServerAlone
<1>3. PICK view : /\ read' = [read EXCEPT !.reply = view]
                  /\ view \in Views /\ SeenIf(users, issued, view.data)
                  /\ view.error = "none" => view.data # None
  <2>1. CASE read' = [read EXCEPT !.reply = [data |-> None, error |-> "failed"]]
    <3> DEFINE view == [data |-> None, error |-> "failed"]
    <3>1. view \in Views /\ view.data = None /\ view.error = "failed"
      BY DEF Views
    <3>2. read' = [read EXCEPT !.reply = view]
      BY <2>1
    <3> HIDE DEF view
    <3> QED BY <3>1, <3>2 DEF SeenIf
  <2>2. CASE /\ ~Live(read.token)
             /\ read' = [read EXCEPT !.reply = [data |-> None, error |-> "unauthorized"]]
    <3> DEFINE view == [data |-> None, error |-> "unauthorized"]
    <3>1. view \in Views /\ view.data = None /\ view.error = "unauthorized"
      BY DEF Views
    <3>2. read' = [read EXCEPT !.reply = view]
      BY <2>2
    <3> HIDE DEF view
    <3> QED BY <3>1, <3>2 DEF SeenIf
  <2>3. CASE Live(read.token) /\ read' = [read EXCEPT !.reply = Known(users[issued[read.token]])]
    <3> DEFINE u == issued[read.token] row == users[u]
    <3>1. issued \in Seq(Users) /\ read.token \in 1 .. Len(issued) /\ row # None /\ AreRows(users)
      BY <2>3 DEF AccountInv, ServerInv, Live, Tokens
    <3>2. u \in Users
      BY <3>1
    <3>3. Seen(users, issued, row)
      <4> HIDE DEF u
      <4> QED BY <3>1, <3>2, CurrentIsSeen
    <3>4. read' = [read EXCEPT !.reply = Known(row)]
      BY <2>3
    <3> HIDE DEF row
    <3>5. row \in Rows
      BY <3>3 DEF Seen
    <3> QED BY <3>1, <3>3, <3>4, <3>5, UnknownIsView DEF SeenIf
  <2> QED BY <2>1, <2>2, <2>3 DEF ReadAnswered
<1>4. read' \in Reads /\ read'.token = read.token /\ read'.reply = view
  BY <1>1, <1>3 DEF IsRead, Reads
<1>5. read' # None
  BY <1>4, NoneAssumption
<1>7. ReadInv'
  BY <1>1, <1>2, <1>3, <1>4, <1>5 DEF ReadInv, IsRead
<1>8. MeInv' /\ DraftInv' /\ TokenInv'
  BY <1>1, <1>2, <1>5 DEF AccountInv, MeInv, DraftInv, TokenInv
<1> QED BY <1>2, <1>7, <1>8 DEF AccountInv
LEMMA ReadShownAccount ==
  ASSUME AccountInv, ReadShown
  PROVE  AccountInv'
<1>1. /\ IsRead(users, issued, read) /\ read.reply # None
      /\ read' = None
      /\ me' = IF read.reply.error = "none" THEN read.reply ELSE [me EXCEPT !.error = read.reply.error]
      /\ cookie' \in {cookie, None}
      /\ UNCHANGED <<page, lists, listing, ghosts, draft, op, orphans, server>>
  BY DEF ReadShown, AccountInv, ReadInv, Expired
<1>2. /\ ServerInv' /\ FormInv' /\ issued' = issued /\ users' = users
  <2>1. Asked' \subseteq Asked
    BY <1>1 DEF Asked
  <2> QED BY <1>1, <2>1, ServerAlone
<1>3. /\ read.reply \in Views /\ SeenIf(users, issued, read.reply.data)
      /\ read.reply.error = "none" => read.reply.data # None
  BY <1>1 DEF IsRead, Reads
<1>4. me \in Views /\ SeenIf(users, issued, me.data)
  BY DEF AccountInv, MeInv
<1>5. me' \in Views /\ SeenIf(users, issued, me'.data) /\ me' # Unknown
  <2>1. CASE read.reply.error = "none"
    BY <1>1, <1>3, <2>1 DEF Unknown
  <2>2. CASE read.reply.error # "none"
    <3> DEFINE error == read.reply.error
    <3>1. me' = [me EXCEPT !.error = error] /\ error \in {"none", "unauthorized", "failed"}
      BY <1>1, <1>3, <2>2 DEF Views
    <3> HIDE DEF error
    <3>2. me' \in Views /\ me'.data = me.data /\ me'.error = error
      BY <1>4, <3>1 DEF Views
    <3>3. me' # Unknown
      BY <2>2, <3>2 DEF Unknown, error
    <3> QED BY <1>4, <3>2, <3>3
  <2> QED BY <2>1, <2>2
<1>6. MeInv' /\ ReadInv'
  BY <1>1, <1>2, <1>5 DEF MeInv, ReadInv, Unknown
<1>7. DraftInv' /\ TokenInv'
  BY <1>1, <1>2 DEF AccountInv, DraftInv, TokenInv, Ids
<1> QED BY <1>2, <1>6, <1>7 DEF AccountInv

LEMMA ListsAccount ==
  ASSUME AccountInv,
         ReadLists \/ ListsShown \/ ListsRefused \/ \E token \in ghosts : GhostAnswered(token)
  PROVE  AccountInv'
<1>1. ASSUME UNCHANGED <<page, me, read, draft, op, orphans, server>>,
             cookie' \in {cookie, None}, lists' \in Users \union {None}, ghosts' \subseteq ghosts,
             listing' # None => listing'.token \in Ids(issued)
      PROVE  AccountInv'
  <2>1. /\ ServerInv' /\ FormInv' /\ issued' = issued /\ users' = users
    <3>1. Asked' \subseteq Asked
      BY <1>1 DEF Asked
    <3> QED BY <1>1, <3>1, ServerAlone
  <2>2. MeInv' /\ ReadInv' /\ DraftInv'
    BY <1>1, <2>1 DEF AccountInv, MeInv, ReadInv, DraftInv, Unknown
  <2>3. TokenInv'
    BY <1>1, <2>1 DEF AccountInv, TokenInv, Ids
  <2> QED BY <2>1, <2>2, <2>3 DEF AccountInv
<1>2. /\ lists \in Users \union {None} /\ cookie \in Ids(issued)
      /\ listing # None => listing.token \in Ids(issued)
  BY DEF AccountInv, TokenInv
<1>3. CASE ReadLists
  <2>1. Sent(cookie).token = cookie
    BY DEF Sent
  <2> QED BY <1>1, <1>2, <1>3, <2>1 DEF ReadLists
<1>4. CASE ListsShown
  <2>1. issued[listing.token] \in Users
    <3>1. issued \in Seq(Users) /\ listing.token \in 1 .. Len(issued)
      BY <1>4 DEF ListsShown, Live, AccountInv, ServerInv, Tokens
    <3> QED BY <3>1
  <2> QED BY <1>1, <1>4, <2>1 DEF ListsShown
<1>5. CASE ListsRefused
  <2>1. cookie' \in {cookie, None} /\ UNCHANGED server
    BY <1>5 DEF ListsRefused, Expired
  <2>2. CASE page = "private"
    <3>1. Emptied(Unknown, cookie') /\ Go("auth", None) /\ cookie' \in Ids(issued)
      BY <1>2, <1>5, <2>1, <2>2 DEF ListsRefused, Cleared, Ids
    <3>2. Unknown \in Views /\ SeenIf(users, issued, Unknown.data) /\ "auth" \in Pages
      BY UnknownIsView DEF SeenIf, Pages
    <3> QED BY <2>1, <3>1, <3>2, CacheEmptied
  <2>3. CASE page # "private"
    BY <1>1, <1>2, <1>5, <2>1, <2>3 DEF ListsRefused
  <2> QED BY <2>2, <2>3
<1>6. CASE \E token \in ghosts : GhostAnswered(token)
  BY <1>1, <1>2, <1>6 DEF GhostAnswered
<1> QED BY <1>3, <1>4, <1>5, <1>6

LEMMA TypeAccount ==
  ASSUME AccountInv, Type
  PROVE  AccountInv'
<1>1. /\ me.data # None /\ Seen(users, issued, me.data)
      /\ UNCHANGED <<page, cache, op, orphans, cookie, server>>
  BY DEF Type, AccountOpen, AccountInv, MeInv, SeenIf
<1>2. PICK content \in Contents :
        draft' = [key |-> Key(me.data), content |-> content,
                  from |-> IF DraftShown THEN draft.from ELSE me.data]
  BY DEF Type
<1> DEFINE from == IF DraftShown THEN draft.from ELSE me.data
<1>3. Seen(users, issued, from) /\ Key(from) = Key(me.data)
  BY <1>1 DEF DraftShown, AccountInv, DraftInv, IsDraft
<1>4. draft'.key = Key(me.data) /\ draft'.content = content /\ draft'.from = from
  BY <1>2
<1> HIDE DEF from
<1>5. IsDraft(users, issued, draft')
  BY <1>3, <1>4 DEF IsDraft
<1>6. /\ ServerInv' /\ FormInv' /\ issued' = issued /\ users' = users
  <2>1. Asked' \subseteq Asked
    BY <1>1 DEF Asked
  <2> QED BY <1>1, <2>1, ServerAlone
<1>7. MeInv' /\ ReadInv' /\ DraftInv' /\ TokenInv'
  BY <1>1, <1>5, <1>6 DEF AccountInv, MeInv, ReadInv, DraftInv, TokenInv, cache, Unknown
<1> QED BY <1>6, <1>7 DEF AccountInv

-----------------------------------------------------------------------------
(* Requests, and what is shown of their replies.                            *)

LEMMA AskForm ==
  ASSUME AccountInv, NEW request, Ask(request),
         "kind" \in DOMAIN request, DOMAIN request \intersect {"fate", "token"} = {},
         request.kind \in Entering => "user" \in DOMAIN request /\ request.user \in Users,
         request.kind = "update" =>
           /\ {"base", "from", "content"} \subseteq DOMAIN request
           /\ Key(request.base) = Key(request.from) /\ request.content \in Contents
           /\ Seen(users, issued, request.from)
  PROVE  AccountInv'
<1>1. /\ op' = Joined(request, [no |-> bounds.requests, token |-> cookie, fate |-> "sent"])
      /\ UNCHANGED <<page, cache, draft, orphans, cookie, server>>
  BY DEF Ask
<1>2. /\ {"kind", "fate", "token"} \subseteq DOMAIN op' /\ op'.fate = "sent" /\ op'.token = cookie
      /\ DOMAIN request \subseteq DOMAIN op' /\ \A x \in DOMAIN request : op'[x] = request[x]
  BY <1>1 DEF Joined
<1>3. op'.kind = request.kind
  BY <1>2
<1>4. request.kind \in Entering => "user" \in DOMAIN op' /\ op'.user \in Users
  BY <1>2
<1>5. request.kind = "update" =>
        /\ {"base", "from", "content"} \subseteq DOMAIN op'
        /\ Key(op'.base) = Key(op'.from) /\ op'.content \in Contents
        /\ Seen(users, issued, op'.from)
  BY <1>2
<1>6. cookie \in Ids(issued)
  BY DEF AccountInv, TokenInv
<1>7. IsForm(users, issued, op')
  BY <1>2, <1>3, <1>4, <1>5, <1>6 DEF IsForm
<1>8. ServerInv' /\ issued' = issued /\ users' = users
  BY <1>1, ServerStays DEF AccountInv, server
<1>9. FormInv'
  BY <1>1, <1>7, <1>8 DEF AccountInv, FormInv, Asked
<1> QED BY <1>1, <1>8, <1>9
        DEF AccountInv, MeInv, ReadInv, DraftInv, TokenInv, cache, Unknown

LEMMA OwnerAccount ==
  ASSUME AccountInv, SignIn \/ Save \/ Logout \/ Remove \/ Write
  PROVE  AccountInv'
<1>1. CASE SignIn
  <2>1. PICK c \in Credentials : Ask(c)
    BY <1>1 DEF SignIn
  <2>2. DOMAIN c = {"kind", "user"} /\ c.user \in Users /\ c.kind # "update"
    BY DEF Credentials
  <2> QED BY <2>1, <2>2, AskForm
<1>2. CASE Save
  <2> DEFINE from == IF DraftShown THEN draft.from ELSE me.data
             content == IF DraftShown THEN draft.content ELSE me.data.content
             request == [kind |-> "update", base |-> me.data, content |-> content, from |-> from]
  <2>1. Seen(users, issued, me.data)
    BY <1>2 DEF Save, AccountOpen, AccountInv, MeInv, SeenIf
  <2>2. Seen(users, issued, from) /\ Key(from) = Key(me.data) /\ content \in Contents
    BY <2>1 DEF DraftShown, AccountInv, DraftInv, IsDraft, Seen, Rows
  <2>3. Ask(request)
    BY <1>2 DEF Save
  <2> HIDE DEF from, content
  <2>4. /\ DOMAIN request = {"kind", "base", "content", "from"} /\ request.kind = "update"
        /\ request.base = me.data /\ request.from = from /\ request.content = content
    OBVIOUS
  <2> HIDE DEF request
  <2> QED BY <2>2, <2>3, <2>4, AskForm DEF Entering
<1>3. CASE Logout \/ Remove \/ Write
  <2>1. PICK kind \in {"logout", "delete", "write"} : Ask([kind |-> kind])
    BY <1>3 DEF Logout, Remove, Write
  <2> DEFINE request == [kind |-> kind]
  <2>2. DOMAIN request = {"kind"} /\ request.kind = kind /\ Ask(request)
    BY <2>1
  <2> HIDE DEF request
  <2> QED BY <2>2, AskForm DEF Entering
<1> QED BY <1>1, <1>2, <1>3

LEMMA ReplyAccount ==
  ASSUME AccountInv, NEW o \in Asked, ReplyShown(o) \/ ReplyFails(o)
  PROVE  AccountInv'
<1>0. UNCHANGED server /\ IsForm(users, issued, o) /\ page \in Pages
  BY DEF ReplyShown, ReplyFails, AccountInv, FormInv, TokenInv, Pages
<1>1. CASE SignedIn(o)
  <2>1. /\ Seen(users, issued, o.row) /\ o.session \in DOMAIN issued
        /\ cookie' = o.session /\ Emptied(Known(o.row), cookie') /\ Go("account", o)
    BY <1>0, <1>1 DEF SignedIn, IsForm, Entering
  <2>2. Known(o.row) \in Views /\ Known(o.row).data = o.row
    BY <2>1, UnknownIsView DEF Seen
  <2>3. /\ SeenIf(users, issued, Known(o.row).data) /\ cookie' \in Ids(issued)
        /\ "account" \in Pages
    BY <2>1, <2>2 DEF SeenIf, Ids, Pages
  <2> QED BY <1>0, <2>1, <2>2, <2>3, CacheEmptied
<1>2. CASE LoggedOut(o) \/ Removed(o) \/ TurnedAway(o)
  <2>1. PICK p \in Pages : Go(p, o)
    BY <1>0, <1>2 DEF LoggedOut, Removed, TurnedAway, Pages
  <2>2. Emptied(Unknown, cookie') /\ cookie' \in Ids(issued)
    BY <1>2 DEF LoggedOut, Removed, TurnedAway, Cleared, Expired, AccountInv, TokenInv, Ids
  <2>3. Unknown \in Views /\ SeenIf(users, issued, Unknown.data)
    BY UnknownIsView DEF SeenIf
  <2> QED BY <1>0, <2>1, <2>2, <2>3, CacheEmptied
<1>3. CASE LogoutRefused(o) \/ NothingChanged(o) \/ ReplyFails(o)
  <2>1. Go(page, o) /\ UNCHANGED cache /\ cookie' \in {cookie, None}
    BY <1>3 DEF LogoutRefused, NothingChanged, ReplyFails, Expired
  <2> QED BY <1>0, <2>1, CacheKept
<1>4. CASE Saved(o)
  <2>1. /\ Seen(users, issued, o.row) /\ me' = Known(o.row) /\ Go(page, o)
        /\ UNCHANGED <<read, lists, listing, ghosts, cookie>>
    BY <1>0, <1>4 DEF Saved, IsForm
  <2>2. /\ ServerInv' /\ FormInv' /\ DraftInv' /\ page' \in Pages
        /\ issued' = issued /\ users' = users
    BY <1>0, <2>1, GoKeeps
  <2>3. me' \in Views /\ me'.data = o.row /\ me' # Unknown
    BY <2>1, UnknownIsView DEF Seen
  <2>4. MeInv' /\ ReadInv'
    BY <2>1, <2>2, <2>3 DEF AccountInv, MeInv, ReadInv, SeenIf, Unknown
  <2>5. TokenInv'
    BY <2>1, <2>2 DEF AccountInv, TokenInv, Pages
  <2> QED BY <2>2, <2>4, <2>5 DEF AccountInv
<1> QED BY <1>1, <1>2, <1>3, <1>4 DEF ReplyShown

-----------------------------------------------------------------------------
(* The invariant, the types, and what a saved form replaces.                *)

LEMMA AccountInit == Init => AccountInv
<1> SUFFICES ASSUME Init PROVE AccountInv
  OBVIOUS
<1>1. /\ issued \in Seq(Users) /\ Len(issued) = 1 /\ live = {1}
      /\ issued[1] \in Registered /\ cookie \in {1, None}
  <2>1. PICK u \in Registered : issued = <<u>>
    BY DEF Init
  <2> QED BY <2>1, UsersAssumption DEF Init
<1>2. Tokens = {1} /\ DOMAIN issued = {1}
  BY <1>1 DEF Tokens
<1>3. AreRows(users) /\ \A u \in Registered : users[u] # None
  <2> DEFINE content == CHOOSE c \in Contents : TRUE
             Row(u) == [id |-> u, revision |-> 1, content |-> content]
  <2>1. content \in Contents
    BY UsersAssumption
  <2>2. users = [u \in Users |-> IF u \in Registered THEN Row(u) ELSE None]
    BY DEF Init
  <2> HIDE DEF content
  <2>3. \A u \in Users : Row(u) \in Rows /\ Row(u).id = u /\ Row(u) # None
    BY <2>1, NoneAssumption DEF Rows
  <2> HIDE DEF Row
  <2> QED BY <2>2, <2>3, UsersAssumption DEF AreRows
<1>4. ServerInv
  BY <1>1, <1>2, <1>3 DEF ServerInv
<1>5. MeInv /\ ReadInv
  <2>1. me = Unknown /\ read = Sent(cookie) /\ cookie \in Ids(issued)
    BY <1>1, <1>2 DEF Init, Ids
  <2>2. read # None /\ IsRead(users, issued, read)
    BY <1>1, <2>1, SentIsRead
  <2> QED BY <2>1, <2>2, UnknownIsView DEF MeInv, ReadInv, SeenIf
<1>6. DraftInv /\ FormInv
  BY DEF Init, DraftInv, FormInv, Asked
<1>7. TokenInv
  BY <1>1, <1>2 DEF Init, TokenInv, Ids
<1> QED BY <1>4, <1>5, <1>6, <1>7 DEF AccountInv

LEMMA AccountStep == AccountInv /\ [Next]_vars => AccountInv'
<1> SUFFICES ASSUME AccountInv, [Next]_vars PROVE AccountInv'
  OBVIOUS
<1>1. CASE \/ \E p \in {"auth", "account", "private"} : Visit(p)
           \/ AlreadyIn \/ SessionLost
  BY <1>1, NavigationAccount
<1>2. CASE Read \/ ReadAnswered \/ ReadShown
  BY <1>2, ReadAccount, ReadAnsweredAccount, ReadShownAccount
<1>3. CASE ReadLists \/ ListsShown \/ ListsRefused \/ \E token \in ghosts : GhostAnswered(token)
  BY <1>3, ListsAccount
<1>4. CASE Type
  BY <1>4, TypeAccount
<1>5. CASE SignIn \/ Save \/ Logout \/ Remove \/ Write
  BY <1>5, OwnerAccount
<1>6. ASSUME NEW o \in Asked, Handle(o) \/ ReplyShown(o) \/ ReplyFails(o) PROVE AccountInv'
  BY <1>6, HandleAccount, ReplyAccount
<1>7. CASE Elsewhere
  BY <1>7, ElsewhereAccount
<1>8. CASE UNCHANGED vars
  <2>1. UNCHANGED <<page, cache, draft, cookie, server, op, orphans>>
    BY <1>8 DEF vars
  <2>2. ServerInv' /\ Grows
    BY <2>1, ServerStays DEF AccountInv, server
  <2>3. FormInv'
    BY <2>1 DEF AccountInv, FormInv, Asked, server
  <2> QED BY <2>1, <2>2, <2>3, BrowserStays
<1> QED BY <1>1, <1>2, <1>3, <1>4, <1>5, <1>6, <1>7, <1>8 DEF Next

\* The state is well typed: what the browser knows, keeps and asks is of
\* accounts and sessions there were.
THEOREM TypeCorrect == Spec => []TypeOK
<1>1. AccountInv => TypeOK
  <2> SUFFICES ASSUME AccountInv PROVE TypeOK
    OBVIOUS
  <2>1. Tokens = DOMAIN issued
    BY DEF AccountInv, ServerInv, Tokens
  <2>2. \A r \in {read, listing} \ {None} : r.token \in Tokens \union {None}
    BY <2>1 DEF AccountInv, ReadInv, IsRead, TokenInv, Ids
  <2>3. \A o \in Asked : o.token \in Tokens \union {None}
    BY <2>1 DEF AccountInv, FormInv, IsForm, Ids
  <2>4. live \union ghosts \subseteq Tokens /\ cookie \in Tokens \union {None}
    BY <2>1 DEF AccountInv, ServerInv, TokenInv, Ids
  <2> QED BY <2>2, <2>3, <2>4
          DEF AccountInv, ServerInv, MeInv, TokenInv, AreRows, TypeOK
<1> QED BY <1>1, AccountInit, AccountStep, PTL DEF Spec

LEMMA OneAnswered ==
  ASSUME NEW q \in Asked, NEW answer, Answered(q, answer)
  PROVE  Asked \ Asked' \subseteq {q}
BY DEF Answered, Asked

\* A form that is answered by a change of the account it was begun from
\* replaces the very row it was begun from, whatever was read, answered late
\* or changed elsewhere between.
THEOREM DraftIsOfTheRowReplacedAlways == Spec => DraftIsOfTheRowReplaced
<1>1. ASSUME AccountInv, [Next]_vars, NEW o \in Asked \ Asked', o.kind = "update", users' # users,
             o.from.id = issued[o.token]
      PROVE  o.from = users[o.from.id]
  <2>1. PICK q \in Asked : Handle(q)
    <3>1. CASE Elsewhere
      BY <1>1, <3>1 DEF Elsewhere, Asked
    <3>2. CASE \E q \in Asked : ReplyShown(q) \/ ReplyFails(q)
      BY <1>1, <3>2 DEF ReplyShown, ReplyFails, server
    <3>3. CASE SignIn \/ Save \/ Logout \/ Remove \/ Write
      BY <1>1, <3>3 DEF SignIn, Save, Logout, Remove, Write, Ask, server
    <3>4. CASE \/ \E p \in {"auth", "account", "private"} : Visit(p)
               \/ AlreadyIn \/ SessionLost \/ Type \/ UNCHANGED vars
      BY <1>1, <3>4 DEF Visit, AlreadyIn, Opened, SessionLost, Type, vars, server
    <3>5. CASE \/ Read \/ ReadAnswered \/ ReadShown \/ ReadLists \/ ListsShown \/ ListsRefused
               \/ \E token \in ghosts : GhostAnswered(token)
      BY <1>1, <3>5 DEF Read, ReadAnswered, ReadShown, ReadLists, ListsShown, ListsRefused,
                        GhostAnswered, server
    <3> QED BY <1>1, <3>1, <3>2, <3>3, <3>4, <3>5 DEF Next
  <2>2. o = q
    <3>1. PICK answer : Answered(q, answer)
      BY <2>1 DEF Handle, Enter, Change, EndSession, DeleteAccount, Written, Unauthorized, Refused
    <3> QED BY <1>1, <3>1, OneAnswered
  <2>3. Change(o) /\ Owner(o).revision = o.base.revision
    BY <1>1, <2>1, <2>2 DEF Handle, Enter, Change, EndSession, DeleteAccount, Written,
                            Unauthorized, Refused, server
  <2>4. Owner(o) = users[o.from.id] /\ Owner(o) # None
    BY <1>1, <2>3 DEF Owner, Change, Live, AccountInv, ServerInv
  <2>5. Key(o.base) = Key(o.from) /\ Seen(users, issued, o.from)
    BY <1>1 DEF AccountInv, FormInv, IsForm
  <2>6. o.from.revision = o.base.revision
    BY <2>5 DEF Key
  <2> QED BY <2>3, <2>4, <2>5, <2>6 DEF Seen
<1>2. AccountInv /\ [Next]_vars =>
        [ \A o \in Asked \ Asked' :
            o.kind = "update" /\ users' # users /\ o.from.id = issued[o.token]
              => o.from = users[o.from.id] ]_vars
  BY <1>1
<1> QED BY <1>2, AccountInit, AccountStep, PTL DEF Spec, DraftIsOfTheRowReplaced

=============================================================================
