---- MODULE ConversationsProofs ----
(***************************************************************************)
(* For any number of calls, clients, logins and teardowns: the page can    *)
(* end every call that goes on, unless a teardown or a logout has outlived *)
(* its client.  For any facts and calls: what was committed last is        *)
(* remembered, which was said last unless its save was delayed, and        *)
(* nothing of a purged call.  For any callers and workers: what is heard   *)
(* of a reply is its words, once and in order.  For any window and any     *)
(* summaries: a tool's result keeps its call in the context.  For any      *)
(* calls: no more of them go on than there are slots.                      *)
(***************************************************************************)
EXTENDS Conversations, SequenceTheorems, FiniteSetTheorems, TLAPS

Links == {"posting", "connecting", "up", "down"}
AttemptRows == [client : Nat \ {0}, link : Links, promise : {"pending", "timed out", "settled"},
                session : {"none", "live", "ended", "refused"}]
TeardownRows == [client : Nat \ {0}, logout : BOOLEAN, fresh : Nat]

PageTypes ==
  /\ attempts \in Seq(AttemptRows) /\ teardowns \in Seq(TeardownRows)
  /\ client \in Nat /\ made \in Nat /\ logins \in Nat

\* Without a token the page has no client, the run that makes one finds none, and
\* a logout is waited for by its teardown: so a call's client is not replaced
\* while nobody tears it down.
ClientInv ==
  /\ ~token => client = 0
  /\ "current" \in initializing => token /\ client = 0
  /\ logoutInProgress => \E i \in 1..Len(teardowns) : teardowns[i].logout
  /\ \A a \in 1..Len(attempts) :
       InUse(a) => \/ attempts[a].client = client
                   \/ \E i \in 1..Len(teardowns) : teardowns[i].client = attempts[a].client

PageInv == PageTypes /\ ("client" \in raced \/ ClientInv)

---------------------------------------------------------------------------
LEMMA AttemptsHaveClients ==
  ASSUME PageTypes, NEW a \in 1..Len(attempts)
  PROVE  attempts[a].client \in Nat \ {0}
<1>1. attempts[a] \in AttemptRows
  BY DEF PageTypes
<1> QED
  BY <1>1 DEF AttemptRows

\* An element is taken out of a sequence, and those behind it move up.
LEMMA RemovalShifts ==
  ASSUME NEW S, NEW s \in Seq(S), NEW i \in 1..Len(s)
  PROVE  /\ RemoveAt(s, i) \in Seq(S) /\ Len(RemoveAt(s, i)) = Len(s) - 1
         /\ \A k \in 1..(Len(s) - 1) : RemoveAt(s, i)[k] = IF k < i THEN s[k] ELSE s[k + 1]
<1> DEFINE before == SubSeq(s, 1, i - 1)
           after == SubSeq(s, i + 1, Len(s))
<1>1. /\ before \in Seq(S) /\ Len(before) = i - 1
      /\ \A k \in 1..(i - 1) : before[k] = s[k]
  OBVIOUS
<1>2. /\ after \in Seq(S) /\ Len(after) = Len(s) - i
      /\ \A k \in 1..(Len(s) - i) : after[k] = s[i + k]
  OBVIOUS
<1> HIDE DEF before, after
<1>3. /\ before \o after \in Seq(S) /\ Len(before \o after) = Len(before) + Len(after)
      /\ \A k \in 1..(Len(before) + Len(after)) :
           (before \o after)[k] = IF k =< Len(before) THEN before[k] ELSE after[k - Len(before)]
  BY <1>1, <1>2, ConcatProperties
<1>4. Len(s) \in Nat /\ Len(before) + Len(after) = Len(s) - 1
  <2>1. Len(s) \in Nat
    OBVIOUS
  <2> QED
    BY <1>1, <1>2, <2>1
<1>5. ASSUME NEW k \in 1..(Len(s) - 1)
      PROVE  (before \o after)[k] = IF k < i THEN s[k] ELSE s[k + 1]
  <2>1. CASE k < i
    BY <1>1, <1>3, <1>4, <2>1
  <2>2. CASE ~(k < i)
    <3>1. /\ ~(k =< Len(before)) /\ k - Len(before) \in 1..(Len(s) - i)
          /\ i + (k - Len(before)) = k + 1
      BY <1>1, <1>4, <2>2
    <3>2. (before \o after)[k] = after[k - Len(before)]
      BY <1>3, <1>4, <3>1
    <3> QED
      BY <1>2, <2>2, <3>1, <3>2
  <2> QED
    BY <2>1, <2>2
<1> QED
  BY <1>3, <1>4, <1>5 DEF RemoveAt, before, after

LEMMA RemovalKeepsOthers ==
  ASSUME NEW S, NEW s \in Seq(S), NEW i \in 1..Len(s)
  PROVE  /\ RemoveAt(s, i) \in Seq(S)
         /\ \A j \in 1..Len(s) : j # i => \E k \in 1..Len(RemoveAt(s, i)) : RemoveAt(s, i)[k] = s[j]
<1> DEFINE r == RemoveAt(s, i)
<1>1. /\ r \in Seq(S) /\ Len(r) = Len(s) - 1 /\ Len(s) \in Nat
      /\ \A k \in 1..(Len(s) - 1) : r[k] = IF k < i THEN s[k] ELSE s[k + 1]
  BY RemovalShifts
<1> HIDE DEF r
<1>2. ASSUME NEW j \in 1..Len(s), j # i
      PROVE  \E k \in 1..Len(r) : r[k] = s[j]
  <2>1. CASE j < i
    BY <1>1, <2>1
  <2>2. CASE j > i
    <3>1. j - 1 \in 1..(Len(s) - 1) /\ ~(j - 1 < i) /\ j - 1 + 1 = j
      BY <1>1, <2>2
    <3>2. r[j - 1] = s[j]
      BY <1>1, <3>1
    <3> QED
      BY <1>1, <3>1, <3>2
  <2> QED
    BY <1>2, <2>1, <2>2
<1> QED
  BY <1>1, <1>2 DEF r

\* The calls go on, end or are shown; the page's client stays.
LEMMA CallsKeepPageInv ==
  ASSUME PageInv, attempts' \in Seq(AttemptRows), Len(attempts') = Len(attempts),
         \A a \in 1..Len(attempts) :
           /\ attempts'[a].client = attempts[a].client
           /\ InUse(a)' => InUse(a),
         UNCHANGED <<token, logins, initializing, client, made, teardowns, logoutInProgress>>,
         "client" \in raced' <=> "client" \in raced
  PROVE  PageInv'
<1> QED
  BY DEF PageInv, PageTypes, ClientInv

\* The new row of one call.
LEMMA RowKeepsPageInv ==
  ASSUME PageInv, NEW a \in Attempts, NEW row \in AttemptRows,
         attempts' = [attempts EXCEPT ![a] = row], row.client = attempts[a].client,
         \/ row.link \in {attempts[a].link, "down"}
         \/ attempts[a].link \in {"posting", "connecting"},
         pageUnchanged
  PROVE  PageInv'
<1>1. attempts \in Seq(AttemptRows) /\ a \in 1..Len(attempts)
  BY DEF PageInv, PageTypes, Attempts
<1>2. /\ attempts' \in Seq(AttemptRows) /\ Len(attempts') = Len(attempts)
      /\ attempts'[a] = row /\ \A b \in 1..Len(attempts) : b # a => attempts'[b] = attempts[b]
  BY <1>1, ExceptSeq
<1>3. \A b \in 1..Len(attempts) :
        attempts'[b].client = attempts[b].client /\ (InUse(b)' => InUse(b))
  BY <1>2 DEF InUse
<1> QED
  BY <1>2, <1>3, CallsKeepPageInv DEF pageUnchanged

LEMMA AttemptKeepsPageInv ==
  ASSUME PageInv, NEW a \in Attempts,
         \/ reject_over_capacity(a) \/ bot(a) \/ connected(a) \/ call_ready(a) \/ start_failed(a)
         \/ withConnectionDeadline(a) \/ link_lost(a) \/ session_ends(a)
  PROVE  PageInv'
<1> DEFINE row == attempts[a]
<1>1. row \in AttemptRows
  BY DEF PageInv, PageTypes, Attempts
<1>2. pageUnchanged
  BY DEF reject_over_capacity, bot, connected, call_ready, start_failed, withConnectionDeadline,
         link_lost, session_ends
<1>3. CASE call_ready(a)
  <2>1. attempts' = attempts
    BY <1>3 DEF call_ready
  <2> QED
    BY <1>2, <2>1, CallsKeepPageInv DEF pageUnchanged, PageInv, PageTypes, InUse
<1>4. ASSUME NEW new \in AttemptRows, attempts' = [attempts EXCEPT ![a] = new],
             new.client = row.client,
             new.link \in {row.link, "down"} \/ row.link \in {"posting", "connecting"}
      PROVE  PageInv'
  BY <1>2, <1>4, RowKeepsPageInv
<1>5. CASE reject_over_capacity(a)
  <2> DEFINE link == IF HasCapacity THEN "connecting" ELSE "down"
             new == [row EXCEPT !.link = link]
  <2>1. row.link = "posting" /\ attempts' = [attempts EXCEPT ![a] = new]
    BY <1>5 DEF reject_over_capacity
  <2>2. link \in Links
    BY DEF Links
  <2> HIDE DEF link
  <2>3. new \in AttemptRows /\ new.client = row.client
    BY <1>1, <2>2 DEF AttemptRows
  <2> HIDE DEF new
  <2> QED
    BY <1>4, <2>1, <2>3
<1>6. CASE bot(a)
  <2> DEFINE live == [row EXCEPT !.session = "live"]
             refused == [row EXCEPT !.session = "refused", !.link = "down"]
  <2>1. /\ row.link = "connecting"
        /\ \/ attempts' = [attempts EXCEPT ![a] = live]
           \/ attempts' = [attempts EXCEPT ![a] = refused]
    BY <1>6 DEF bot
  <2>2. /\ live \in AttemptRows /\ live.client = row.client
        /\ refused \in AttemptRows /\ refused.client = row.client
    BY <1>1 DEF AttemptRows, Links
  <2> HIDE DEF live, refused
  <2> QED
    BY <1>4, <2>1, <2>2
<1>7. CASE connected(a)
  <2> DEFINE new == [row EXCEPT !.link = "up", !.promise = "settled"]
  <2>1. row.link = "connecting" /\ attempts' = [attempts EXCEPT ![a] = new]
    BY <1>7 DEF connected
  <2>2. new \in AttemptRows /\ new.client = row.client
    BY <1>1 DEF AttemptRows, Links
  <2> HIDE DEF new
  <2> QED
    BY <1>4, <2>1, <2>2
<1>8. CASE start_failed(a) \/ session_ends(a)
  <2> DEFINE settled == [row EXCEPT !.promise = "settled"]
             ended == [row EXCEPT !.session = "ended"]
  <2>1. \/ attempts' = [attempts EXCEPT ![a] = settled]
        \/ attempts' = [attempts EXCEPT ![a] = ended]
    BY <1>8 DEF start_failed, session_ends
  <2>2. /\ settled \in AttemptRows /\ settled.client = row.client /\ settled.link = row.link
        /\ ended \in AttemptRows /\ ended.client = row.client /\ ended.link = row.link
    BY <1>1 DEF AttemptRows
  <2> HIDE DEF settled, ended
  <2> QED
    BY <1>4, <2>1, <2>2
<1>9. CASE withConnectionDeadline(a) \/ link_lost(a)
  <2> DEFINE expired == [row EXCEPT !.promise = "timed out", !.link = "down"]
             lost == [row EXCEPT !.link = "down"]
  <2>1. \/ attempts' = [attempts EXCEPT ![a] = expired]
        \/ attempts' = [attempts EXCEPT ![a] = lost]
    BY <1>9 DEF withConnectionDeadline, link_lost
  <2>2. /\ expired \in AttemptRows /\ expired.client = row.client /\ expired.link = "down"
        /\ lost \in AttemptRows /\ lost.client = row.client /\ lost.link = "down"
    BY <1>1 DEF AttemptRows, Links
  <2> HIDE DEF expired, lost
  <2> QED
    BY <1>4, <2>1, <2>2
<1> QED
  BY <1>3, <1>5, <1>6, <1>7, <1>8, <1>9

---------------------------------------------------------------------------
(* The page's own steps. *)

LEMMA StartKeepsPageInv ==
  ASSUME PageInv, startCall
  PROVE  PageInv'
<1> DEFINE row == [client |-> client, link |-> "posting", promise |-> "pending", session |-> "none"]
<1>1. /\ attempts \in Seq(AttemptRows) /\ client \in Nat \ {0}
      /\ attempts' = Append(attempts, row)
      /\ UNCHANGED <<token, logins, initializing, client, made, teardowns, logoutInProgress, raced>>
  BY DEF PageInv, PageTypes, startCall
<1>2. row \in AttemptRows /\ row.client = client
  BY <1>1 DEF AttemptRows, Links
<1> HIDE DEF row
<1>3. /\ attempts' \in Seq(AttemptRows) /\ Len(attempts') = Len(attempts) + 1
      /\ attempts'[Len(attempts) + 1] = row
      /\ \A a \in 1..Len(attempts) : attempts'[a] = attempts[a]
  BY <1>1, <1>2
<1>4. PageTypes'
  BY <1>1, <1>3 DEF PageInv, PageTypes
<1>5. ASSUME ClientInv, NEW a \in 1..Len(attempts'), InUse(a)'
      PROVE  \/ attempts'[a].client = client
             \/ \E i \in 1..Len(teardowns) : teardowns[i].client = attempts'[a].client
  <2>1. Len(attempts) \in Nat
    BY <1>1
  <2>2. CASE a = Len(attempts) + 1
    BY <1>2, <1>3, <2>2
  <2>3. CASE a # Len(attempts) + 1
    <3>1. a \in 1..Len(attempts) /\ attempts'[a] = attempts[a]
      BY <1>3, <2>1, <2>3
    <3>2. InUse(a)
      BY <1>5, <3>1 DEF InUse
    <3> QED
      BY <1>5, <3>1, <3>2 DEF ClientInv
  <2> QED
    BY <2>2, <2>3
<1> QED
  BY <1>1, <1>4, <1>5 DEF PageInv, ClientInv

LEMMA ClientMadeKeepsPageInv ==
  ASSUME PageInv, handleLogin \/ initializeClient
  PROVE  PageInv'
<1>1. /\ UNCHANGED <<attempts, teardowns, logoutInProgress, raced>>
      /\ \A a : InUse(a)' <=> InUse(a)
  BY DEF handleLogin, initializeClient, InUse
<1>2. PageTypes'
  BY <1>1 DEF PageInv, PageTypes, handleLogin, initializeClient, SetNewClient
<1>3. ASSUME ClientInv
      PROVE  ClientInv'
  <2>1. CASE handleLogin
    BY <1>1, <1>3, <2>1 DEF ClientInv, handleLogin
  <2>2. CASE /\ "current" \in initializing /\ SetNewClient /\ token' = token
             /\ initializing' = initializing \ {"current"}
    <3>1. \A a \in 1..Len(attempts) : attempts[a].client # client
      BY <1>3, <2>2, AttemptsHaveClients DEF ClientInv, PageInv
    <3> QED
      BY <1>1, <1>3, <2>2, <3>1 DEF ClientInv
  <2>3. CASE /\ UNCHANGED <<client, token>> /\ initializing' = initializing \ {"stale"}
    BY <1>1, <1>3, <2>3 DEF ClientInv
  <2> QED
    BY <2>1, <2>2, <2>3 DEF initializeClient
<1> QED
  BY <1>1, <1>2, <1>3 DEF PageInv

LEMMA TeardownBeginsKeepsPageInv ==
  ASSUME PageInv, client # 0, NEW logout \in BOOLEAN, NEW fresh \in Nat,
         disconnectBegins(logout, fresh),
         UNCHANGED <<token, logins, initializing, client, made, attempts, raced>>,
         logoutInProgress' => logoutInProgress \/ logout
  PROVE  PageInv'
<1> DEFINE row == [client |-> client, logout |-> logout, fresh |-> fresh]
<1>1. /\ teardowns \in Seq(TeardownRows) /\ teardowns' = Append(teardowns, row)
      /\ \A a : InUse(a)' <=> InUse(a)
  BY DEF PageInv, PageTypes, disconnectBegins, InUse
<1>2. row \in TeardownRows /\ row.logout = logout
  BY DEF PageInv, PageTypes, TeardownRows
<1> HIDE DEF row
<1>3. /\ teardowns' \in Seq(TeardownRows) /\ Len(teardowns') = Len(teardowns) + 1
      /\ teardowns'[Len(teardowns) + 1] = row /\ Len(teardowns) \in Nat
      /\ \A i \in 1..Len(teardowns) : teardowns'[i] = teardowns[i]
  BY <1>1, <1>2
<1>4. \A i \in 1..Len(teardowns) : i \in 1..Len(teardowns')
  BY <1>3
<1>5. Len(teardowns) + 1 \in 1..Len(teardowns')
  BY <1>3
<1>6. ASSUME ClientInv
      PROVE  ClientInv'
  <2>1. logoutInProgress' => \E i \in 1..Len(teardowns') : teardowns'[i].logout
    BY <1>2, <1>3, <1>4, <1>5, <1>6 DEF ClientInv
  <2> QED
    BY <1>1, <1>3, <1>4, <1>6, <2>1 DEF ClientInv
<1> QED
  BY <1>3, <1>6 DEF PageInv, PageTypes

\* The token and the page's client go, while the calls that go on are torn down.
LEMMA LogoutKeepsPageInv ==
  ASSUME PageInv, LoggedOut, UNCHANGED <<made, logins>>,
         attempts' \in Seq(AttemptRows), Len(attempts') = Len(attempts),
         teardowns' \in Seq(TeardownRows),
         \A a \in 1..Len(attempts) : attempts'[a].client = attempts[a].client,
         \/ "client" \in raced'
         \/ ClientInv /\ \A a \in 1..Len(attempts) :
              InUse(a)' => \E i \in 1..Len(teardowns') :
                             teardowns'[i].client = attempts[a].client
  PROVE  PageInv'
<1>1. PageTypes'
  BY DEF PageInv, PageTypes, LoggedOut
<1>2. ~token' /\ client' = 0 /\ "current" \notin initializing' /\ ~logoutInProgress'
  BY DEF LoggedOut
<1> QED
  BY <1>1, <1>2 DEF PageInv, ClientInv

LEMMA TeardownEndsKeepsPageInv ==
  ASSUME PageInv, NEW i \in DOMAIN teardowns, disconnectEnds(i)
  PROVE  PageInv'
<1> DEFINE n == teardowns[i].client
           down(a) == [attempts[a] EXCEPT !.link = "down"]
<1>1. /\ attempts \in Seq(AttemptRows) /\ teardowns \in Seq(TeardownRows)
      /\ i \in 1..Len(teardowns) /\ n \in Nat \ {0} /\ made \in Nat
  <2>1. /\ attempts \in Seq(AttemptRows) /\ teardowns \in Seq(TeardownRows)
        /\ i \in 1..Len(teardowns) /\ made \in Nat
    BY DEF PageInv, PageTypes
  <2>2. teardowns[i] \in TeardownRows
    BY <2>1
  <2> QED
    BY <2>1, <2>2 DEF TeardownRows
<1>2. /\ teardowns' = RemoveAt(teardowns, i)
      /\ attempts' = [a \in 1..Len(attempts) |->
                        IF attempts[a].client = n THEN down(a) ELSE attempts[a]]
      /\ raced' = raced \cup (IF client # n THEN {"client"} ELSE {}) /\ UNCHANGED logins
  BY <1>1 DEF disconnectEnds, Attempts
<1>3. /\ teardowns' \in Seq(TeardownRows)
      /\ \A j \in 1..Len(teardowns) : j # i =>
           \E k \in 1..Len(teardowns') : teardowns'[k] = teardowns[j]
  BY <1>1, <1>2, RemovalKeepsOthers
<1>4. \A a \in 1..Len(attempts) :
        down(a) \in AttemptRows /\ down(a).client = attempts[a].client /\ down(a).link = "down"
  <2>1. TAKE a \in 1..Len(attempts)
  <2>2. attempts[a] \in AttemptRows
    BY <1>1
  <2> QED
    BY <2>2 DEF AttemptRows, Links
<1> HIDE DEF down
<1>5. /\ attempts' \in Seq(AttemptRows) /\ Len(attempts') = Len(attempts)
  <2>1. \A a \in 1..Len(attempts) :
          (IF attempts[a].client = n THEN down(a) ELSE attempts[a]) \in AttemptRows
    BY <1>1, <1>4
  <2>2. Len(attempts) \in Nat /\ attempts' \in [1..Len(attempts) -> AttemptRows]
    BY <1>1, <1>2, <2>1
  <2> QED
    BY <2>2
<1>6. \A a \in 1..Len(attempts) :
        /\ attempts'[a].client = attempts[a].client
        /\ InUse(a)' => InUse(a) /\ attempts[a].client # n
  BY <1>2, <1>4 DEF InUse
<1>7. \A a \in 1..Len(attempts) :
        ClientInv /\ client = n /\ InUse(a)'
          => \E k \in 1..Len(teardowns') : teardowns'[k].client = attempts[a].client
  <2>1. SUFFICES ASSUME NEW a \in 1..Len(attempts), ClientInv, client = n, InUse(a)'
                 PROVE  \E k \in 1..Len(teardowns') : teardowns'[k].client = attempts[a].client
    OBVIOUS
  <2>2. PICK j \in 1..Len(teardowns) : teardowns[j].client = attempts[a].client
    BY <1>6, <2>1 DEF ClientInv
  <2>3. j # i
    BY <1>6, <2>1, <2>2
  <2> QED
    BY <1>3, <2>2, <2>3
<1>8. "client" \in raced' \/ (ClientInv /\ client = n)
  BY <1>2 DEF PageInv
<1>9. CASE teardowns[i].logout
  <2>1. LoggedOut /\ UNCHANGED made
    BY <1>9 DEF disconnectEnds
  <2> QED
    BY <1>2, <1>3, <1>5, <1>6, <1>7, <1>8, <2>1, LogoutKeepsPageInv
<1>10. CASE ~teardowns[i].logout
  <2>1. /\ made' = made + 1 /\ client' = made + 1
        /\ UNCHANGED <<token, initializing, logoutInProgress>>
    BY <1>10 DEF disconnectEnds, SetNewClient
  <2>2. PageTypes'
    BY <1>1, <1>2, <1>3, <1>5, <2>1 DEF PageInv, PageTypes
  <2>3. ASSUME ClientInv, client = n
        PROVE  ClientInv'
    <3>1. token /\ "current" \notin initializing
      BY <1>1, <2>3 DEF ClientInv
    <3>2. logoutInProgress => \E k \in 1..Len(teardowns') : teardowns'[k].logout
      BY <1>3, <1>10, <2>3 DEF ClientInv
    <3>3. \A a \in 1..Len(attempts') :
            InUse(a)' => \E k \in 1..Len(teardowns') :
                           teardowns'[k].client = attempts'[a].client
      BY <1>5, <1>6, <1>7, <2>3
    <3> QED
      BY <2>1, <3>1, <3>2, <3>3 DEF ClientInv
  <2> QED
    BY <1>8, <2>2, <2>3 DEF PageInv
<1> QED
  BY <1>9, <1>10

LEMMA LogoutBeginsKeepsPageInv ==
  ASSUME PageInv, handleLogout
  PROVE  PageInv'
<1>1. UNCHANGED <<logins, made, attempts, raced>> /\ \A a : InUse(a)' <=> InUse(a)
  BY DEF handleLogout, InUse
<1>2. CASE client = 0
  <2>1. LoggedOut /\ UNCHANGED teardowns
    BY <1>2 DEF handleLogout
  <2>2. ASSUME ClientInv, NEW a \in 1..Len(attempts), InUse(a)
        PROVE  \E i \in 1..Len(teardowns) : teardowns[i].client = attempts[a].client
    BY <1>2, <2>2, AttemptsHaveClients DEF ClientInv, PageInv
  <2> QED
    BY <1>1, <2>1, <2>2, LogoutKeepsPageInv DEF PageInv, PageTypes
<1>3. CASE client # 0
  <2>1. /\ logoutInProgress' = TRUE /\ disconnectBegins(TRUE, 0)
        /\ UNCHANGED <<token, client, initializing>>
    BY <1>3 DEF handleLogout
  <2> QED
    BY <1>1, <1>3, <2>1, TeardownBeginsKeepsPageInv
<1> QED
  BY <1>2, <1>3

LEMMA LogoutTimeoutKeepsPageInv ==
  ASSUME PageInv, logout_timeout
  PROVE  PageInv'
<1> DEFINE free(i) == [teardowns[i] EXCEPT !.logout = FALSE]
           outlived == {i \in DOMAIN teardowns :
                         teardowns[i].logout /\ teardowns[i].client # client}
<1>1. /\ teardowns \in Seq(TeardownRows) /\ logoutInProgress /\ LoggedOut
      /\ UNCHANGED <<logins, made, attempts>> /\ \A a : InUse(a)' <=> InUse(a)
      /\ teardowns' = [i \in 1..Len(teardowns) |-> free(i)]
      /\ raced' = raced \cup {"client" : i \in outlived}
  BY DEF PageInv, PageTypes, logout_timeout, InUse
<1>2. \A i \in 1..Len(teardowns) :
        free(i) \in TeardownRows /\ free(i).client = teardowns[i].client
  <2>1. TAKE i \in 1..Len(teardowns)
  <2>2. teardowns[i] \in TeardownRows
    BY <1>1
  <2> QED
    BY <2>2 DEF TeardownRows
<1> HIDE DEF free
<1>3. /\ teardowns' \in Seq(TeardownRows) /\ Len(teardowns') = Len(teardowns)
      /\ \A i \in 1..Len(teardowns) : teardowns'[i].client = teardowns[i].client
  <2>1. Len(teardowns) \in Nat /\ teardowns' \in [1..Len(teardowns) -> TeardownRows]
    BY <1>1, <1>2
  <2> QED
    BY <1>1, <1>2, <2>1
<1>4. CASE "client" \in raced \/ outlived # {}
  <2>1. "client" \in raced'
    BY <1>1, <1>4
  <2> QED
    BY <1>1, <1>3, <2>1, LogoutKeepsPageInv DEF PageInv, PageTypes
<1>5. CASE "client" \notin raced /\ outlived = {}
  <2>1. ClientInv
    BY <1>5 DEF PageInv
  <2>2. PICK i \in 1..Len(teardowns) : teardowns[i].logout
    BY <1>1, <2>1 DEF ClientInv
  <2>3. teardowns[i].client = client
    BY <1>1, <1>5, <2>2
  <2>4. \A a \in 1..Len(attempts) :
          InUse(a) => \E j \in 1..Len(teardowns) : teardowns[j].client = attempts[a].client
    BY <2>1, <2>3 DEF ClientInv
  <2> QED
    BY <1>1, <1>3, <2>1, <2>4, LogoutKeepsPageInv DEF PageInv, PageTypes
<1> QED
  BY <1>4, <1>5

---------------------------------------------------------------------------
LEMMA InitPageInv == Init => PageInv
<1>1. PageInit => attempts = <<>> /\ teardowns = <<>> /\ client = 0 /\ made = 0 /\ logins = 0
                  /\ initializing = {} /\ ~logoutInProgress
  BY DEF PageInit
<1> QED
  BY <1>1 DEF Init, PageInv, PageTypes, ClientInv

LEMMA OthersKeepPageInv ==
  ASSUME PageInv, startNewCall \/ OtherCalls \/ refreshTerminalState \/ UNCHANGED pageVars
  PROVE  PageInv'
<1>1. UNCHANGED <<token, logins, initializing, client, made, attempts, teardowns, logoutInProgress>>
  BY DEF startNewCall, pageUnchanged, OtherCalls, refreshTerminalState, pageVars
<1>2. "client" \in raced' <=> "client" \in raced
  BY DEF startNewCall, pageUnchanged, OtherCalls, refreshTerminalState, pageVars, poll_sent,
         poll_failed, poll_answered, poll_read
<1> QED
  BY <1>1, <1>2, CallsKeepPageInv DEF PageInv, PageTypes, InUse

LEMMA PageStepKeepsPageInv ==
  ASSUME PageInv, PageStep
  PROVE  PageInv'
<1>1. CASE disconnect \/ startNewCallActive
  <2>1. PICK fresh \in Nat : disconnectBegins(FALSE, fresh)
    BY <1>1 DEF disconnect, startNewCallActive, PageInv, PageTypes
  <2>2. /\ UNCHANGED <<token, logins, initializing, client, made, attempts, raced>>
        /\ client # 0 /\ UNCHANGED logoutInProgress
    BY <1>1 DEF disconnect, startNewCallActive
  <2> QED
    BY <2>1, <2>2, TeardownBeginsKeepsPageInv
<1>2. CASE handleLogin \/ initializeClient
  BY <1>2, ClientMadeKeepsPageInv
<1>3. CASE startCall
  BY <1>3, StartKeepsPageInv
<1>4. CASE startNewCall \/ OtherCalls \/ refreshTerminalState
  BY <1>4, OthersKeepPageInv
<1>5. CASE \E a \in Attempts :
            \/ reject_over_capacity(a) \/ bot(a) \/ connected(a) \/ call_ready(a) \/ start_failed(a)
            \/ withConnectionDeadline(a) \/ link_lost(a) \/ session_ends(a)
  BY <1>5, AttemptKeepsPageInv
<1>6. CASE handleLogout
  BY <1>6, LogoutBeginsKeepsPageInv
<1>7. CASE logout_timeout
  BY <1>7, LogoutTimeoutKeepsPageInv
<1>8. CASE \E i \in DOMAIN teardowns : disconnectEnds(i)
  BY <1>8, TeardownEndsKeepsPageInv
<1> QED
  BY <1>1, <1>2, <1>3, <1>4, <1>5, <1>6, <1>7, <1>8 DEF PageStep, PageContinues

LEMMA NextKeepsPageInv ==
  ASSUME PageInv, [Next]_vars
  PROVE  PageInv'
<1>1. CASE PageCallStep
  BY <1>1, AttemptKeepsPageInv DEF PageCallStep
<1>2. CASE PageAlone
  BY <1>2, PageStepKeepsPageInv DEF PageAlone
<1>3. CASE ConversationStep \/ MemoryStep \/ UNCHANGED vars
  <2>1. UNCHANGED pageVars
    BY <1>3 DEF ConversationStep, MemoryStep, vars
  <2> QED
    BY <2>1, OthersKeepPageInv
<1> QED
  BY <1>1, <1>2, <1>3 DEF Next

LEMMA PageInvNoOrphan == PageInv => NoOrphanedCall
BY DEF PageInv, PageTypes, ClientInv, NoOrphanedCall, Attempts

\* Whatever logins, logouts, hang-ups and answers of the server overlap, and in any number,
\* a call of the page that goes on is of the page's client or is being torn down, unless a
\* teardown or a logout took another client than its own away (disconnect, handleLogout and
\* initializeClient of App.jsx).
THEOREM EveryCallCanBeEnded == Spec => []NoOrphanedCall
<1>1. Spec => []PageInv
  BY InitPageInv, NextKeepsPageInv, PTL DEF Spec
<1> QED
  BY <1>1, PageInvNoOrphan, PTL

---------------------------------------------------------------------------
\* What is remembered.

CallStates == {"none", "live", "ended", "deleted", "purged"}
Finds == Classifications \cup {<<>>}
FactRows == {NoRow} \cup [status : {"active", "inactive"}, source : Entries]

MemoryTypes ==
  /\ called \in [MemoryCalls -> CallStates]
  /\ entries \in Seq(Transcripts) /\ Len(entries) =< MaxEntries
  /\ unqueued \in Seq(Entries) /\ \A i \in 1..Len(unqueued) : unqueued[i] =< Len(entries)
  /\ lane \in Seq(Entries) /\ \A i \in 1..Len(lane) : lane[i] =< Len(entries)
  /\ \/ work = NoWork
     \/ /\ work.pc \in {"classified", "maintain"}
        /\ work.entry \in Entries /\ work.entry =< Len(entries) /\ work.events \in Finds
  /\ stated \in [Entries -> Finds]
  /\ table \in [Facts -> FactRows]
  /\ recall = [c \in MemoryCalls |-> recall[c]]

\* The transcripts of a call are enriched in the order in which they were committed: the one
\* at work is older than those in the lane, and these than the one still to be enqueued.
Before(d, e) == CallOf(d) = CallOf(e) => d < e

InOrder ==
  /\ \A i, j \in 1..Len(unqueued) : i # j => CallOf(unqueued[i]) # CallOf(unqueued[j])
  /\ \A i, j \in 1..Len(lane) : i < j => Before(lane[i], lane[j])
  /\ \A i \in 1..Len(lane), j \in 1..Len(unqueued) : Before(lane[i], unqueued[j])
  /\ work # NoWork => /\ \A i \in 1..Len(lane) : Before(work.entry, lane[i])
                      /\ \A j \in 1..Len(unqueued) : Before(work.entry, unqueued[j])

\* No fact is committed yet of a transcript that is newer than one that waits.
Awaited ==
  {unqueued[i] : i \in 1..Len(unqueued)} \cup {lane[i] : i \in 1..Len(lane)}
    \cup (IF work = NoWork THEN {} ELSE {work.entry})
Unsaid ==
  \A d \in Entries :
    (d > Len(entries) \/ \E e \in Awaited : e < d /\ CallOf(e) = CallOf(d)) => stated[d] = <<>>

\* Facts and windows are of calls that are not purged.
KeptInv ==
  /\ \A f \in Facts :
       table[f].source # 0 => table[f].source =< Len(entries) /\ Stored(table[f].source)
  /\ \A w \in windows : w.call \in MemoryCalls /\ called[w.call] # "purged"

\* The value that is kept was committed last in its call.
CommittedWins ==
  \A f \in {f \in Facts : f.key \in Singles /\ table[f].status = "active"} :
    /\ \A g \in Facts : g.type = f.type /\ g.key = f.key /\ table[g].status = "active" => g = f
    /\ \A e \in (table[f].source + 1)..Len(entries) :
         CallOf(e) = CallOf(table[f].source) =>
           \A i \in DOMAIN stated[e] :
             LET event == stated[e][i]
             IN ~(event.action = "upsert" /\ event.fact.type = f.type /\ event.fact.key = f.key)

MemoryInv == MemoryTypes /\ InOrder /\ Unsaid /\ KeptInv /\ CommittedWins

\* Of what the lane was given to save: what was committed out of the order in which it
\* was said was delayed, and so is what waits while a newer one is committed.
SaidInv ==
  /\ accepted \in 0..MaxEntries /\ unsaved \subseteq Transcripts /\ IsFiniteSet(unsaved)
  /\ Len(entries) + Cardinality(unsaved) =< accepted
  /\ \A r \in unsaved : r.nth =< accepted
  /\ \A e \in 1..Len(entries) : entries[e].nth =< accepted
  /\ \A d, e \in 1..Len(entries) :
       d < e /\ CallOf(d) = CallOf(e) /\ entries[d].nth > entries[e].nth => entries[e].late
  /\ \A r \in unsaved, e \in 1..Len(entries) :
       r.call = CallOf(e) /\ entries[e].nth > r.nth => r.late

LEMMA InitMemoryInv == MemoryInit => MemoryInv
<1> SUFFICES ASSUME MemoryInit PROVE MemoryInv
  OBVIOUS
<1>1. /\ called = [c \in MemoryCalls |-> "none"] /\ work = NoWork /\ windows = {}
      /\ entries = <<>> /\ unqueued = <<>> /\ lane = <<>> /\ Len(entries) = 0
      /\ stated = [e \in Entries |-> <<>>] /\ table = [f \in Facts |-> NoRow]
      /\ recall = [c \in MemoryCalls |-> NoRecall]
  BY DEF MemoryInit
<1>2. MemoryTypes
  <2>1. stated \in [Entries -> Finds] /\ table \in [Facts -> FactRows]
    BY <1>1 DEF Finds, FactRows
  <2>2. called \in [MemoryCalls -> CallStates]
    BY <1>1 DEF CallStates
  <2>3. 0 =< MaxEntries
    BY MemoryAssumption
  <2> QED
    BY <1>1, <2>1, <2>2, <2>3 DEF MemoryTypes
<1>3. InOrder
  BY <1>1 DEF InOrder
<1>4. Unsaid
  BY <1>1 DEF Unsaid
<1>5. \A f \in Facts : table[f].source = 0 /\ table[f].status # "active"
  BY <1>1 DEF NoRow
<1> QED
  BY <1>1, <1>2, <1>3, <1>4, <1>5 DEF MemoryInv, KeptInv, CommittedWins

\* What the transcripts, the lane and the facts refer to.
LEMMA MemoryTyped ==
  ASSUME MemoryInv
  PROVE  /\ Len(entries) \in Nat /\ MaxEntries \in Nat /\ Len(entries) =< MaxEntries
         /\ \A e \in 1..Len(entries) : CallOf(e) \in MemoryCalls
         /\ Len(unqueued) \in Nat /\ \A i \in 1..Len(unqueued) : unqueued[i] \in 1..Len(entries)
         /\ Len(lane) \in Nat /\ \A i \in 1..Len(lane) : lane[i] \in 1..Len(entries)
         /\ work # NoWork => work.entry \in 1..Len(entries)
         /\ \A f \in Facts : /\ table[f].status = "active" => table[f].source # 0
                             /\ table[f].source # 0 => table[f].source \in 1..Len(entries)
<1>1. /\ entries \in Seq(Transcripts) /\ unqueued \in Seq(Entries) /\ lane \in Seq(Entries)
      /\ Len(entries) =< MaxEntries /\ MaxEntries \in Nat
  BY MemoryAssumption DEF MemoryInv, MemoryTypes
<1>2. ASSUME NEW e \in 1..Len(entries) PROVE CallOf(e) \in MemoryCalls
  <2>1. entries[e] \in Transcripts
    BY <1>1
  <2> QED
    BY <2>1 DEF CallOf, Transcripts
<1>3. \A i \in 1..Len(unqueued) : unqueued[i] \in Entries
  BY <1>1
<1>4. \A i \in 1..Len(lane) : lane[i] \in Entries
  BY <1>1
<1>5. Len(entries) \in Nat /\ Len(unqueued) \in Nat /\ Len(lane) \in Nat
  BY <1>1
<1>6. \A i \in 1..Len(unqueued) : unqueued[i] \in 1..Len(entries)
  BY <1>1, <1>3, <1>5 DEF MemoryInv, MemoryTypes, Entries
<1>7. \A i \in 1..Len(lane) : lane[i] \in 1..Len(entries)
  BY <1>1, <1>4, <1>5 DEF MemoryInv, MemoryTypes, Entries
<1>8. work # NoWork => work.entry \in 1..Len(entries)
  BY <1>1, <1>5 DEF MemoryInv, MemoryTypes, Entries
<1>9. ASSUME NEW f \in Facts
      PROVE  /\ table[f].status = "active" => table[f].source # 0
             /\ table[f].source # 0 => table[f].source \in 1..Len(entries)
  <2>1. table[f] \in FactRows
    BY DEF MemoryInv, MemoryTypes
  <2> QED
    BY <1>1, <1>5, <2>1 DEF MemoryInv, KeptInv, FactRows, NoRow, Entries
<1> QED
  BY <1>1, <1>2, <1>5, <1>6, <1>7, <1>8, <1>9

\* Facts that stay or go leave the newest statements where they are.
LEMMA LatestKept ==
  ASSUME MemoryInv, UNCHANGED <<entries, stated>>,
         \A f \in Facts : table'[f] = table[f] \/ table'[f] = NoRow
  PROVE  CommittedWins'
<1>1. \A f \in Facts : table'[f].status = "active" => table'[f] = table[f]
  BY DEF NoRow
<1> QED
  BY <1>1 DEF MemoryInv, CommittedWins, CallOf

\* The lane stays.
LEMMA LaneUnchanged ==
  ASSUME MemoryInv, UNCHANGED <<entries, unqueued, lane, work, stated>>
  PROVE  InOrder' /\ Unsaid'
BY DEF MemoryInv, InOrder, Unsaid, Before, Awaited, CallOf

\* A call starts, ends, is deleted, restored or purged.
LEMMA CallKeepsMemory ==
  ASSUME MemoryInv, NEW c,
         call_starts(c) \/ call_ends(c) \/ call_deleted(c) \/ call_restored(c) \/ call_purged(c)
  PROVE  MemoryInv'
<1>1. UNCHANGED <<entries, unqueued, lane, work, stated, recall>>
  BY DEF call_starts, call_ends, call_deleted, call_restored, call_purged, memoryKept
<1>2. CASE call_starts(c) \/ call_ends(c) \/ call_deleted(c) \/ call_restored(c)
  <2>1. /\ UNCHANGED <<table, windows>>
        /\ \E s \in CallStates \ {"purged"} : called' = [called EXCEPT ![c] = s]
    BY <1>2 DEF call_starts, call_ends, call_deleted, call_restored, memoryKept, CallStates
  <2>2. /\ called' \in [MemoryCalls -> CallStates]
        /\ \A d \in MemoryCalls : called[d] # "purged" => called'[d] # "purged"
    <3>1. called \in [MemoryCalls -> CallStates]
      BY DEF MemoryInv, MemoryTypes
    <3> QED
      BY <2>1, <3>1
  <2>3. MemoryTypes'
    BY <1>1, <2>1, <2>2 DEF MemoryInv, MemoryTypes
  <2>4. KeptInv'
    BY <1>1, <2>1, <2>2, MemoryTyped DEF MemoryInv, KeptInv, Stored, CallOf
  <2> QED
    BY <1>1, <2>1, <2>3, <2>4, LatestKept, LaneUnchanged DEF MemoryInv
<1>3. CASE call_purged(c)
  <2>1. /\ called' = [called EXCEPT ![c] = "purged"]
        /\ table' = [f \in Facts |-> IF table[f].source # 0 /\ CallOf(table[f].source) = c
                                     THEN NoRow ELSE table[f]]
        /\ windows' = {w \in windows : w.call # c}
    BY <1>3 DEF call_purged
  <2>2. called \in [MemoryCalls -> CallStates] /\ table \in [Facts -> FactRows]
    BY DEF MemoryInv, MemoryTypes
  <2>3. \A f \in Facts : \/ table'[f] = NoRow
                         \/ /\ table'[f] = table[f]
                            /\ table[f].source = 0 \/ CallOf(table[f].source) # c
    BY <2>1
  <2>4. /\ called' \in [MemoryCalls -> CallStates] /\ table' \in [Facts -> FactRows]
        /\ \A d \in MemoryCalls : d # c => called'[d] = called[d]
    <3>1. called' \in [MemoryCalls -> CallStates]
      BY <2>1, <2>2 DEF CallStates
    <3>2. \A f \in Facts : table'[f] \in FactRows
      BY <2>2, <2>3 DEF FactRows
    <3>3. table' = [f \in Facts |-> table'[f]]
      BY <2>1
    <3> QED
      BY <2>1, <2>2, <3>1, <3>2, <3>3
  <2>5. MemoryTypes'
    BY <1>1, <2>4 DEF MemoryInv, MemoryTypes
  <2>6. KeptInv'
    BY <1>1, <2>1, <2>3, <2>4, MemoryTyped DEF MemoryInv, KeptInv, Stored, CallOf, NoRow
  <2> QED
    BY <1>1, <2>3, <2>5, <2>6, LatestKept, LaneUnchanged DEF MemoryInv
<1> QED
  BY <1>2, <1>3

\* The user deletes facts.
LEMMA DeleteKeepsMemory ==
  ASSUME MemoryInv, NEW fs, delete_memories(fs)
  PROVE  MemoryInv'
<1>1. /\ UNCHANGED <<called, entries, unqueued, lane, work, stated, windows, recall>>
      /\ table' = [f \in Facts |-> IF f \in fs THEN NoRow ELSE table[f]]
  BY DEF delete_memories
<1>2. /\ table' \in [Facts -> FactRows]
      /\ \A f \in Facts : table'[f] = table[f] \/ table'[f] = NoRow
  BY <1>1 DEF MemoryInv, MemoryTypes, FactRows
<1>3. MemoryTypes'
  BY <1>1, <1>2 DEF MemoryInv, MemoryTypes
<1>4. KeptInv'
  BY <1>1, <1>2 DEF MemoryInv, KeptInv, Stored, CallOf, NoRow
<1> QED
  BY <1>1, <1>2, <1>3, <1>4, LatestKept, LaneUnchanged DEF MemoryInv

\* A turn recalls an earlier call.
LEMMA RecallKeepsMemory ==
  ASSUME MemoryInv, NEW c, recall_prior(c) \/ recall_read(c) \/ recall_windows(c)
  PROVE  MemoryInv'
<1>1. /\ UNCHANGED <<called, entries, unqueued, lane, work, stated, table, windows>>
      /\ \E r : recall' = [recall EXCEPT ![c] = r]
  BY DEF recall_prior, recall_read, recall_windows, Tell
<1>2. recall' = [d \in MemoryCalls |-> recall'[d]]
  BY <1>1 DEF MemoryInv, MemoryTypes
<1>3. MemoryTypes'
  BY <1>1, <1>2 DEF MemoryInv, MemoryTypes
<1>4. KeptInv'
  BY <1>1 DEF MemoryInv, KeptInv, Stored, CallOf
<1> QED
  BY <1>1, <1>3, <1>4, LatestKept, LaneUnchanged DEF MemoryInv

\* A transcript is committed.
LEMMA SavedKeepsMemory ==
  ASSUME MemoryInv, NEW r \in Transcripts, Len(entries) < MaxEntries, transcript_saved(r)
  PROVE  MemoryInv'
<1> DEFINE n == Len(entries) + 1
<1>1. /\ entries' = Append(entries, r) /\ unqueued' = Append(unqueued, n)
      /\ \A i \in DOMAIN unqueued : CallOf(unqueued[i]) # r.call
      /\ UNCHANGED <<called, lane, work, stated, table, windows, recall>>
  BY DEF transcript_saved
<1>2. /\ entries \in Seq(Transcripts) /\ unqueued \in Seq(Entries) /\ lane \in Seq(Entries)
      /\ \A i \in 1..Len(unqueued) : unqueued[i] =< Len(entries)
      /\ \A i \in 1..Len(lane) : lane[i] =< Len(entries)
  BY DEF MemoryInv, MemoryTypes
<1>3. n \in Entries /\ n \in Nat /\ Len(entries) \in Nat /\ MaxEntries \in Nat
  BY <1>1, MemoryTyped DEF Entries
<1>4. /\ entries' \in Seq(Transcripts) /\ Len(entries') = n /\ entries'[n] = r
      /\ \A e \in 1..Len(entries) : entries'[e] = entries[e]
  BY <1>1, <1>2
<1>5. /\ unqueued' \in Seq(Entries) /\ Len(unqueued') = Len(unqueued) + 1
      /\ \A i \in 1..Len(unqueued) : unqueued'[i] = unqueued[i]
      /\ unqueued'[Len(unqueued')] = n
  BY <1>1, <1>2, <1>3
<1>6. \A e \in 1..Len(entries) : CallOf(e)' = CallOf(e)
  BY <1>4 DEF CallOf
<1> HIDE DEF n
<1>7. MemoryTypes'
  <2>1. n =< MaxEntries /\ Len(entries) =< n
    BY <1>3 DEF n
  <2>2. \A i \in 1..Len(unqueued') : unqueued'[i] =< n
    BY <1>3, <1>5, <2>1, MemoryTyped
  <2>3. \A i \in 1..Len(lane) : lane[i] =< n
    BY <1>3, <2>1, MemoryTyped
  <2>4. work # NoWork => work.entry \in Entries /\ work.entry =< n
    BY <1>3, <2>1, MemoryTyped DEF Entries
  <2> QED
    BY <1>1, <1>4, <1>5, <2>1, <2>2, <2>3, <2>4 DEF MemoryInv, MemoryTypes
<1>8. \A i \in 1..Len(unqueued) : unqueued[i] \in 1..Len(entries) /\ unqueued[i] < n
  BY <1>3, MemoryTyped DEF n
<1>9. \A i \in 1..Len(lane) : lane[i] \in 1..Len(entries) /\ lane[i] < n
  BY <1>3, MemoryTyped DEF n
<1>10. work # NoWork => work.entry \in 1..Len(entries) /\ work.entry < n
  BY <1>3, MemoryTyped DEF n
<1>11. InOrder'
  <2>1. \A i, j \in 1..Len(unqueued') : i # j => (CallOf(unqueued[i]) # CallOf(unqueued[j]))'
    <3>1. \A i \in 1..Len(unqueued') : i # Len(unqueued') => i \in 1..Len(unqueued)
      BY <1>5, MemoryTyped
    <3>2. \A i \in 1..Len(unqueued) : CallOf(unqueued[i]) # r.call
      <4>1. DOMAIN unqueued = 1..Len(unqueued)
        BY <1>2
      <4> QED
        BY <1>1, <4>1
    <3>3. ASSUME NEW i \in 1..Len(unqueued'), NEW j \in 1..Len(unqueued'), i # j
          PROVE  entries'[unqueued'[i]].call # entries'[unqueued'[j]].call
      <4>1. \A k \in 1..Len(unqueued) :
              entries'[unqueued'[k]].call = CallOf(unqueued[k])
        BY <1>4, <1>5, <1>8 DEF CallOf
      <4>2. entries'[unqueued'[Len(unqueued')]].call = r.call
        BY <1>4, <1>5
      <4>3. CASE i \in 1..Len(unqueued) /\ j \in 1..Len(unqueued)
        BY <3>3, <4>1, <4>3 DEF MemoryInv, InOrder
      <4>4. CASE i = Len(unqueued') /\ j \in 1..Len(unqueued)
        BY <3>2, <4>1, <4>2, <4>4
      <4>5. CASE j = Len(unqueued') /\ i \in 1..Len(unqueued)
        BY <3>2, <4>1, <4>2, <4>5
      <4> QED
        BY <3>1, <3>3, <4>3, <4>4, <4>5
    <3> QED
      BY <3>3 DEF CallOf
  <2>2. \A i, j \in 1..Len(lane') : i < j => Before(lane[i], lane[j])'
    BY <1>1, <1>6, <1>9 DEF MemoryInv, InOrder, Before
  <2>3. \A j \in 1..Len(unqueued') : j # Len(unqueued') => j \in 1..Len(unqueued)
    BY <1>2, <1>5
  <2>4. ASSUME NEW i \in 1..Len(lane'), NEW j \in 1..Len(unqueued')
        PROVE  Before(lane[i], unqueued[j])'
    BY <1>1, <1>5, <1>6, <1>8, <1>9, <2>3 DEF MemoryInv, InOrder, Before
  <2>5. work' # NoWork => /\ \A i \in 1..Len(lane') : Before(work.entry, lane[i])'
                          /\ \A j \in 1..Len(unqueued') : Before(work.entry, unqueued[j])'
    BY <1>1, <1>5, <1>6, <1>8, <1>9, <1>10, <2>3 DEF MemoryInv, InOrder, Before
  <2> QED
    BY <2>1, <2>2, <2>4, <2>5 DEF InOrder
<1>12. Unsaid'
  <2>1. Awaited' = Awaited \cup {n}
    <3>1. 1..Len(unqueued') = 1..Len(unqueued) \cup {Len(unqueued')}
      BY <1>5, MemoryTyped
    <3>2. {unqueued'[i] : i \in 1..Len(unqueued')} = {unqueued[i] : i \in 1..Len(unqueued)} \cup {n}
      BY <1>5, <3>1
    <3> QED
      BY <1>1, <3>2 DEF Awaited
  <2>2. \A e \in Awaited : e \in 1..Len(entries)
    BY <1>8, <1>9, <1>10 DEF Awaited
  <2>3. SUFFICES ASSUME NEW d \in Entries, d =< Len(entries),
                        NEW e \in Awaited', e < d, CallOf(e)' = CallOf(d)'
                 PROVE  stated[d] = <<>>
    <3>1. \A d \in Entries : d > Len(entries) => stated[d] = <<>>
      BY DEF MemoryInv, Unsaid
    <3>2. \A d \in Entries : d > Len(entries') => d > Len(entries)
      BY <1>3, <1>4 DEF n, Entries
    <3>3. \A d \in Entries : d > Len(entries) \/ d =< Len(entries)
      BY <1>3 DEF Entries
    <3> QED
      BY <1>1, <2>3, <3>1, <3>2, <3>3 DEF Unsaid
  <2>4. d \in 1..Len(entries) /\ e \in Awaited
    BY <1>3, <2>1, <2>3 DEF n, Entries
  <2>5. CallOf(e) = CallOf(d)
    BY <1>6, <2>2, <2>3, <2>4
  <2> QED
    BY <2>3, <2>4, <2>5 DEF MemoryInv, Unsaid
<1>13. \A f \in Facts : table[f].source # 0 => table[f].source \in 1..Len(entries)
  BY MemoryTyped
<1>14. KeptInv'
  BY <1>1, <1>3, <1>4, <1>6, <1>13 DEF MemoryInv, KeptInv, Stored, n
<1>15. CommittedWins'
  <2>1. stated[n] = <<>>
    BY <1>3 DEF MemoryInv, Unsaid, n
  <2>2. SUFFICES ASSUME NEW f \in Facts, f.key \in Singles, table[f].status = "active"
                 PROVE  \A e \in (table[f].source + 1)..n :
                          CallOf(e)' = CallOf(table[f].source)' =>
                            \A i \in DOMAIN stated[e] :
                              LET event == stated[e][i]
                              IN ~(event.action = "upsert" /\ event.fact.type = f.type
                                     /\ event.fact.key = f.key)
    BY <1>1, <1>4 DEF MemoryInv, CommittedWins
  <2>3. table[f].source \in 1..Len(entries)
    BY <2>2, MemoryTyped
  <2>4. ASSUME NEW e \in (table[f].source + 1)..n, e # n
        PROVE  e \in (table[f].source + 1)..Len(entries) /\ e \in 1..Len(entries)
    BY <1>3, <2>3, <2>4 DEF n
  <2>5. CallOf(table[f].source)' = CallOf(table[f].source)
    BY <1>1, <1>6, <2>3
  <2>6. ASSUME NEW e \in (table[f].source + 1)..n, e # n, CallOf(e)' = CallOf(table[f].source)'
        PROVE  \A i \in DOMAIN stated[e] :
                 ~(stated[e][i].action = "upsert" /\ stated[e][i].fact.type = f.type
                     /\ stated[e][i].fact.key = f.key)
    <3>1. CallOf(e) = CallOf(table[f].source)
      BY <1>6, <2>4, <2>5, <2>6
    <3> QED
      BY <2>2, <2>4, <2>6, <3>1 DEF MemoryInv, CommittedWins
  <2>7. DOMAIN stated[n] = {}
    BY <2>1
  <2> QED
    BY <2>6, <2>7
<1> QED
  BY <1>7, <1>11, <1>12, <1>14, <1>15 DEF MemoryInv

\* Some of the transcripts that wait go on waiting, in their order.
LEMMA FewerWait ==
  ASSUME MemoryInv, UNCHANGED <<entries, stated>>, Awaited' \subseteq Awaited
  PROVE  Unsaid'
BY DEF MemoryInv, Unsaid, CallOf

\* A transcript's enrichment is enqueued, or is lost.
LEMMA EnqueueKeepsMemory ==
  ASSUME MemoryInv, enqueue_enrichment
  PROVE  MemoryInv'
<1>1. PICK i \in 1..Len(unqueued) :
        /\ unqueued' = RemoveAt(unqueued, i)
        /\ lane' = Append(lane, unqueued[i]) \/ lane' = lane
        /\ UNCHANGED <<called, entries, work, stated, table, windows, recall>>
  <2>1. DOMAIN unqueued = 1..Len(unqueued)
    BY DEF MemoryInv, MemoryTypes
  <2> QED
    BY <2>1 DEF enqueue_enrichment
<1> DEFINE e == unqueued[i]
<1>2. unqueued \in Seq(Entries) /\ lane \in Seq(Entries)
  BY DEF MemoryInv, MemoryTypes
<1>3. e \in 1..Len(entries) /\ e \in Entries
  BY <1>1, MemoryTyped DEF Entries
<1>4. /\ unqueued' \in Seq(Entries) /\ Len(unqueued') = Len(unqueued) - 1
      /\ \A k \in 1..(Len(unqueued) - 1) :
           unqueued'[k] = IF k < i THEN unqueued[k] ELSE unqueued[k + 1]
  BY <1>1, <1>2, RemovalShifts
<1>5. /\ lane' \in Seq(Entries) /\ Len(lane') \in {Len(lane), Len(lane) + 1}
      /\ \A k \in 1..Len(lane) : lane'[k] = lane[k]
      /\ Len(lane') # Len(lane) => lane'[Len(lane')] = e
  <2>1. CASE lane' = Append(lane, e)
    BY <1>2, <1>3, <2>1
  <2>2. CASE lane' = lane
    BY <1>2, <2>2
  <2> QED
    BY <1>1, <2>1, <2>2
<1> HIDE DEF e
\* What still is to be enqueued was, in the same order.
<1>6. \A k \in 1..Len(unqueued') :
        \E a \in 1..Len(unqueued) : /\ a # i /\ unqueued'[k] = unqueued[a]
                                    /\ a = IF k < i THEN k ELSE k + 1
  BY <1>4, MemoryTyped
<1>7. \A k \in 1..Len(lane') :
        k \in 1..Len(lane) \/ (k = Len(lane') /\ k = Len(lane) + 1 /\ lane'[k] = e)
  BY <1>5, MemoryTyped
<1>8. MemoryTypes'
  <2>1. \A k \in 1..Len(unqueued') : unqueued'[k] =< Len(entries)
    BY SMTT(20), <1>6, MemoryTyped
  <2>2. \A k \in 1..Len(lane') : lane'[k] =< Len(entries)
    BY SMTT(20), <1>3, <1>5, <1>7, MemoryTyped
  <2> QED
    BY <1>1, <1>4, <1>5, <2>1, <2>2 DEF MemoryInv, MemoryTypes
<1>9. InOrder'
  <2>1. \A a, b \in 1..Len(unqueued) : a # b => CallOf(unqueued[a]) # CallOf(unqueued[b])
    BY DEF MemoryInv, InOrder
  <2>2. \A j, k \in 1..Len(unqueued') :
          j # k => (CallOf(unqueued[j]) # CallOf(unqueued[k]))'
    <3> SUFFICES ASSUME NEW j \in 1..Len(unqueued'), NEW k \in 1..Len(unqueued'), j # k
                 PROVE  CallOf(unqueued'[j]) # CallOf(unqueued'[k])
      BY <1>1 DEF CallOf
    <3>1. PICK a \in 1..Len(unqueued) :
            unqueued'[j] = unqueued[a] /\ a = IF j < i THEN j ELSE j + 1
      BY <1>6
    <3>2. PICK b \in 1..Len(unqueued) :
            unqueued'[k] = unqueued[b] /\ b = IF k < i THEN k ELSE k + 1
      BY <1>6
    <3>3. i \in Int /\ j \in Int /\ k \in Int
      BY <1>1
    <3>4. a # b
      BY <3>1, <3>2, <3>3
    <3> QED
      BY <2>1, <3>1, <3>2, <3>4
  <2>3. \A j, k \in 1..Len(lane') : j < k => Before(lane[j], lane[k])'
    <3>1. SUFFICES ASSUME NEW j \in 1..Len(lane'), NEW k \in 1..Len(lane'), j < k
                   PROVE  CallOf(lane'[j]) = CallOf(lane'[k]) => lane'[j] < lane'[k]
      BY <1>1 DEF Before, CallOf
    <3>2. j \in 1..Len(lane)
      BY <1>5, <1>7, <3>1, MemoryTyped
    <3>3. CASE k \in 1..Len(lane)
      BY <1>5, <3>1, <3>2, <3>3 DEF MemoryInv, InOrder, Before
    <3>4. CASE lane'[k] = e
      BY <1>1, <1>5, <3>2, <3>4 DEF MemoryInv, InOrder, Before, e
    <3> QED
      BY <1>7, <3>3, <3>4
  <2>4. ASSUME NEW j \in 1..Len(lane'), NEW k \in 1..Len(unqueued')
        PROVE  Before(lane[j], unqueued[k])'
    <3>1. SUFFICES ASSUME CallOf(lane'[j]) = CallOf(unqueued'[k])
                   PROVE  lane'[j] < unqueued'[k]
      BY <1>1 DEF Before, CallOf
    <3>2. PICK a \in 1..Len(unqueued) : a # i /\ unqueued'[k] = unqueued[a]
      BY <1>6
    <3>3. CASE j \in 1..Len(lane)
      BY <1>5, <3>1, <3>2, <3>3 DEF MemoryInv, InOrder, Before
    <3>4. CASE lane'[j] = e
      BY <1>1, <2>1, <3>1, <3>2, <3>4 DEF e
    <3> QED
      BY <1>7, <3>3, <3>4
  <2>5. ASSUME work' # NoWork
        PROVE  /\ \A j \in 1..Len(lane') : Before(work.entry, lane[j])'
               /\ \A k \in 1..Len(unqueued') : Before(work.entry, unqueued[k])'
    <3>1. \A j \in 1..Len(unqueued) : Before(work.entry, unqueued[j])
      BY <1>1, <2>5 DEF MemoryInv, InOrder
    <3>2. \A j \in 1..Len(lane) : Before(work.entry, lane[j])
      BY <1>1, <2>5 DEF MemoryInv, InOrder
    <3>3. \A j \in 1..Len(lane') : \/ \E k \in 1..Len(lane) : lane'[j] = lane[k]
                                   \/ lane'[j] = unqueued[i]
      BY <1>5, <1>7 DEF e
    <3> QED
      BY <1>1, <1>6, <3>1, <3>2, <3>3 DEF Before, CallOf
  <2> QED
    BY <2>2, <2>3, <2>4, <2>5 DEF InOrder
<1>10. Unsaid'
  <2>1. Awaited' \subseteq Awaited
    BY SMTT(20), <1>1, <1>5, <1>6, <1>7 DEF Awaited, e
  <2> QED
    BY <1>1, <2>1, FewerWait
<1>11. KeptInv'
  BY <1>1 DEF MemoryInv, KeptInv, Stored, CallOf
<1> QED
  BY <1>1, <1>8, <1>9, <1>10, <1>11, LatestKept DEF MemoryInv

\* The worker takes the oldest job.
LEMMA ClassifyKeepsMemory ==
  ASSUME MemoryInv, classify_memory_events
  PROVE  MemoryInv'
<1>1. /\ work = NoWork /\ lane # <<>> /\ lane' = Tail(lane)
      /\ UNCHANGED <<called, entries, unqueued, stated, table, windows, recall>>
      /\ \/ work' = work
         \/ /\ work'.pc \in {"classified", "maintain"} /\ work'.entry = Head(lane)
            /\ work'.events \in Finds
  BY DEF classify_memory_events, Finds
<1>2. lane \in Seq(Entries) /\ Len(lane) > 0 /\ Head(lane) = lane[1] /\ 1 \in 1..Len(lane)
  BY <1>1 DEF MemoryInv, MemoryTypes
<1>3. /\ lane' \in Seq(Entries) /\ Len(lane') = Len(lane) - 1
      /\ \A k \in 1..Len(lane') : k + 1 \in 1..Len(lane) /\ lane'[k] = lane[k + 1]
  BY <1>1, <1>2
<1>4. Head(lane) \in 1..Len(entries) /\ Head(lane) \in Entries
  BY <1>2, MemoryTyped DEF Entries
<1>5. MemoryTypes'
  <2>1. \A k \in 1..Len(lane') : lane'[k] =< Len(entries)
    <3>1. SUFFICES ASSUME NEW k \in 1..Len(lane') PROVE lane'[k] =< Len(entries)
      OBVIOUS
    <3>2. lane'[k] \in 1..Len(entries)
      BY <1>3, MemoryTyped
    <3> QED
      BY <3>2, MemoryTyped
  <2>2. Head(lane) =< Len(entries)
    BY <1>4, MemoryTyped
  <2> QED
    BY <1>1, <1>3, <1>4, <2>1, <2>2 DEF MemoryInv, MemoryTypes
<1>6. InOrder'
  <2>1. \A j, k \in 1..Len(lane') : j < k => Before(lane[j], lane[k])'
    <3>1. \A j, k \in 1..Len(lane') : j < k => Before(lane[j + 1], lane[k + 1])
      BY <1>3 DEF MemoryInv, InOrder
    <3> QED
      BY <1>1, <1>3, <3>1 DEF Before, CallOf
  <2>2. \A j \in 1..Len(lane'), k \in 1..Len(unqueued') : Before(lane[j], unqueued[k])'
    BY <1>1, <1>3 DEF MemoryInv, InOrder, Before, CallOf
  <2>3. ASSUME work' # NoWork
        PROVE  /\ \A j \in 1..Len(lane') : Before(work.entry, lane[j])'
               /\ \A k \in 1..Len(unqueued') : Before(work.entry, unqueued[k])'
    <3>1. work'.entry = lane[1]
      BY <1>1, <1>2, <2>3
    <3>2. \A j \in 1..Len(lane') : Before(lane[1], lane[j + 1])
      BY <1>2, <1>3 DEF MemoryInv, InOrder
    <3>3. \A k \in 1..Len(unqueued) : Before(lane[1], unqueued[k])
      BY <1>2 DEF MemoryInv, InOrder
    <3> QED
      BY <1>1, <1>3, <3>1, <3>2, <3>3 DEF Before, CallOf
  <2>4. \A j, k \in 1..Len(unqueued') :
          j # k => (CallOf(unqueued[j]) # CallOf(unqueued[k]))'
    BY <1>1 DEF MemoryInv, InOrder, CallOf
  <2> QED
    BY <2>1, <2>2, <2>3, <2>4 DEF InOrder
<1>7. Unsaid'
  <2>1. Awaited' \subseteq Awaited
    BY <1>1, <1>2, <1>3 DEF Awaited
  <2> QED
    BY <1>1, <2>1, FewerWait
<1>8. KeptInv'
  BY <1>1 DEF MemoryInv, KeptInv, Stored, CallOf
<1> QED
  BY <1>1, <1>5, <1>6, <1>7, <1>8, LatestKept DEF MemoryInv

\* The job at work is done, or goes back before all others.
JobLeaves ==
  /\ work # NoWork /\ work' = NoWork
  /\ lane' = lane \/ lane' = <<work.entry>> \o lane
  /\ UNCHANGED <<called, entries, unqueued, recall>>

LEMMA LaneAfterJob ==
  ASSUME MemoryInv, JobLeaves
  PROVE  /\ lane' \in Seq(Entries) /\ \A k \in 1..Len(lane') : lane'[k] =< Len(entries)
         /\ InOrder' /\ Awaited' \subseteq Awaited
<1>1. /\ work # NoWork /\ work' = NoWork
      /\ lane' = lane \/ lane' = <<work.entry>> \o lane
      /\ UNCHANGED <<called, entries, unqueued, recall>>
  BY DEF JobLeaves
<1>2. lane \in Seq(Entries) /\ work.entry \in Entries
  BY <1>1, MemoryTyped DEF MemoryInv, MemoryTypes, Entries
<1>3. CASE lane' = lane
  <2>1. InOrder'
    BY <1>1, <1>3 DEF MemoryInv, InOrder, Before, CallOf
  <2>2. Awaited' \subseteq Awaited
    BY <1>1, <1>3 DEF Awaited
  <2> QED
    BY <1>2, <1>3, <2>1, <2>2 DEF MemoryInv, MemoryTypes
<1>4. CASE lane' = <<work.entry>> \o lane
  <2>1. <<work.entry>> \in Seq(Entries) /\ Len(<<work.entry>>) = 1
    BY <1>2
  <2>2. /\ lane' \in Seq(Entries) /\ Len(lane') = 1 + Len(lane)
        /\ \A k \in 1..(1 + Len(lane)) :
             lane'[k] = IF k =< 1 THEN <<work.entry>>[k] ELSE lane[k - 1]
    BY <1>2, <1>4, <2>1, ConcatProperties
  <2>3. \A k \in 1..Len(lane') : \/ k = 1 /\ lane'[k] = work.entry
                                 \/ k > 1 /\ k - 1 \in 1..Len(lane) /\ lane'[k] = lane[k - 1]
    BY <2>2, MemoryTyped
  <2>4. \A k \in 1..Len(lane') : lane'[k] =< Len(entries)
    BY SMTT(20), <1>1, <2>3, MemoryTyped
  <2>5. \A j, k \in 1..Len(lane') : j < k => Before(lane[j], lane[k])'
    <3>1. SUFFICES ASSUME NEW j \in 1..Len(lane'), NEW k \in 1..Len(lane'), j < k
                   PROVE  Before(lane'[j], lane'[k])
      BY <1>1 DEF Before, CallOf
    <3>2. k > 1 /\ k - 1 \in 1..Len(lane) /\ lane'[k] = lane[k - 1]
      BY <2>2, <2>3, <3>1, MemoryTyped
    <3>3. CASE j = 1 /\ lane'[j] = work.entry
      BY <1>1, <3>2, <3>3 DEF MemoryInv, InOrder
    <3>4. CASE j > 1 /\ j - 1 \in 1..Len(lane) /\ lane'[j] = lane[j - 1]
      <4>1. j - 1 < k - 1
        BY <2>2, <3>1, MemoryTyped
      <4> QED
        BY <3>2, <3>4, <4>1 DEF MemoryInv, InOrder
    <3> QED
      BY <2>3, <3>3, <3>4
  <2>6. \A j \in 1..Len(lane'), k \in 1..Len(unqueued') : Before(lane[j], unqueued[k])'
    <3>1. \A j \in 1..Len(lane'), k \in 1..Len(unqueued) : Before(lane'[j], unqueued[k])
      BY <1>1, <2>3 DEF MemoryInv, InOrder
    <3> QED
      BY <1>1, <3>1 DEF Before, CallOf
  <2>7. \A i, j \in 1..Len(unqueued') :
          i # j => (CallOf(unqueued[i]) # CallOf(unqueued[j]))'
    BY <1>1 DEF MemoryInv, InOrder, CallOf
  <2>8. InOrder'
    BY <1>1, <2>5, <2>6, <2>7 DEF InOrder
  <2>9. Awaited' \subseteq Awaited
    BY <1>1, <2>3 DEF Awaited
  <2> QED
    BY <2>2, <2>4, <2>8, <2>9
<1> QED
  BY <1>1, <1>3, <1>4

\* The windows are maintained, or the job is preempted.
LEMMA MaintainKeepsMemory ==
  ASSUME MemoryInv, maintain_memory_chunks \/ enrichment_preempted
  PROVE  MemoryInv'
<1>1. JobLeaves /\ UNCHANGED <<stated, table>>
  BY DEF maintain_memory_chunks, enrichment_preempted, JobLeaves, NoWork
<1>2. MemoryTypes'
  BY <1>1, LaneAfterJob DEF MemoryInv, MemoryTypes, JobLeaves
<1>3. \A w \in windows' : w \in windows \/ (w.call \in MemoryCalls /\ called[w.call] # "purged")
  <2>1. maintain_memory_chunks => work # NoWork
    BY DEF maintain_memory_chunks, NoWork
  <2>2. work # NoWork => CallOf(work.entry) \in MemoryCalls
    BY MemoryTyped
  <2> QED
    BY <2>1, <2>2 DEF maintain_memory_chunks, enrichment_preempted
<1>4. KeptInv'
  BY <1>1, <1>3 DEF MemoryInv, KeptInv, Stored, CallOf, JobLeaves
<1>5. UNCHANGED <<entries, stated>>
  BY <1>1 DEF JobLeaves
<1> QED
  BY <1>1, <1>2, <1>4, <1>5, LaneAfterJob, FewerWait, LatestKept DEF MemoryInv

\* The events of a transcript are committed, or refused when its call is gone.
LEMMA ApplyKeepsMemory ==
  ASSUME MemoryInv, apply_fact_events
  PROVE  MemoryInv'
<1> DEFINE said == work.events
           own == work.entry
<1>1. /\ work.pc = "classified" /\ work # NoWork /\ JobLeaves /\ windows' = windows
      /\ \/ /\ Stored(own) \/ \A i \in DOMAIN said : said[i].action = "deactivate"
            /\ table' = [f \in Facts |-> Applied(said, own, f)]
            /\ stated' = [stated EXCEPT ![own] = said]
         \/ UNCHANGED <<table, stated>>
  BY DEF apply_fact_events, JobLeaves, NoWork
<1>2. /\ own \in 1..Len(entries) /\ own \in Entries /\ own # 0 /\ said \in Finds
      /\ UNCHANGED <<called, entries, unqueued, recall>>
  BY <1>1, MemoryTyped DEF MemoryInv, MemoryTypes, Entries, JobLeaves
<1>3. CASE UNCHANGED <<table, stated>>
  <2>1. MemoryTypes'
    BY <1>1, <1>2, <1>3, LaneAfterJob DEF MemoryInv, MemoryTypes, JobLeaves
  <2>2. KeptInv'
    BY <1>1, <1>2, <1>3 DEF MemoryInv, KeptInv, Stored, CallOf
  <2> QED
    BY <1>1, <1>2, <1>3, <2>1, <2>2, LaneAfterJob, FewerWait, LatestKept DEF MemoryInv
<1>4. CASE /\ Stored(own) \/ \A i \in DOMAIN said : said[i].action = "deactivate"
           /\ table' = [f \in Facts |-> Applied(said, own, f)]
           /\ stated' = [stated EXCEPT ![own] = said]
  <2> DEFINE up(f) == Upserts(said, f)
             down(f) == Retires(said, f)
  <2>1. /\ stated \in [Entries -> Finds] /\ table \in [Facts -> FactRows]
        /\ DOMAIN said \subseteq Int
    <3> DEFINE Events == [action : {"upsert", "deactivate"}, fact : Facts]
    <3>1. Classifications \subseteq Seq(Events)
      BY MemoryAssumption
    <3> HIDE DEF Events
    <3>2. said \in Classifications \/ said = <<>>
      BY <1>2 DEF Finds
    <3> HIDE DEF said
    <3>3. said = <<>> => DOMAIN said \subseteq Int
      OBVIOUS
    <3>4. said \in Seq(Events) => DOMAIN said \subseteq Int
      OBVIOUS
    <3> QED
      BY <3>1, <3>2, <3>3, <3>4 DEF MemoryInv, MemoryTypes
  <2>2. /\ stated' \in [Entries -> Finds] /\ stated'[own] = said
        /\ \A d \in Entries : d # own => stated'[d] = stated[d]
    BY <1>2, <1>4, <2>1
  <2>3. \A f \in Facts : table'[f] = Applied(said, own, f)
    BY <1>4
  \* What becomes of a fact.
  <2>4. ASSUME NEW f \in Facts
        PROVE  /\ table'[f] \in FactRows
               /\ up(f) # {} =>
                    /\ table'[f].source = own
                    /\ table'[f].status = "active" => \E i \in up(f) : \A j \in down(f) : j < i
               /\ up(f) = {} => /\ table'[f].source = table[f].source
                                /\ table'[f].status = "active" =>
                                     down(f) = {} /\ table[f].status = "active"
    <3>1. CASE up(f) # {}
      <4> DEFINE last == \E i \in up(f) : \A j \in down(f) : j < i
      <4>1. table'[f] = [status |-> IF last THEN "active" ELSE "inactive", source |-> own]
        BY <2>3, <3>1 DEF Applied
      <4> HIDE DEF last
      <4>2. /\ table'[f] \in FactRows /\ table'[f].source = own
            /\ table'[f].status = "active" => last
        BY <1>2, <4>1 DEF FactRows
      <4> QED
        BY <3>1, <4>2 DEF last
    <3>2. CASE up(f) = {} /\ down(f) # {} /\ table[f] # NoRow
      <4>1. table'[f] = [table[f] EXCEPT !.status = "inactive"]
        BY <2>3, <3>2 DEF Applied
      <4>2. table[f] \in [status : {"active", "inactive"}, source : Entries]
        BY <2>1, <3>2 DEF FactRows
      <4> QED
        BY <3>2, <4>1, <4>2 DEF FactRows
    <3>3. CASE up(f) = {} /\ (down(f) = {} \/ table[f] = NoRow)
      <4>1. table'[f] = table[f]
        BY <2>3, <3>3 DEF Applied
      <4> QED
        BY <2>1, <3>3, <4>1 DEF NoRow
    <3> QED
      BY <3>1, <3>2, <3>3
  <2>5. \A f \in Facts : up(f) # {} => Stored(own)
    BY <1>4 DEF Upserts
  <2>6. \A f, g \in Facts :
          f.key \in Singles /\ g # f /\ g.type = f.type /\ g.key = f.key =>
            up(g) \subseteq down(f)
    BY DEF Upserts, Retires, Replaces
  <2>7. \A f \in Facts : up(f) \subseteq DOMAIN said /\ down(f) \subseteq DOMAIN said
    BY DEF Upserts, Retires
  <2>8. ASSUME NEW f \in Facts, f.key \in Singles, NEW i \in DOMAIN said,
               said[i].action = "upsert", said[i].fact.type = f.type, said[i].fact.key = f.key
        PROVE  up(f) # {} \/ down(f) # {}
    BY <2>8 DEF Upserts, Retires, Replaces
  <2> HIDE DEF up, down
  <2>9. MemoryTypes'
    <3>1. table' \in [Facts -> FactRows]
      BY <1>4, <2>4
    <3> QED
      BY <1>1, <1>2, <2>2, <3>1, LaneAfterJob DEF MemoryInv, MemoryTypes, JobLeaves
  <2>10. KeptInv'
    <3>1. ASSUME NEW f \in Facts, table'[f].source # 0
          PROVE  table'[f].source \in 1..Len(entries) /\ Stored(table'[f].source)
      BY <1>2, <2>4, <2>5, <3>1, MemoryTyped DEF MemoryInv, KeptInv
    <3> QED
      BY <1>1, <1>2, <3>1, MemoryTyped DEF MemoryInv, KeptInv, Stored, CallOf
  <2>11. Unsaid'
    <3>1. SUFFICES ASSUME NEW d \in Entries,
                          d > Len(entries) \/ \E e \in Awaited : e < d /\ CallOf(e) = CallOf(d)
                   PROVE  stated'[d] = <<>>
      BY <1>1, <1>2, LaneAfterJob DEF Unsaid, CallOf
    <3>2. \A e \in Awaited : e = own \/ (CallOf(own) = CallOf(e) => own < e)
      BY <1>1 DEF Awaited, MemoryInv, InOrder, Before
    <3>3. \A e \in Awaited : e \in 1..Len(entries)
      BY MemoryTyped DEF Awaited
    <3>4. d # own
      BY <1>2, <3>1, <3>2, <3>3, MemoryTyped
    <3>5. stated[d] = <<>>
      BY <3>1 DEF MemoryInv, Unsaid
    <3> QED
      BY <2>2, <3>4, <3>5
  <2>12. CommittedWins'
    <3>1. SUFFICES
            ASSUME NEW f \in Facts, f.key \in Singles, table'[f].status = "active"
            PROVE  /\ \A g \in Facts : g.type = f.type /\ g.key = f.key
                                         /\ table'[g].status = "active" => g = f
                   /\ \A e \in (table'[f].source + 1)..Len(entries) :
                        CallOf(e) = CallOf(table'[f].source) =>
                          \A i \in DOMAIN stated'[e] :
                            ~(stated'[e][i].action = "upsert"
                                /\ stated'[e][i].fact.type = f.type
                                /\ stated'[e][i].fact.key = f.key)
      BY <1>2 DEF CommittedWins, CallOf
    <3>2. ASSUME NEW g \in Facts, g.type = f.type, g.key = f.key,
                 table'[g].status = "active", g # f
          PROVE  FALSE
      <4>1. up(g) \subseteq down(f) /\ up(f) \subseteq down(g)
        BY <2>6, <3>1, <3>2
      <4>2. CASE up(f) # {} /\ up(g) # {}
        <5>1. PICK i \in up(f) : \A k \in down(f) : k < i
          BY <2>4, <3>1, <4>2
        <5>2. PICK j \in up(g) : \A k \in down(g) : k < j
          BY <2>4, <3>2, <4>2
        <5>3. j < i /\ i < j /\ i \in Int /\ j \in Int
          BY <2>1, <2>7, <4>1, <5>1, <5>2
        <5> QED
          BY <5>3
      <4>3. CASE up(f) = {} /\ up(g) = {}
        BY <2>4, <3>1, <3>2, <4>3 DEF MemoryInv, CommittedWins
      <4>4. CASE up(f) = {} <=> up(g) # {}
        BY <2>4, <3>1, <3>2, <4>1, <4>4
      <4> QED
        BY <4>2, <4>3, <4>4
    <3>3. ASSUME NEW e \in (table'[f].source + 1)..Len(entries),
                 CallOf(e) = CallOf(table'[f].source), NEW i \in DOMAIN stated'[e],
                 stated'[e][i].action = "upsert", stated'[e][i].fact.type = f.type,
                 stated'[e][i].fact.key = f.key
          PROVE  FALSE
      <4>1. /\ table'[f].source \in 1..Len(entries) /\ e \in Entries
            /\ table'[f].source < e
        <5>1. table'[f].source \in 1..Len(entries)
          BY <1>2, <2>4, <3>1, MemoryTyped
        <5> QED
          BY <3>3, <5>1, MemoryTyped DEF Entries
      <4>2. CASE up(f) # {}
        <5>1. own < e /\ CallOf(own) = CallOf(e) /\ own \in Awaited
          BY <1>1, <2>4, <3>3, <4>1, <4>2 DEF Awaited
        <5>2. e # own
          BY <1>2, <4>1, <5>1 DEF Entries
        <5>3. stated'[e] = <<>>
          BY <2>2, <4>1, <5>1, <5>2 DEF MemoryInv, Unsaid
        <5> QED
          BY <3>3, <5>3
      <4>3. CASE up(f) = {} /\ e = own
        <5>1. down(f) = {}
          BY <2>4, <3>1, <4>3
        <5> QED
          BY <2>2, <2>8, <3>1, <3>3, <4>3, <5>1
      <4>4. CASE up(f) = {} /\ e # own
        <5>1. table'[f].source = table[f].source /\ table[f].status = "active"
          BY <2>4, <3>1, <4>4
        <5>2. stated'[e] = stated[e]
          BY <2>2, <4>1, <4>4
        <5> QED
          BY <3>1, <3>3, <5>1, <5>2 DEF MemoryInv, CommittedWins
      <4> QED
        BY <4>2, <4>3, <4>4
    <3> QED
      BY <3>2, <3>3
  <2> QED
    BY <1>1, <2>9, <2>10, <2>11, <2>12, LaneAfterJob DEF MemoryInv
<1> QED
  BY <1>1, <1>3, <1>4

LEMMA EntriesKeepMemory ==
  ASSUME MemoryInv,
         UNCHANGED <<called, entries, unqueued, lane, work, stated, table, windows, recall>>
  PROVE  MemoryInv'
BY DEF MemoryInv, MemoryTypes, InOrder, Unsaid, KeptInv, CommittedWins, Before, Awaited,
       CallOf, Stored

LEMMA MemoryUnchanged ==
  ASSUME MemoryInv, UNCHANGED memoryVars
  PROVE  MemoryInv'
BY EntriesKeepMemory DEF memoryVars

---------------------------------------------------------------------------
(* The order in which transcripts were said. *)

LEMMA SaidTyped ==
  ASSUME MemoryInv, SaidInv
  PROVE  /\ accepted \in Nat /\ Cardinality(unsaved) \in Nat
         /\ \A r \in unsaved : r \in Transcripts /\ r.nth \in Nat
         /\ \A e \in 1..Len(entries) : entries[e] \in Transcripts /\ entries[e].nth \in Nat
<1>1. entries \in Seq(Transcripts) /\ MaxEntries \in Nat
  BY MemoryAssumption DEF MemoryInv, MemoryTypes
<1>2. \A r \in Transcripts : r.nth \in Nat
  BY DEF Transcripts
<1>3. \A e \in 1..Len(entries) : entries[e] \in Transcripts
  BY <1>1
<1> QED
  BY <1>1, <1>2, <1>3, FS_CardinalityType DEF SaidInv

LEMMA InitSaidInv == MemoryInit => SaidInv
<1> SUFFICES ASSUME MemoryInit PROVE SaidInv
  OBVIOUS
<1>1. accepted = 0 /\ unsaved = {} /\ Len(entries) = 0
  BY DEF MemoryInit
<1>2. IsFiniteSet({}) /\ Cardinality({}) = 0
  BY FS_EmptySet
<1> QED
  BY <1>1, <1>2, MemoryAssumption DEF SaidInv

\* What is committed stays, and of what waits some goes.
LEMMA FewerUnsaved ==
  ASSUME MemoryInv, SaidInv, UNCHANGED <<accepted, entries>>, unsaved' \subseteq unsaved
  PROVE  SaidInv'
<1>1. IsFiniteSet(unsaved') /\ Cardinality(unsaved') =< Cardinality(unsaved)
  BY FS_Subset DEF SaidInv
<1>2. Cardinality(unsaved') \in Nat
  BY <1>1, FS_CardinalityType
<1>3. Len(entries) + Cardinality(unsaved') =< accepted
  BY <1>1, <1>2, SaidTyped, MemoryTyped DEF SaidInv
<1> QED
  BY <1>1, <1>3 DEF SaidInv, CallOf

LEMMA SaidKeepsSaid ==
  ASSUME MemoryInv, SaidInv, NEW c \in MemoryCalls, NEW speaker \in {"You", "Aura"},
         transcript_said(c, speaker)
  PROVE  SaidInv'
<1> DEFINE x == [nth |-> accepted + 1, call |-> c, speaker |-> speaker, late |-> FALSE]
<1>1. /\ accepted < MaxEntries /\ accepted' = accepted + 1 /\ unsaved' = unsaved \cup {x}
      /\ entries' = entries
  BY DEF transcript_said
<1>2. accepted \in Nat /\ MaxEntries \in Nat /\ accepted + 1 \in 1..MaxEntries
  BY <1>1, SaidTyped, MemoryTyped
<1>3. x \in Transcripts /\ x.nth = accepted + 1
  BY <1>2 DEF Transcripts
<1> HIDE DEF x
<1>4. /\ IsFiniteSet(unsaved') /\ Cardinality(unsaved') \in Nat
      /\ Cardinality(unsaved') =< Cardinality(unsaved) + 1
  <2>1. /\ IsFiniteSet(unsaved')
        /\ Cardinality(unsaved') = Cardinality(unsaved)
             \/ Cardinality(unsaved') = Cardinality(unsaved) + 1
    BY <1>1, FS_AddElement DEF SaidInv
  <2> QED
    BY <2>1, SaidTyped
<1>5. Len(entries) + Cardinality(unsaved') =< accepted'
  BY <1>1, <1>2, <1>4, SaidTyped, MemoryTyped DEF SaidInv
<1>6. \A r \in unsaved' : r.nth =< accepted'
  BY <1>1, <1>2, <1>3, SaidTyped DEF SaidInv
<1>7. \A e \in 1..Len(entries) : entries[e].nth =< accepted' /\ ~(entries[e].nth > x.nth)
  BY <1>1, <1>2, <1>3, SaidTyped DEF SaidInv
<1>8. \A r \in unsaved', e \in 1..Len(entries) :
        r.call = CallOf(e) /\ entries[e].nth > r.nth => r.late
  BY <1>1, <1>7 DEF SaidInv
<1>9. accepted' \in 0..MaxEntries /\ unsaved' \subseteq Transcripts
  BY <1>1, <1>2, <1>3 DEF SaidInv
<1> QED
  BY <1>1, <1>4, <1>5, <1>6, <1>7, <1>8, <1>9 DEF SaidInv, CallOf

LEMMA DelayedKeepsSaid ==
  ASSUME MemoryInv, SaidInv, NEW r \in unsaved, transcript_delayed(r)
  PROVE  SaidInv'
<1> DEFINE x == [r EXCEPT !.late = TRUE]
           rest == unsaved \ {r}
<1>1. unsaved' = rest \cup {x} /\ UNCHANGED <<accepted, entries>>
  BY DEF transcript_delayed
<1>2. x \in Transcripts /\ x.nth = r.nth /\ x.call = r.call /\ x.late
  BY SaidTyped DEF Transcripts
<1>3. IsFiniteSet(rest) /\ Cardinality(rest) = Cardinality(unsaved) - 1
  BY FS_RemoveElement DEF SaidInv
<1>4. rest \subseteq unsaved
  OBVIOUS
<1> HIDE DEF x, rest
<1>5. IsFiniteSet(unsaved') /\ Cardinality(unsaved') =< Cardinality(unsaved)
  <2>1. /\ IsFiniteSet(unsaved')
        /\ Cardinality(unsaved') = Cardinality(rest)
             \/ Cardinality(unsaved') = Cardinality(rest) + 1
    BY <1>1, <1>3, FS_AddElement
  <2> QED
    BY <1>3, <2>1, SaidTyped
<1>6. Cardinality(unsaved') \in Nat
  BY <1>5, FS_CardinalityType
<1>7. Len(entries) + Cardinality(unsaved') =< accepted
  <2>1. Len(entries) + Cardinality(unsaved) =< accepted
    BY DEF SaidInv
  <2>2. Len(entries) \in Nat /\ accepted \in Nat /\ Cardinality(unsaved) \in Nat
    BY SaidTyped, MemoryTyped
  <2> QED
    BY <1>5, <1>6, <2>1, <2>2
<1>8. \A q \in unsaved' : q.nth =< accepted /\ q \in Transcripts
  BY <1>1, <1>2, <1>4 DEF SaidInv
<1>9. \A q \in unsaved', e \in 1..Len(entries) :
        q.call = CallOf(e) /\ entries[e].nth > q.nth => q.late
  BY <1>1, <1>2, <1>4 DEF SaidInv
<1> QED
  BY <1>1, <1>5, <1>7, <1>8, <1>9 DEF SaidInv, CallOf

\* A transcript is committed: those of its call that wait and were said before it are
\* delayed ones, and if one that was said after it is committed it is a delayed one itself.
LEMMA SavedKeepsSaid ==
  ASSUME MemoryInv, SaidInv, NEW r \in unsaved, transcript_saved(r)
  PROVE  SaidInv'
<1> DEFINE n == Len(entries) + 1
<1>1. /\ unsaved' = unsaved \ {r} /\ entries' = Append(entries, r) /\ accepted' = accepted
      /\ \A q \in unsaved : q.call = r.call /\ q.nth < r.nth => q.late
  BY DEF transcript_saved
<1>2. entries \in Seq(Transcripts) /\ r \in Transcripts /\ Len(entries) \in Nat
  BY SaidTyped, MemoryTyped DEF MemoryInv, MemoryTypes
<1>3. /\ Len(entries') = n /\ entries'[n] = r
      /\ \A e \in 1..Len(entries) : entries'[e] = entries[e]
      /\ \A e \in 1..Len(entries') : e \in 1..Len(entries) \/ e = n
  BY <1>1, <1>2
<1>4. IsFiniteSet(unsaved') /\ Cardinality(unsaved') = Cardinality(unsaved) - 1
  BY <1>1, FS_RemoveElement DEF SaidInv
<1>5. Len(entries') + Cardinality(unsaved') =< accepted
  <2>1. n + (Cardinality(unsaved) - 1) = Len(entries) + Cardinality(unsaved)
    BY <1>2, SaidTyped
  <2> QED
    BY <1>3, <1>4, <2>1 DEF SaidInv
<1>6. \A e \in 1..Len(entries') : entries'[e].nth =< accepted
  BY <1>3 DEF SaidInv
<1>7. ASSUME NEW d \in 1..Len(entries'), NEW e \in 1..Len(entries'), d < e,
             entries'[d].call = entries'[e].call, entries'[d].nth > entries'[e].nth
      PROVE  entries'[e].late
  <2>1. d \in 1..Len(entries)
    <3>1. d # n
      BY <1>2, <1>3, <1>7
    <3> QED
      BY <1>3, <3>1
  <2>2. CASE e \in 1..Len(entries)
    BY <1>3, <1>7, <2>1, <2>2 DEF SaidInv, CallOf
  <2>3. CASE e = n
    BY <1>3, <1>7, <2>1, <2>3 DEF SaidInv, CallOf
  <2> QED
    BY <1>3, <2>2, <2>3
<1>8. ASSUME NEW q \in unsaved', NEW e \in 1..Len(entries'),
             q.call = entries'[e].call, entries'[e].nth > q.nth
      PROVE  q.late
  <2>1. q \in unsaved
    BY <1>1
  <2>2. CASE e \in 1..Len(entries)
    BY <1>3, <1>8, <2>1, <2>2 DEF SaidInv, CallOf
  <2>3. CASE e = n
    <3>1. q.nth < r.nth
      BY <1>3, <1>8, <2>1, <2>3, SaidTyped
    <3> QED
      BY <1>1, <1>3, <1>8, <2>1, <2>3, <3>1
  <2> QED
    BY <1>3, <2>2, <2>3
<1>9. unsaved' \subseteq unsaved
  BY <1>1
<1> QED
  BY <1>1, <1>4, <1>5, <1>6, <1>7, <1>8, <1>9 DEF SaidInv, CallOf

\* The bound on what is said bounds what is committed.
LEMMA RoomToSave ==
  ASSUME MemoryInv, SaidInv, NEW r \in unsaved
  PROVE  Len(entries) < MaxEntries
<1>1. Cardinality(unsaved) # 0
  BY FS_EmptySet DEF SaidInv
<1> QED
  BY <1>1, SaidTyped, MemoryTyped DEF SaidInv

LEMMA NextKeepsSaidInv ==
  ASSUME MemoryInv, SaidInv, scope \in Scopes, [Next]_vars
  PROVE  SaidInv'
<1>1. scope.calls \subseteq MemoryCalls
  BY ConversationAssumption DEF ScopeType
<1>2. ASSUME NEW c, call_starts(c) \/ call_ends(c) PROVE SaidInv'
  BY <1>2, FewerUnsaved DEF call_starts, call_ends, memoryKept
<1>3. CASE PageCallStep
  <2>1. UNCHANGED memoryVars \/ \E a \in Attempts : call_starts(a) \/ call_ends(a)
    BY <1>3 DEF PageCallStep, Remembers
  <2> QED
    BY <1>2, <2>1, FewerUnsaved DEF memoryVars
<1>4. CASE MemoryStep
  <2>1. CASE RememberStep
    <3>1. UNCHANGED <<accepted, unsaved, entries>>
      BY <2>1 DEF RememberStep, enqueue_enrichment, classify_memory_events, apply_fact_events,
         maintain_memory_chunks, enrichment_preempted
    <3> QED
      BY <3>1, FewerUnsaved
  <2>2. CASE UserForgets(scope.forgets)
    BY <2>2, FewerUnsaved DEF UserForgets, delete_memories
  <2>3. CASE \E c \in scope.calls : CallRemembers(c)
    <3>1. PICK c \in MemoryCalls : CallRemembers(c)
      BY <1>1, <2>3
    <3>2. CASE \/ call_deleted(c) \/ call_restored(c) \/ call_purged(c)
               \/ recall_prior(c) \/ recall_read(c) \/ recall_windows(c)
      <4>1. UNCHANGED <<accepted, unsaved, entries>>
        BY <3>2 DEF call_deleted, call_restored, call_purged, recall_prior, recall_read,
           recall_windows, memoryKept
      <4> QED
        BY <4>1, FewerUnsaved
    <3>3. CASE \E speaker \in {"You", "Aura"} : transcript_said(c, speaker)
      BY <3>3, SaidKeepsSaid
    <3>4. CASE \E r \in unsaved : transcript_delayed(r) \/ transcript_saved(r)
      BY <3>4, DelayedKeepsSaid, SavedKeepsSaid
    <3> QED
      BY <3>1, <3>2, <3>3, <3>4 DEF CallRemembers
  <2>4. CASE \E c \in Elsewhere : call_starts(c) \/ call_ends(c)
    BY <1>2, <2>4
  <2> QED
    BY <1>4, <2>1, <2>2, <2>3, <2>4 DEF MemoryStep
<1>5. CASE ConversationStep \/ PageAlone \/ UNCHANGED vars
  BY <1>5, FewerUnsaved DEF ConversationStep, PageAlone, vars, memoryVars
<1> QED
  BY <1>3, <1>4, <1>5 DEF Next

LEMMA NextKeepsMemoryInv ==
  ASSUME MemoryInv, SaidInv, scope \in Scopes, [Next]_vars
  PROVE  MemoryInv'
<1>1. scope.calls \subseteq MemoryCalls
  BY ConversationAssumption DEF ScopeType
<1>2. CASE PageCallStep
  <2>1. UNCHANGED memoryVars \/ \E a \in Attempts : call_starts(a) \/ call_ends(a)
    BY <1>2 DEF PageCallStep, Remembers
  <2> QED
    BY <2>1, MemoryUnchanged, CallKeepsMemory
<1>3. CASE MemoryStep
  <2>1. CASE RememberStep
    BY <2>1, EnqueueKeepsMemory, ClassifyKeepsMemory, ApplyKeepsMemory, MaintainKeepsMemory
       DEF RememberStep
  <2>2. CASE UserForgets(scope.forgets)
    BY <2>2, DeleteKeepsMemory DEF UserForgets
  <2>3. CASE \E c \in scope.calls : CallRemembers(c)
    <3>1. PICK c \in MemoryCalls : CallRemembers(c)
      BY <1>1, <2>3
    <3>2. CASE \E speaker \in {"You", "Aura"} : transcript_said(c, speaker)
      <4>1. UNCHANGED <<called, entries, unqueued, lane, work, stated, table, windows, recall>>
        BY <3>2 DEF transcript_said
      <4> QED
        BY <4>1, EntriesKeepMemory
    <3>3. CASE \E r \in unsaved : transcript_delayed(r)
      <4>1. UNCHANGED <<called, entries, unqueued, lane, work, stated, table, windows, recall>>
        BY <3>3 DEF transcript_delayed
      <4> QED
        BY <4>1, EntriesKeepMemory
    <3>4. CASE \E r \in unsaved : transcript_saved(r)
      BY <3>4, SaidTyped, RoomToSave, SavedKeepsMemory
    <3> QED
      BY <3>1, <3>2, <3>3, <3>4, CallKeepsMemory, RecallKeepsMemory DEF CallRemembers
  <2>4. CASE \E c \in Elsewhere : call_starts(c) \/ call_ends(c)
    BY <2>4, CallKeepsMemory
  <2> QED
    BY <1>3, <2>1, <2>2, <2>3, <2>4 DEF MemoryStep
<1>4. CASE ConversationStep \/ PageAlone \/ UNCHANGED vars
  <2>1. UNCHANGED memoryVars
    BY <1>4 DEF ConversationStep, PageAlone, vars
  <2> QED
    BY <2>1, MemoryUnchanged
<1> QED
  BY <1>2, <1>3, <1>4 DEF Next

\* A call's transcripts are enriched in the order of their commits, which is the one in
\* which they were said but for those whose save was delayed; no fact of one is committed
\* while an older one of its call waits, so no fact is replaced by what was committed
\* before it (save_transcript_entry of calls.py, BackgroundTaskQueue of task_queue.py).
THEOREM MemoryAlwaysSound == Spec => [](MemoryInv /\ SaidInv /\ scope \in Scopes)
<1>1. Init => MemoryInv /\ SaidInv /\ scope \in Scopes
  BY InitMemoryInv, InitSaidInv DEF Init
<1>2. MemoryInv /\ SaidInv /\ scope \in Scopes /\ [Next]_vars
        => (MemoryInv /\ SaidInv /\ scope \in Scopes)'
  BY NextKeepsMemoryInv, NextKeepsSaidInv DEF Next, InScope, vars
<1> QED
  BY <1>1, <1>2, PTL DEF Spec

\* Of a name, a place or a language one value is remembered, the one that was committed
\* last in its call: whatever the model finds in a sentence, and however often enrichment
\* is preempted and run again (process_saved_transcript and apply_fact_events of
\* memory.py).  It is the one said last, unless its own save was delayed: retried after a
\* failure, spilled or replayed (BackgroundTaskQueue._worker of task_queue.py), which lets
\* what was said later be committed and enriched first.
THEOREM NewestStatementWins == Spec => []LatestStatementWins
<1>1. MemoryInv /\ SaidInv => LatestStatementWins
  <2> SUFFICES ASSUME MemoryInv, SaidInv, NEW f \in Facts, f.key \in Singles,
                      table[f].status = "active"
               PROVE  /\ \A g \in Facts :
                           g.type = f.type /\ g.key = f.key /\ table[g].status = "active" => g = f
                      /\ \A e \in DOMAIN entries :
                           Newer(e, table[f].source) =>
                             \A i \in DOMAIN stated[e] :
                               LET event == stated[e][i]
                               IN ~(event.action = "upsert" /\ event.fact.type = f.type
                                      /\ event.fact.key = f.key)
    BY DEF LatestStatementWins
  <2> DEFINE kept == table[f].source
  <2>1. kept \in 1..Len(entries) /\ Len(entries) \in Nat /\ DOMAIN entries = 1..Len(entries)
    BY MemoryTyped DEF MemoryInv, MemoryTypes
  <2> HIDE DEF kept
  <2>2. ASSUME NEW e \in 1..Len(entries), Newer(e, kept)
        PROVE  e \in (kept + 1)..Len(entries) /\ CallOf(e) = CallOf(kept)
    <3>1. CASE e > kept
      BY <2>1, <2>2, <3>1 DEF Newer
    <3>2. CASE entries[e].nth > entries[kept].nth /\ ~entries[kept].late
      <4>1. ~(e < kept) /\ e # kept
        BY <2>1, <2>2, <3>2, SaidTyped DEF Newer, SaidInv
      <4> QED
        BY <2>1, <2>2, <4>1 DEF Newer
    <3> QED
      BY <2>2, <3>1, <3>2 DEF Newer
  <2> QED
    BY <2>1, <2>2 DEF MemoryInv, CommittedWins, kept
<1> QED
  BY <1>1, MemoryAlwaysSound, PTL

\* Nothing is left of a purged call, and only calls that ended and are kept are recalled,
\* but for one that is deleted while it is read (purge_expired_call_row of calls.py and
\* build_turn_memory_context of memory.py).
THEOREM PurgedIsForgotten == Spec => MemoryOfKeptCalls
<1> DEFINE told == \A c \in MemoryCalls : \A p \in recall'[c].told \ recall[c].told :
                     called[p] = "ended" \/ recall[c].prior = p
<1>1. ASSUME MemoryInv, SaidInv, scope \in Scopes, [Next]_vars
      PROVE  [/\ \A f \in Facts :
                   table'[f].source # 0 => called'[entries[table'[f].source].call] # "purged"
              /\ \A w \in windows' : called'[w.call] # "purged"
              /\ told]_memoryVars
  <2>1. MemoryInv'
    BY <1>1, NextKeepsMemoryInv
  <2>2. told
    <3>1. CASE \E c \in scope.calls : recall_prior(c) \/ recall_read(c) \/ recall_windows(c)
      <4>1. PICK d : recall_prior(d) \/ recall_read(d) \/ recall_windows(d)
        BY <3>1
      <4>2. recall = [c \in MemoryCalls |-> recall[c]]
        BY <1>1 DEF MemoryInv, MemoryTypes
      <4>3. \A c \in MemoryCalls : c # d => recall'[c] = recall[c]
        BY <4>1, <4>2 DEF recall_prior, recall_read, recall_windows, Tell
      <4>4. d \in MemoryCalls =>
              \A p \in recall'[d].told : called[p] = "ended" \/ recall[d].prior = p
        <5> SUFFICES ASSUME d \in MemoryCalls, NEW p \in recall'[d].told
                     PROVE  called[p] = "ended" \/ recall[d].prior = p
          OBVIOUS
        <5>1. CASE recall_prior(d)
          <6>1. recall'[d].told = {}
            BY <4>2, <5>1 DEF recall_prior, NoRecall
          <6> QED
            BY <6>1
        <5>2. CASE recall_read(d)
          <6>1. recall'[d].told \subseteq {recall[d].prior}
            BY <4>2, <5>2 DEF recall_read, Tell, NoRecall
          <6> QED
            BY <6>1
        <5>3. CASE recall_windows(d)
          <6>1. recall'[d].told \subseteq Recallable(d)
            BY <4>2, <5>3 DEF recall_windows, Tell, NoRecall
          <6> QED
            BY <6>1 DEF Recallable
        <5> QED
          BY <4>1, <5>1, <5>2, <5>3
      <4> QED
        BY <4>3, <4>4
    <3>2. CASE UNCHANGED recall
      BY <3>2
    <3>3. \/ \E c \in scope.calls : recall_prior(c) \/ recall_read(c) \/ recall_windows(c)
          \/ UNCHANGED recall
      BY <1>1 DEF Next, ConversationStep, PageCallStep, PageAlone, MemoryStep, Remembers,
         RememberStep, UserForgets, CallRemembers, enqueue_enrichment, classify_memory_events,
         apply_fact_events, maintain_memory_chunks, enrichment_preempted, delete_memories,
         call_starts, call_ends, call_deleted, call_restored, call_purged, transcript_said,
         transcript_delayed, transcript_saved, memoryKept, memoryVars, vars
    <3> QED
      BY <3>1, <3>2, <3>3
  <2>3. UNCHANGED entries \/ UNCHANGED <<table, called>>
    BY <1>1 DEF Next, ConversationStep, PageCallStep, PageAlone, MemoryStep, Remembers,
       RememberStep, UserForgets, CallRemembers, enqueue_enrichment, classify_memory_events,
       apply_fact_events, maintain_memory_chunks, enrichment_preempted, delete_memories,
       call_starts, call_ends, call_deleted, call_restored, call_purged, transcript_said,
       transcript_delayed, transcript_saved, recall_prior, recall_read, recall_windows,
       memoryKept, memoryVars, vars
  <2>4. ASSUME NEW f \in Facts, table'[f].source # 0
        PROVE  called'[entries[table'[f].source].call] # "purged"
    <3>1. CASE UNCHANGED entries
      BY <2>1, <2>4, <3>1 DEF MemoryInv, KeptInv, Stored, CallOf
    <3>2. CASE UNCHANGED <<table, called>>
      BY <1>1, <2>4, <3>2 DEF MemoryInv, KeptInv, Stored, CallOf
    <3> QED
      BY <2>3, <3>1, <3>2
  <2> QED
    BY <2>1, <2>2, <2>4 DEF MemoryInv, KeptInv
<1> QED
  BY <1>1, MemoryAlwaysSound, PTL DEF Spec, MemoryOfKeptCalls

---------------------------------------------------------------------------
(* What is heard.                                                          *)

Words == Nat \ {0}
Jobs == [reply : 1..MaxVoiced, caller : Callers, from : 1..MaxWordsTold, to : 1..MaxWordsTold]
VoiceRows == [reply : 0..MaxVoiced, open : BOOLEAN, told : 0..MaxWordsTold,
            buffer : 0..MaxWordsTold, emitted : BOOLEAN, job : {NoPhrase} \union Jobs]
Hearings == [made : Seq(Nat), pushed : Seq(Nat), heard : Seq(Words), lost : SUBSET Words]

ExecutorTypes ==
  /\ executor \in [queue : Seq(Jobs), running : SUBSET Jobs, closed : BOOLEAN]
  /\ IsFiniteSet(executor.running) /\ Cardinality(executor.running) =< Workers

VoiceTypes ==
  /\ voice \in [Callers -> VoiceRows]
  /\ trimmer \in [Callers -> [buffered : 0..Preroll, audible : BOOLEAN]]
  /\ audio \in [Callers -> Hearings]

\* A phrase is of the last words that were told, and none but the words behind
\* the phrases wait.
Phrased(v, c) ==
  /\ v.open => v.reply # 0
  /\ v.buffer =< v.told /\ (~v.open => v.buffer = 0)
  /\ v.job # NoPhrase =>
       v.job.caller = c /\ v.job.from =< v.job.to /\ v.job.to = v.told /\ v.buffer = 0

SpokenUpTo(v) == IF v.job # NoPhrase THEN v.job.from - 1 ELSE v.told - v.buffer

\* Each word that was spoken was heard, after those before it, or was lost.
Accounted(h, lost, n) ==
  /\ \A i, j \in 1..Len(h) : i < j => h[i] < h[j]
  /\ \A i \in 1..Len(h) : h[i] =< n /\ h[i] \notin lost
  /\ lost \subseteq 1..n
  /\ \A w \in 1..n : w \in lost \/ \E i \in 1..Len(h) : h[i] = w

\* The first word of the samples, and what the trimmer lets through with it.
Begins(s, k) == k \in 1..Len(s) /\ s[k] # 0 /\ \A i \in 1..(k - 1) : s[i] = 0
FromPreroll(k) == IF k > Preroll THEN k - Preroll ELSE 1

NoWordYet(a) == a.pushed = <<>> /\ \A i \in 1..Len(a.made) : a.made[i] = 0
WordsPass(a) ==
  \E k \in 1..Len(a.made) : Begins(a.made, k) /\ a.pushed = SubSeq(a.made, FromPreroll(k), Len(a.made))

\* The trimmer knows whether a word came while more may come.
Trimmed(v, t, a) ==
  /\ NoWordYet(a) \/ WordsPass(a)
  /\ v.open \/ v.job # NoPhrase =>
       IF t.audible THEN WordsPass(a)
       ELSE NoWordYet(a) /\ t.buffered = IF Len(a.made) > Preroll THEN Preroll ELSE Len(a.made)

HeardOf(c) ==
  /\ Phrased(voice[c], c) /\ Accounted(audio[c].heard, audio[c].lost, SpokenUpTo(voice[c]))
  /\ Trimmed(voice[c], trimmer[c], audio[c])

HeardInv == ExecutorTypes /\ VoiceTypes /\ \A c \in Callers : HeardOf(c)
\* The samples of a frame, one by one.
LEMMA FrameSamples ==
  ASSUME NEW n \in Nat, NEW w \in Seq(Words)
  PROVE  /\ AudioFrame(n, w) \in Seq(Nat) /\ Len(AudioFrame(n, w)) = n + Len(w)
         /\ \A i \in 1..(n + Len(w)) : AudioFrame(n, w)[i] = IF i =< n THEN 0 ELSE w[i - n]
<1> DEFINE z == [i \in 1..n |-> 0]
<1>1. z \in Seq(Nat) /\ Len(z) = n /\ \A i \in 1..n : z[i] = 0
  OBVIOUS
<1>2. w \in Seq(Nat)
  BY DEF Words
<1> HIDE DEF z
<1>3. /\ z \o w \in Seq(Nat) /\ Len(z \o w) = Len(z) + Len(w)
      /\ \A i \in 1..(Len(z) + Len(w)) :
           (z \o w)[i] = IF i =< Len(z) THEN z[i] ELSE w[i - Len(z)]
  BY <1>1, <1>2, ConcatProperties
<1>4. Len(w) \in Nat
  BY <1>2
<1> QED
  BY <1>1, <1>3, <1>4 DEF AudioFrame, z

\* The end of a sequence, element by element.
LEMMA SuffixElements ==
  ASSUME NEW S, NEW s \in Seq(S), NEW m \in 1..Len(s)
  PROVE  /\ SubSeq(s, m, Len(s)) \in Seq(S) /\ Len(SubSeq(s, m, Len(s))) = Len(s) - m + 1
         /\ \A i \in 1..(Len(s) - m + 1) : SubSeq(s, m, Len(s))[i] = s[m + i - 1]
<1>1. m \in Int /\ Len(s) \in Int /\ m =< Len(s) /\ \A i \in m..Len(s) : s[i] \in S
  OBVIOUS
<1> QED
  BY <1>1, SubSeqProperties

\* What passes the trimmer goes on when samples follow.
LEMMA PassedGoesOn ==
  ASSUME NEW S, NEW s \in Seq(S), NEW t \in Seq(S), NEW k \in 1..Len(s)
  PROVE  SubSeq(s, k, Len(s)) \o t = SubSeq(s \o t, k, Len(s \o t))
<1> DEFINE p == SubSeq(s, k, Len(s))
           r == s \o t
           q == SubSeq(r, k, Len(r))
<1>1. Len(s) \in Nat /\ Len(t) \in Nat /\ k \in 1..Len(s)
  OBVIOUS
<1>2. /\ p \in Seq(S) /\ Len(p) = Len(s) - k + 1
      /\ \A i \in 1..(Len(s) - k + 1) : p[i] = s[k + i - 1]
  BY SuffixElements
<1>3. /\ r \in Seq(S) /\ Len(r) = Len(s) + Len(t)
      /\ \A i \in 1..(Len(s) + Len(t)) : r[i] = IF i =< Len(s) THEN s[i] ELSE t[i - Len(s)]
  BY ConcatProperties
<1> HIDE DEF r
<1>4. /\ q \in Seq(S) /\ Len(q) = Len(r) - k + 1
      /\ \A i \in 1..(Len(r) - k + 1) : q[i] = r[k + i - 1]
  <2>1. k \in 1..Len(r)
    BY <1>1, <1>3
  <2> QED
    BY <1>3, <2>1, SuffixElements
<1>5. /\ p \o t \in Seq(S) /\ Len(p \o t) = Len(p) + Len(t)
      /\ \A i \in 1..(Len(p) + Len(t)) : (p \o t)[i] = IF i =< Len(p) THEN p[i] ELSE t[i - Len(p)]
  BY <1>2, ConcatProperties
<1> HIDE DEF p, q
<1>6. Len(p \o t) = Len(q)
  BY <1>1, <1>2, <1>3, <1>4, <1>5
<1>7. ASSUME NEW i \in 1..Len(q)
      PROVE  (p \o t)[i] = q[i]
  <2>1. i \in Int /\ 1 =< i /\ i =< Len(s) + Len(t) - k + 1
    BY <1>1, <1>3, <1>4
  <2>2. i \in 1..(Len(r) - k + 1) /\ k + i - 1 \in 1..(Len(s) + Len(t))
    BY <1>1, <1>3, <2>1
  <2>3. q[i] = IF k + i - 1 =< Len(s) THEN s[k + i - 1] ELSE t[k + i - 1 - Len(s)]
    <3> DEFINE j == k + i - 1
    <3>1. q[i] = r[j] /\ j \in 1..(Len(s) + Len(t))
      BY <1>4, <2>2
    <3> HIDE DEF j
    <3>2. r[j] = IF j =< Len(s) THEN s[j] ELSE t[j - Len(s)]
      BY <1>3, <3>1
    <3> QED
      BY <3>1, <3>2 DEF j
  <2>4. CASE i =< Len(s) - k + 1
    <3>1. i \in 1..(Len(s) - k + 1) /\ i \in 1..(Len(p) + Len(t)) /\ k + i - 1 =< Len(s)
      BY <1>1, <1>2, <2>1, <2>4
    <3>2. (p \o t)[i] = p[i]
      BY <1>2, <1>5, <2>4, <3>1
    <3> QED
      BY <1>2, <2>3, <3>1, <3>2
  <2>5. CASE ~(i =< Len(s) - k + 1)
    <3>1. (p \o t)[i] = t[i - (Len(s) - k + 1)]
      BY <1>1, <1>2, <1>5, <2>1, <2>5
    <3>2. ~(k + i - 1 =< Len(s))
      BY <1>1, <2>1, <2>5
    <3>3. q[i] = t[k + i - 1 - Len(s)]
      BY <2>3, <3>2
    <3>4. i - (Len(s) - k + 1) = k + i - 1 - Len(s)
      BY <1>1, <2>1
    <3> QED
      BY <3>1, <3>3, <3>4
  <2> QED
    BY <2>4, <2>5
<1> QED
  BY <1>4, <1>5, <1>6, <1>7, SeqEqual DEF p, q, r

\* Silence, and then words.
LEMMA SilenceThenFrame ==
  ASSUME NEW s \in Seq(Nat), \A i \in 1..Len(s) : s[i] = 0, NEW n \in Nat, NEW w \in Seq(Words),
         NEW z \in Nat, z = Len(s) + n
  PROVE  LET r == s \o AudioFrame(n, w)
         IN /\ r \in Seq(Nat) /\ Len(r) = z + Len(w)
            /\ \A i \in 1..(z + Len(w)) : r[i] = IF i =< z THEN 0 ELSE w[i - z]
<1> DEFINE f == AudioFrame(n, w)
           r == s \o f
<1>1. Len(s) \in Nat /\ Len(w) \in Nat
  OBVIOUS
<1>2. /\ f \in Seq(Nat) /\ Len(f) = n + Len(w)
      /\ \A i \in 1..(n + Len(w)) : f[i] = IF i =< n THEN 0 ELSE w[i - n]
  BY FrameSamples
<1> HIDE DEF f
<1>3. /\ r \in Seq(Nat) /\ Len(r) = Len(s) + Len(f)
      /\ \A i \in 1..(Len(s) + Len(f)) : r[i] = IF i =< Len(s) THEN s[i] ELSE f[i - Len(s)]
  BY <1>2, ConcatProperties
<1> HIDE DEF r
<1>4. ASSUME NEW i \in 1..(z + Len(w))
      PROVE  r[i] = IF i =< z THEN 0 ELSE w[i - z]
  <2>1. i \in 1..(Len(s) + Len(f))
    BY <1>1, <1>2
  <2>2. CASE i =< Len(s)
    BY <1>1, <1>3, <2>1, <2>2
  <2>3. CASE ~(i =< Len(s))
    <3> DEFINE j == i - Len(s)
    <3>1. j \in 1..(n + Len(w)) /\ (j =< n <=> i =< z) /\ j - n = i - z
      BY <1>1, <2>3
    <3>2. r[i] = f[j]
      BY <1>3, <2>1, <2>3
    <3> HIDE DEF j
    <3>3. f[j] = IF j =< n THEN 0 ELSE w[j - n]
      BY <1>2, <3>1
    <3> QED
      BY <3>1, <3>2, <3>3
  <2> QED
    BY <2>2, <2>3
<1>5. Len(r) = z + Len(w)
  BY <1>1, <1>2, <1>3
<1> QED
  BY <1>3, <1>4, <1>5 DEF r, f

\* The first word passes with the preroll before it.
LEMMA FirstWordPasses ==
  ASSUME NEW w \in Seq(Words), w # <<>>, NEW z \in Nat,
         NEW r \in Seq(Nat), Len(r) = z + Len(w),
         \A i \in 1..(z + Len(w)) : r[i] = IF i =< z THEN 0 ELSE w[i - z]
  PROVE  LET kept == IF z > Preroll THEN Preroll ELSE z
         IN Begins(r, z + 1) /\ AudioFrame(kept, w) = SubSeq(r, FromPreroll(z + 1), Len(r))
<1> DEFINE kept == IF z > Preroll THEN Preroll ELSE z
           m == z + 1 - kept
           q == SubSeq(r, m, Len(r))
           g == AudioFrame(kept, w)
<1>1. Preroll \in Nat
  BY SynthesisAssumption
<1>2. Len(w) \in Nat /\ Len(w) > 0 /\ \A i \in 1..Len(w) : w[i] \in Nat /\ w[i] # 0
  BY DEF Words
<1>3. kept \in Nat /\ kept =< z /\ FromPreroll(z + 1) = m
  BY <1>1 DEF FromPreroll
<1> HIDE DEF kept
<1>4. /\ g \in Seq(Nat) /\ Len(g) = kept + Len(w)
      /\ \A i \in 1..(kept + Len(w)) : g[i] = IF i =< kept THEN 0 ELSE w[i - kept]
  BY <1>3, FrameSamples
<1> HIDE DEF g
<1>5. Begins(r, z + 1)
  <2>1. z + 1 \in 1..(z + Len(w)) /\ ~(z + 1 =< z) /\ z + 1 - z = 1
    BY <1>2
  <2>2. r[z + 1] = w[1]
    BY <2>1
  <2>3. w[1] # 0
    BY <1>2
  <2>4. \A i \in 1..(z + 1 - 1) : r[i] = 0
    BY <1>2
  <2> QED
    BY <2>1, <2>2, <2>3, <2>4 DEF Begins
<1>6. /\ q \in Seq(Nat) /\ Len(q) = Len(r) - m + 1
      /\ \A i \in 1..(Len(r) - m + 1) : q[i] = r[m + i - 1]
  <2>1. m \in 1..Len(r)
    BY <1>2, <1>3
  <2> HIDE DEF m
  <2> QED
    BY <2>1, SuffixElements
<1> HIDE DEF q
<1>7. Len(r) - m + 1 = kept + Len(w)
  BY <1>2, <1>3
<1>8. ASSUME NEW i \in 1..(kept + Len(w))
      PROVE  g[i] = q[i]
  <2> DEFINE j == m + i - 1
  <2>1. j \in 1..(z + Len(w)) /\ (j =< z <=> i =< kept) /\ j - z = i - kept
    BY <1>2, <1>3
  <2>2. q[i] = r[j]
    BY <1>6, <1>7
  <2> HIDE DEF j
  <2>3. r[j] = IF j =< z THEN 0 ELSE w[j - z]
    BY <2>1
  <2> QED
    BY <1>4, <2>1, <2>2, <2>3
<1> HIDE DEF m
<1>9. g = q
  <2>1. Len(g) = Len(q) /\ Len(g) = kept + Len(w)
    BY <1>4, <1>6, <1>7
  <2> QED
    BY <1>4, <1>6, <1>8, <2>1, SeqEqual
<1> QED
  BY <1>3, <1>5, <1>9 DEF kept, g, q

\* After the first word everything passes.
LEMMA MoreWordsPass ==
  ASSUME NEW s \in Seq(Nat), NEW t \in Seq(Nat), NEW k \in 1..Len(s), Begins(s, k)
  PROVE  /\ k \in 1..Len(s \o t) /\ Begins(s \o t, k)
         /\ SubSeq(s, FromPreroll(k), Len(s)) \o t
              = SubSeq(s \o t, FromPreroll(k), Len(s \o t))
<1>1. /\ Len(s \o t) = Len(s) + Len(t) /\ Len(s) \in Nat /\ Len(t) \in Nat
      /\ \A i \in 1..(Len(s) + Len(t)) : (s \o t)[i] = IF i =< Len(s) THEN s[i] ELSE t[i - Len(s)]
  BY ConcatProperties
<1>2. k \in 1..Len(s \o t) /\ Begins(s \o t, k)
  BY <1>1 DEF Begins
<1>3. FromPreroll(k) \in 1..Len(s)
  BY <1>1, SynthesisAssumption DEF FromPreroll
<1> QED
  BY <1>2, <1>3, PassedGoesOn


\* A phrase is heard behind what was heard before it.
LEMMA PhraseHeard ==
  ASSUME NEW h \in Seq(Words), NEW lost, NEW from \in Words, NEW to \in Nat, from =< to,
         Accounted(h, lost, from - 1)
  PROVE  LET w == [i \in 1..(to - from + 1) |-> from + i - 1]
         IN h \o w \in Seq(Words) /\ Accounted(h \o w, lost, to)
<1> DEFINE w == [i \in 1..(to - from + 1) |-> from + i - 1]
           b == h \o w
           n == Len(h)
           l == to - from + 1
<1>1. n \in Nat /\ l \in Nat /\ from \in Nat /\ from > 0
  BY DEF Words
<1>2. /\ w \in Seq(Words) /\ Len(w) = l /\ \A i \in 1..l : w[i] = from + i - 1
  BY <1>1 DEF Words
<1> HIDE DEF w
<1>3. /\ b \in Seq(Words) /\ Len(b) = n + Len(w)
      /\ \A i \in 1..(n + Len(w)) : b[i] = IF i =< n THEN h[i] ELSE w[i - n]
  BY <1>2, ConcatProperties
<1>4. \A i \in 1..n : h[i] \in Nat /\ h[i] =< from - 1 /\ h[i] \notin lost
  BY DEF Accounted, Words
<1> HIDE DEF b
<1>5. \A i, j \in 1..n : i < j => h[i] < h[j]
  BY DEF Accounted
<1>6. lost \subseteq 1..(from - 1)
  BY DEF Accounted
<1>7. \A v \in 1..(from - 1) : v \in lost \/ \E i \in 1..n : h[i] = v
  BY DEF Accounted
<1>8. Len(b) = n + l
  BY <1>2, <1>3
<1>9. ASSUME NEW i \in 1..(n + l)
      PROVE  b[i] = IF i =< n THEN h[i] ELSE from + (i - n) - 1
  <2>1. b[i] = IF i =< n THEN h[i] ELSE w[i - n]
    BY <1>2, <1>3
  <2>2. CASE ~(i =< n)
    <3>1. i - n \in 1..l
      BY <1>1, <2>2
    <3> QED
      BY <1>2, <2>1, <2>2, <3>1
  <2> QED
    BY <2>1, <2>2
<1> HIDE DEF n, l
<1>10. \A i, j \in 1..(n + l) : i < j => b[i] < b[j]
  <2> SUFFICES ASSUME NEW i \in 1..(n + l), NEW j \in 1..(n + l), i < j
               PROVE  b[i] < b[j]
    OBVIOUS
  <2>1. CASE j =< n
    BY <1>1, <1>5, <1>9, <2>1
  <2>2. CASE i =< n /\ ~(j =< n)
    <3>1. i \in 1..n /\ b[i] = h[i] /\ b[j] = from + (j - n) - 1
      BY <1>1, <1>9, <2>2
    <3>2. h[i] \in Nat /\ h[i] =< from - 1
      BY <1>4, <3>1
    <3> QED
      BY <1>1, <2>2, <3>1, <3>2
  <2>3. CASE ~(i =< n) /\ ~(j =< n)
    BY <1>1, <1>9, <2>3
  <2> QED
    BY <1>1, <2>1, <2>2, <2>3
<1>11. ASSUME NEW i \in 1..(n + l)
       PROVE  b[i] =< to /\ b[i] \notin lost
  <2>1. CASE i =< n
    <3>1. i \in 1..n /\ b[i] = h[i]
      BY <1>1, <1>9, <2>1
    <3> QED
      BY <1>1, <1>4, <3>1
  <2>2. CASE ~(i =< n)
    BY <1>1, <1>6, <1>9, <2>2 DEF l
  <2> QED
    BY <2>1, <2>2
<1>12. ASSUME NEW v \in 1..to
       PROVE  v \in lost \/ \E i \in 1..(n + l) : b[i] = v
  <2>1. CASE v \in 1..(from - 1)
    <3>1. CASE \E i \in 1..n : h[i] = v
      <4>1. PICK i \in 1..n : h[i] = v
        BY <3>1
      <4>2. i \in 1..(n + l) /\ i =< n
        BY <1>1
      <4> QED
        BY <1>9, <4>1, <4>2
    <3> QED
      BY <1>7, <2>1, <3>1
  <2>2. CASE v \notin 1..(from - 1)
    <3> DEFINE j == n + (v - from + 1)
    <3>1. j \in 1..(n + l) /\ ~(j =< n) /\ from + (j - n) - 1 = v
      BY <1>1, <2>2 DEF l
    <3> HIDE DEF j
    <3> QED
      BY <1>9, <3>1
  <2> QED
    BY <2>1, <2>2
<1>13. lost \subseteq 1..to
  BY <1>1, <1>6
<1> QED
  BY <1>3, <1>8, <1>10, <1>11, <1>12, <1>13 DEF Accounted, b, w

\* Or it is lost.
LEMMA PhraseLost ==
  ASSUME NEW h \in Seq(Words), NEW lost, NEW from \in Words, NEW to \in Nat, from =< to,
         Accounted(h, lost, from - 1)
  PROVE  Accounted(h, lost \union from..to, to)
<1>1. from \in Nat /\ from > 0
  BY DEF Words
<1>2. \A i \in 1..Len(h) : h[i] \in Nat /\ h[i] =< from - 1
  BY DEF Accounted, Words
<1>3. \A i \in 1..Len(h) : h[i] =< to /\ h[i] \notin (lost \union from..to)
  BY <1>1, <1>2 DEF Accounted
<1>4. lost \union from..to \subseteq 1..to
  BY <1>1 DEF Accounted
<1>5. \A v \in 1..to : v \in from..to \/ v \in 1..(from - 1)
  BY <1>1
<1> QED
  BY <1>3, <1>4, <1>5 DEF Accounted

TrimmerRows == [buffered : 0..Preroll, audible : BOOLEAN]

LEMMA HeardBounds ==
  /\ Workers \in Nat /\ Workers > 0 /\ Preroll \in Nat
  /\ MaxWordsTold \in Nat /\ MaxSilence \in Nat /\ MaxVoiced \in Nat
  BY SynthesisAssumption

\* What a step does to one caller keeps the others.
LEMMA OneCallerStep ==
  ASSUME HeardInv, NEW c \in Callers, ExecutorTypes',
         NEW v \in VoiceRows, NEW t \in TrimmerRows, NEW a \in Hearings,
         voice' = [voice EXCEPT ![c] = v], trimmer' = [trimmer EXCEPT ![c] = t],
         audio' = [audio EXCEPT ![c] = a],
         Phrased(v, c), Accounted(a.heard, a.lost, SpokenUpTo(v)), Trimmed(v, t, a)
  PROVE  HeardInv'
<1>1. VoiceTypes /\ \A d \in Callers : HeardOf(d)
  BY DEF HeardInv
<1>2. /\ voice'[c] = v /\ trimmer'[c] = t /\ audio'[c] = a
      /\ \A d \in Callers : d # c => /\ voice'[d] = voice[d] /\ trimmer'[d] = trimmer[d]
                                     /\ audio'[d] = audio[d]
  BY <1>1 DEF VoiceTypes
<1>3. VoiceTypes'
  BY <1>1 DEF VoiceTypes, TrimmerRows
<1>4. ASSUME NEW d \in Callers
      PROVE  HeardOf(d)'
  <2>1. CASE d = c
    BY <1>2, <2>1 DEF HeardOf
  <2>2. CASE d # c
    <3>1. HeardOf(d)
      BY <1>1
    <3> QED
      BY <1>2, <2>2, <3>1 DEF HeardOf
  <2> QED
    BY <2>1, <2>2
<1> QED
  BY <1>3, <1>4 DEF HeardInv

LEMMA NothingHeard ==
  /\ Unheard \in Hearings /\ Untrimmed \in TrimmerRows
  /\ Accounted(Unheard.heard, Unheard.lost, 0)
  /\ \A v : Trimmed(v, Untrimmed, Unheard)
<1>1. Unheard \in Hearings
  BY DEF Unheard, Hearings
<1>2. Untrimmed \in TrimmerRows
  BY HeardBounds DEF Untrimmed, TrimmerRows
<1>3. Accounted(Unheard.heard, Unheard.lost, 0)
  BY DEF Accounted, Unheard
<1>4. ASSUME NEW v
      PROVE  Trimmed(v, Untrimmed, Unheard)
  BY HeardBounds DEF Trimmed, Untrimmed, Unheard, NoWordYet
<1> QED
  BY <1>1, <1>2, <1>3, <1>4

LEMMA JobIsPhrase ==
  ASSUME NEW j \in Jobs
  PROVE  /\ j # NoPhrase /\ j.caller \in Callers
         /\ j.from \in 1..MaxWordsTold /\ j.to \in 1..MaxWordsTold
<1>1. j.reply # 0 /\ NoPhrase.reply = 0
  BY HeardBounds DEF Jobs, NoPhrase
<1> QED
  BY <1>1 DEF Jobs

LEMMA CallerTyped ==
  ASSUME HeardInv, NEW c \in Callers
  PROVE  /\ voice[c] \in VoiceRows /\ trimmer[c] \in TrimmerRows /\ audio[c] \in Hearings
         /\ Phrased(voice[c], c) /\ Trimmed(voice[c], trimmer[c], audio[c])
         /\ Accounted(audio[c].heard, audio[c].lost, SpokenUpTo(voice[c]))
  BY DEF HeardInv, VoiceTypes, HeardOf, TrimmerRows

LEMMA ReplyKeepsHeard ==
  ASSUME HeardInv, NEW c \in Callers, reply_begins(c)
  PROVE  HeardInv'
<1> DEFINE v == [voice[c] EXCEPT !.reply = @ + 1, !.open = TRUE, !.told = 0]
<1>1. voice[c] \in VoiceRows /\ Phrased(voice[c], c)
  BY CallerTyped
<1>2. /\ voice[c].buffer = 0 /\ voice[c].job = NoPhrase
      /\ voice[c].reply + 1 \in 0..MaxVoiced /\ voice[c].reply + 1 # 0 /\ 0 \in 0..MaxWordsTold
  BY <1>1, HeardBounds DEF reply_begins, Phrased, VoiceRows
<1>3. /\ v \in VoiceRows /\ v.reply = voice[c].reply + 1 /\ v.open /\ v.told = 0
      /\ v.buffer = 0 /\ v.job = NoPhrase
  BY <1>1, <1>2 DEF VoiceRows
<1>4. voice' = [voice EXCEPT ![c] = v]
  BY DEF reply_begins
<1> HIDE DEF v
<1>5. Phrased(v, c) /\ SpokenUpTo(v) = 0
  BY <1>2, <1>3 DEF Phrased, SpokenUpTo
<1>6. ExecutorTypes'
  BY DEF HeardInv, ExecutorTypes, reply_begins
<1> QED
  BY <1>3, <1>4, <1>5, <1>6, NothingHeard, OneCallerStep DEF reply_begins

\* A phrase is given to the executor, or refused by it.
LEMMA RunTtsKeepsHeard ==
  ASSUME HeardInv, NEW c \in Callers, NEW from \in Words, NEW next \in VoiceRows,
         voice[c].open, SpokenUpTo(voice[c]) = from - 1, from =< next.told,
         next.buffer = 0, next.job = NoPhrase, next.reply \in 1..MaxVoiced,
         run_tts(c, from, next.told, next), UNCHANGED trimmer
  PROVE  HeardInv'
<1> DEFINE to == next.told
           phrase == [reply |-> next.reply, caller |-> c, from |-> from, to |-> to]
<1>1. /\ voice[c] \in VoiceRows /\ trimmer[c] \in TrimmerRows /\ audio[c] \in Hearings
      /\ Trimmed(voice[c], trimmer[c], audio[c])
      /\ Accounted(audio[c].heard, audio[c].lost, from - 1)
  BY CallerTyped
<1>2. to \in Nat /\ from \in 1..MaxWordsTold /\ to \in 1..MaxWordsTold /\ from =< to
  BY HeardBounds DEF VoiceRows, Words
<1>3. phrase \in Jobs
  BY <1>2 DEF Jobs
<1>4. trimmer' = [trimmer EXCEPT ![c] = trimmer[c]]
  BY DEF HeardInv, VoiceTypes
<1>5. audio[c].heard \in Seq(Words) /\ audio[c].lost \subseteq Words
  BY <1>1 DEF Hearings
<1>6. CASE executor.closed
  <2> DEFINE a == [audio[c] EXCEPT !.lost = @ \union from..to]
  <2>1. a.lost \subseteq Words
    BY <1>1, <1>2, <1>5 DEF Words, Hearings
  <2>2. /\ a \in Hearings /\ a.lost = audio[c].lost \union from..to /\ a.heard = audio[c].heard
        /\ a.made = audio[c].made /\ a.pushed = audio[c].pushed
    BY <1>1, <2>1 DEF Hearings
  <2>3. audio' = [audio EXCEPT ![c] = a] /\ voice' = [voice EXCEPT ![c] = next]
    BY <1>6 DEF run_tts
  <2> HIDE DEF a
  <2>4. Accounted(a.heard, a.lost, to)
    BY <1>1, <1>2, <1>5, <2>2, PhraseLost
  <2>5. SpokenUpTo(next) = to /\ Phrased(next, c)
    BY <1>2 DEF SpokenUpTo, Phrased, VoiceRows
  <2>6. Trimmed(next, trimmer[c], a)
    BY <1>1, <2>2 DEF Trimmed, WordsPass, NoWordYet
  <2>7. ExecutorTypes'
    BY <1>6 DEF HeardInv, ExecutorTypes, run_tts
  <2> QED
    BY <1>1, <1>4, <2>2, <2>3, <2>4, <2>5, <2>6, <2>7, OneCallerStep
<1>7. CASE ~executor.closed
  <2> DEFINE v == [next EXCEPT !.job = phrase]
  <2>1. v \in VoiceRows
    BY <1>3 DEF VoiceRows
  <2>2. phrase # NoPhrase
    BY <1>3, JobIsPhrase
  <2>3. SpokenUpTo(v) = from - 1 /\ Phrased(v, c)
    BY <1>2, <2>2 DEF SpokenUpTo, Phrased, VoiceRows
  <2>4. Trimmed(v, trimmer[c], audio[c])
    BY <1>1 DEF Trimmed
  <2>5. audio' = [audio EXCEPT ![c] = audio[c]] /\ voice' = [voice EXCEPT ![c] = v]
    BY <1>7 DEF HeardInv, VoiceTypes, run_tts
  <2>6. ExecutorTypes'
    <3>1. executor' = [executor EXCEPT !.queue = Append(@, phrase)]
      BY <1>7 DEF run_tts
    <3> HIDE DEF phrase
    <3>2. executor \in [queue : Seq(Jobs), running : SUBSET Jobs, closed : BOOLEAN]
      BY DEF HeardInv, ExecutorTypes
    <3>3. executor.queue \in Seq(Jobs)
      BY <3>2
    <3>4. Append(executor.queue, phrase) \in Seq(Jobs)
      BY <1>3, <3>3
    <3>5. /\ executor' \in [queue : Seq(Jobs), running : SUBSET Jobs, closed : BOOLEAN]
          /\ executor'.running = executor.running
      BY <3>1, <3>2, <3>4
    <3> QED
      BY <3>5 DEF HeardInv, ExecutorTypes
  <2> HIDE DEF v
  <2> QED
    BY <1>1, <1>4, <2>1, <2>3, <2>4, <2>5, <2>6, OneCallerStep
<1> QED
  BY <1>6, <1>7

LEMMA AggregateKeepsHeard ==
  ASSUME HeardInv, NEW c \in Callers, NEW end, aggregate(c, end)
  PROVE  HeardInv'
<1> DEFINE v == [voice[c] EXCEPT !.told = @ + 1, !.buffer = @ + 1]
           n == [v EXCEPT !.buffer = 0, !.emitted = TRUE]
           from == v.told - v.buffer + 1
<1>1. /\ voice[c] \in VoiceRows /\ trimmer[c] \in TrimmerRows /\ audio[c] \in Hearings
      /\ Phrased(voice[c], c) /\ Trimmed(voice[c], trimmer[c], audio[c])
      /\ Accounted(audio[c].heard, audio[c].lost, SpokenUpTo(voice[c]))
  BY CallerTyped
<1>2. /\ voice[c].open /\ voice[c].job = NoPhrase /\ voice[c].reply \in 1..MaxVoiced
      /\ voice[c].told \in Nat /\ voice[c].told < MaxWordsTold /\ voice[c].buffer \in Nat
      /\ voice[c].buffer =< voice[c].told
  BY <1>1, HeardBounds DEF aggregate, VoiceRows, Phrased
<1>3. voice[c].told + 1 \in 0..MaxWordsTold /\ voice[c].buffer + 1 \in 0..MaxWordsTold
  BY <1>2, HeardBounds
<1>4. /\ v \in VoiceRows /\ v.open /\ v.job = NoPhrase /\ v.told = voice[c].told + 1
      /\ v.buffer = voice[c].buffer + 1 /\ v.reply = voice[c].reply
  BY <1>1, <1>2, <1>3 DEF VoiceRows
<1>5. CASE should_emit(c, end)
  <2>1. /\ n \in VoiceRows
        /\ n.buffer = 0 /\ n.job = NoPhrase /\ n.reply = voice[c].reply /\ n.told = v.told
    <3>1. 0 \in 0..MaxWordsTold
      BY HeardBounds
    <3> HIDE DEF v
    <3> QED
      BY <1>4, <3>1 DEF VoiceRows
  <2>2. run_tts(c, from, n.told, n) /\ UNCHANGED trimmer
    BY <1>5, <2>1 DEF aggregate
  <2>3. SpokenUpTo(voice[c]) = from - 1 /\ from \in Words /\ from =< n.told
    BY <1>2, <1>4, <2>1 DEF SpokenUpTo, Words
  <2> HIDE DEF n, from, v
  <2> QED
    BY <1>2, <2>1, <2>2, <2>3, RunTtsKeepsHeard
<1>6. CASE ~should_emit(c, end)
  <2>1. voice' = [voice EXCEPT ![c] = v] /\ UNCHANGED <<executor, audio, trimmer>>
    BY <1>6 DEF aggregate
  <2>2. /\ audio' = [audio EXCEPT ![c] = audio[c]] /\ trimmer' = [trimmer EXCEPT ![c] = trimmer[c]]
        /\ ExecutorTypes'
    BY <2>1 DEF HeardInv, VoiceTypes, ExecutorTypes
  <2> HIDE DEF v
  <2>3. Phrased(v, c) /\ SpokenUpTo(v) = SpokenUpTo(voice[c])
    BY <1>2, <1>4 DEF Phrased, SpokenUpTo
  <2>4. Trimmed(v, trimmer[c], audio[c])
    BY <1>1, <1>2, <1>4 DEF Trimmed
  <2> QED
    BY <1>1, <1>4, <2>1, <2>2, <2>3, <2>4, OneCallerStep
<1> QED
  BY <1>5, <1>6

LEMMA FlushKeepsHeard ==
  ASSUME HeardInv, NEW c \in Callers, flush(c)
  PROVE  HeardInv'
<1> DEFINE n == [voice[c] EXCEPT !.open = FALSE, !.buffer = 0, !.emitted = FALSE]
           from == voice[c].told - voice[c].buffer + 1
<1>1. /\ voice[c] \in VoiceRows /\ trimmer[c] \in TrimmerRows /\ audio[c] \in Hearings
      /\ Phrased(voice[c], c) /\ Trimmed(voice[c], trimmer[c], audio[c])
      /\ Accounted(audio[c].heard, audio[c].lost, SpokenUpTo(voice[c]))
  BY CallerTyped
<1>2. /\ voice[c].open /\ voice[c].job = NoPhrase /\ voice[c].reply \in 1..MaxVoiced
      /\ voice[c].told \in Nat /\ voice[c].buffer \in Nat /\ voice[c].buffer =< voice[c].told
  BY <1>1, HeardBounds DEF flush, VoiceRows, Phrased
<1>3. 0 \in 0..MaxWordsTold
  BY HeardBounds
<1>4. /\ n \in VoiceRows /\ ~n.open /\ n.job = NoPhrase /\ n.told = voice[c].told /\ n.buffer = 0
      /\ n.reply = voice[c].reply
  BY <1>1, <1>2, <1>3 DEF VoiceRows
<1>5. CASE voice[c].buffer > 0
  <2>1. run_tts(c, from, n.told, n) /\ UNCHANGED trimmer
    BY <1>4, <1>5 DEF flush
  <2>2. SpokenUpTo(voice[c]) = from - 1 /\ from \in Words /\ from =< n.told
    BY <1>2, <1>4, <1>5 DEF SpokenUpTo, Words
  <2> HIDE DEF n, from
  <2> QED
    BY <1>2, <1>4, <2>1, <2>2, RunTtsKeepsHeard
<1>6. CASE ~(voice[c].buffer > 0)
  <2>1. voice' = [voice EXCEPT ![c] = n] /\ UNCHANGED <<executor, audio, trimmer>>
    BY <1>6 DEF flush
  <2>2. /\ audio' = [audio EXCEPT ![c] = audio[c]] /\ trimmer' = [trimmer EXCEPT ![c] = trimmer[c]]
        /\ ExecutorTypes'
    BY <2>1 DEF HeardInv, VoiceTypes, ExecutorTypes
  <2> HIDE DEF n
  <2>3. Phrased(n, c) /\ SpokenUpTo(n) = SpokenUpTo(voice[c])
    BY <1>2, <1>4, <1>6 DEF Phrased, SpokenUpTo
  <2>4. Trimmed(n, trimmer[c], audio[c])
    BY <1>1, <1>2, <1>4 DEF Trimmed
  <2> QED
    BY <1>1, <1>4, <2>1, <2>2, <2>3, <2>4, OneCallerStep
<1> QED
  BY <1>5, <1>6

LEMMA OneMore ==
  ASSUME NEW S, IsFiniteSet(S), NEW x
  PROVE  /\ IsFiniteSet(S \union {x}) /\ Cardinality(S \union {x}) \in Nat
         /\ Cardinality(S \union {x}) =< Cardinality(S) + 1
<1>1. Cardinality(S) \in Nat
  BY FS_CardinalityType
<1>2. IsFiniteSet(S \union {x})
      /\ Cardinality(S \union {x}) = IF x \in S THEN Cardinality(S) ELSE Cardinality(S) + 1
  BY FS_AddElement
<1> QED
  BY <1>1, <1>2

LEMMA WorkerTakesKeepsHeard ==
  ASSUME HeardInv, worker_takes
  PROVE  HeardInv'
<1> DEFINE j == Head(executor.queue)
<1>1. /\ executor \in [queue : Seq(Jobs), running : SUBSET Jobs, closed : BOOLEAN]
      /\ IsFiniteSet(executor.running) /\ Cardinality(executor.running) < Workers
      /\ executor.queue \in Seq(Jobs) /\ executor.queue # <<>>
  BY DEF HeardInv, ExecutorTypes, worker_takes
<1>2. j \in Jobs /\ Tail(executor.queue) \in Seq(Jobs)
  BY <1>1
<1>3. executor' = [executor EXCEPT !.queue = Tail(@), !.running = @ \union {j}]
  BY DEF worker_takes
<1> HIDE DEF j
<1>4. /\ executor' \in [queue : Seq(Jobs), running : SUBSET Jobs, closed : BOOLEAN]
      /\ executor'.running = executor.running \union {j}
  <2>1. executor.running \union {j} \in SUBSET Jobs
    BY <1>1, <1>2
  <2> QED
    BY <1>1, <1>2, <1>3, <2>1
<1>5. /\ IsFiniteSet(executor.running \union {j})
      /\ Cardinality(executor.running \union {j}) \in Nat
      /\ Cardinality(executor.running \union {j}) =< Cardinality(executor.running) + 1
  BY <1>1, OneMore
<1>6. Cardinality(executor.running) \in Nat
  BY <1>1, FS_CardinalityType
<1>7. ExecutorTypes'
  BY <1>1, <1>4, <1>5, <1>6, HeardBounds DEF ExecutorTypes
<1> QED
  BY <1>7 DEF HeardInv, VoiceTypes, HeardOf, worker_takes

\* The samples of a phrase reach the trimmer, whose words then pass.
LEMMA TrimmerLetsWordsPass ==
  ASSUME HeardInv, NEW c \in Callers, voice[c].job # NoPhrase,
         NEW n \in Nat, NEW w \in Seq(Words), NEW v, NEW a \in Hearings,
         a.made = audio[c].made \o AudioFrame(n, w),
         a.pushed = audio[c].pushed
                      \o AudioFrame(trim_frame(c, n, w).silence, trim_frame(c, n, w).words)
  PROVE  /\ trim_frame(c, n, w).trimmer \in TrimmerRows /\ trim_frame(c, n, w).words = w
         /\ Trimmed(v, trim_frame(c, n, w).trimmer, a)
<1> DEFINE s == audio[c].made
           before == trimmer[c].buffered + n
           kept == IF before > Preroll THEN Preroll ELSE before
           z == Len(s) + n
<1>1. /\ trimmer[c] \in TrimmerRows /\ audio[c] \in Hearings
      /\ Trimmed(voice[c], trimmer[c], audio[c])
  BY CallerTyped
<1>2. s \in Seq(Nat) /\ Len(s) \in Nat /\ z \in Nat /\ audio[c].pushed \in Seq(Nat)
  BY <1>1 DEF Hearings
<1>3. /\ trimmer[c].buffered \in Nat /\ trimmer[c].buffered =< Preroll /\ Preroll \in Nat
      /\ trimmer[c].audible \in BOOLEAN
  BY <1>1, HeardBounds DEF TrimmerRows
<1>4. AudioFrame(n, w) \in Seq(Nat)
  BY FrameSamples
<1>5. CASE trimmer[c].audible
  <2>1. trim_frame(c, n, w) = [trimmer |-> trimmer[c], silence |-> n, words |-> w]
    BY <1>5 DEF trim_frame
  <2>2. WordsPass(audio[c])
    BY <1>1, <1>5 DEF Trimmed
  <2>3. PICK k \in 1..Len(s) :
          Begins(s, k) /\ audio[c].pushed = SubSeq(s, FromPreroll(k), Len(s))
    BY <2>2 DEF WordsPass
  <2>4. a.pushed = audio[c].pushed \o AudioFrame(n, w)
    BY <2>1
  <2>5. /\ k \in 1..Len(a.made) /\ Begins(a.made, k)
        /\ a.pushed = SubSeq(a.made, FromPreroll(k), Len(a.made))
    BY <1>2, <1>4, <2>3, <2>4, MoreWordsPass
  <2>6. WordsPass(a)
    BY <2>5 DEF WordsPass
  <2> QED
    BY <1>1, <1>5, <2>1, <2>6 DEF Trimmed
<1>6. CASE ~trimmer[c].audible
  <2>1. /\ audio[c].pushed = <<>> /\ \A i \in 1..Len(s) : s[i] = 0
        /\ trimmer[c].buffered = IF Len(s) > Preroll THEN Preroll ELSE Len(s)
    BY <1>1, <1>6 DEF Trimmed, NoWordYet
  <2>2. kept = IF z > Preroll THEN Preroll ELSE z
    BY <1>2, <1>3, <2>1
  <2>3. kept \in 0..Preroll
    BY <1>2, <1>3, <2>2
  <2>4. /\ a.made \in Seq(Nat) /\ Len(a.made) = z + Len(w)
        /\ \A i \in 1..(z + Len(w)) : a.made[i] = IF i =< z THEN 0 ELSE w[i - z]
    <3>1. z = Len(s) + n
      OBVIOUS
    <3> HIDE DEF z, s, kept, before
    <3>2. LET r == s \o AudioFrame(n, w)
          IN /\ r \in Seq(Nat) /\ Len(r) = z + Len(w)
             /\ \A i \in 1..(z + Len(w)) : r[i] = IF i =< z THEN 0 ELSE w[i - z]
      BY ZenonT(40), <1>2, <2>1, <3>1, SilenceThenFrame
    <3>3. a.made = s \o AudioFrame(n, w)
      BY DEF s
    <3> QED
      BY <3>2, <3>3
  <2>5. \A x \in Seq(Nat) : <<>> \o x = x
    BY ConcatEmptySeq
  <2>6. CASE w = <<>>
    <3>1. trim_frame(c, n, w)
            = [trimmer |-> [buffered |-> kept, audible |-> FALSE], silence |-> 0, words |-> w]
      BY <1>6, <2>6 DEF trim_frame
    <3>2. AudioFrame(0, w) \in Seq(Nat) /\ Len(AudioFrame(0, w)) = 0
      <4>1. Len(w) = 0
        BY <2>6
      <4>2. AudioFrame(0, w) \in Seq(Nat) /\ Len(AudioFrame(0, w)) = 0 + Len(w)
        <5> HIDE <2>6
        <5>1. 0 \in Nat
          OBVIOUS
        <5> QED
          BY <5>1, FrameSamples
      <4> QED
        BY <4>1, <4>2
    <3>3. AudioFrame(0, w) = <<>>
      BY <3>2
    <3>4. a.pushed = <<>>
      BY <2>1, <2>5, <3>1, <3>2, <3>3
    <3>5. Len(a.made) = z /\ \A i \in 1..z : a.made[i] = 0
      BY SMTT(20), <1>2, <2>4, <2>6
    <3> HIDE DEF kept, z
    <3>6. [buffered |-> kept, audible |-> FALSE] \in TrimmerRows
      BY <2>3 DEF TrimmerRows
    <3> QED
      BY <2>2, <3>1, <3>4, <3>5, <3>6 DEF Trimmed, NoWordYet
  <2>7. CASE w # <<>>
    <3>1. trim_frame(c, n, w)
            = [trimmer |-> [buffered |-> 0, audible |-> TRUE], silence |-> kept, words |-> w]
      BY <1>6, <2>7 DEF trim_frame
    <3>2. /\ Begins(a.made, z + 1)
          /\ AudioFrame(kept, w) = SubSeq(a.made, FromPreroll(z + 1), Len(a.made))
      <4> HIDE DEF z, kept
      <4> QED
        BY <1>2, <2>2, <2>4, <2>7, FirstWordPasses
    <3>3. a.pushed = AudioFrame(kept, w)
      BY <2>1, <2>3, <2>5, <3>1, FrameSamples
    <3>4. z + 1 \in 1..Len(a.made)
      BY <3>2 DEF Begins
    <3>5. WordsPass(a)
      BY <3>2, <3>3, <3>4 DEF WordsPass
    <3>6. [buffered |-> 0, audible |-> TRUE] \in TrimmerRows
      BY <1>3 DEF TrimmerRows
    <3> QED
      BY <3>1, <3>5, <3>6 DEF Trimmed
  <2> QED
    BY <2>6, <2>7
<1> QED
  BY <1>3, <1>5, <1>6

\* The worker of a job takes another.
LEMMA WorkerFreed ==
  ASSUME HeardInv, NEW j \in executor.running,
         executor' = [executor EXCEPT !.running = @ \ {j}]
  PROVE  ExecutorTypes'
<1>1. /\ executor \in [queue : Seq(Jobs), running : SUBSET Jobs, closed : BOOLEAN]
      /\ IsFiniteSet(executor.running) /\ Cardinality(executor.running) =< Workers
  BY DEF HeardInv, ExecutorTypes
<1>2. executor' \in [queue : Seq(Jobs), running : SUBSET Jobs, closed : BOOLEAN]
      /\ executor'.running = executor.running \ {j}
  BY <1>1
<1>3. Cardinality(executor.running) \in Nat
  BY <1>1, FS_CardinalityType
<1>4. /\ IsFiniteSet(executor.running \ {j})
      /\ Cardinality(executor.running \ {j}) = Cardinality(executor.running) - 1
  BY <1>1, FS_RemoveElement
<1> QED
  BY <1>1, <1>2, <1>3, <1>4, HeardBounds DEF ExecutorTypes

\* The phrase that a caller waits for is heard or lost, and the caller goes on.
LEMMA WorkerDoneKeepsHeard ==
  ASSUME HeardInv, NEW j \in executor.running, worker_done(j)
  PROVE  HeardInv'
<1> DEFINE c == j.caller
           v == [voice[c] EXCEPT !.job = NoPhrase]
<1>1. j \in Jobs /\ j # NoPhrase /\ c \in Callers /\ j.from \in Words /\ j.to \in Nat
  <2>1. j \in Jobs
    BY DEF HeardInv, ExecutorTypes
  <2> QED
    BY <2>1, JobIsPhrase, HeardBounds DEF Words
<1>2. ExecutorTypes'
  BY WorkerFreed DEF worker_done
<1>3. CASE voice[c].job # j
  BY <1>2, <1>3 DEF HeardInv, VoiceTypes, HeardOf, worker_done
<1>4. CASE voice[c].job = j
  <2>1. /\ voice[c] \in VoiceRows /\ trimmer[c] \in TrimmerRows /\ audio[c] \in Hearings
        /\ Phrased(voice[c], c) /\ Trimmed(voice[c], trimmer[c], audio[c])
        /\ Accounted(audio[c].heard, audio[c].lost, SpokenUpTo(voice[c]))
    BY <1>1, CallerTyped
  <2>2. /\ v \in VoiceRows /\ v.job = NoPhrase /\ v.told = j.to /\ v.buffer = 0
        /\ v.open = voice[c].open /\ v.reply = voice[c].reply /\ j.from =< j.to
    BY <1>1, <1>4, <2>1 DEF VoiceRows, Phrased
  <2>3. voice' = [voice EXCEPT ![c] = v]
    BY <1>4 DEF worker_done
  <2>4. Phrased(v, c) /\ SpokenUpTo(v) = j.to
    BY <1>1, <1>4, <2>1, <2>2 DEF Phrased, SpokenUpTo
  <2>5. Accounted(audio[c].heard, audio[c].lost, j.from - 1)
    BY <1>1, <1>4, <2>1 DEF SpokenUpTo
  <2>6. /\ audio[c].made \in Seq(Nat) /\ audio[c].pushed \in Seq(Nat)
        /\ audio[c].heard \in Seq(Words) /\ audio[c].lost \subseteq Words
        /\ audio[c] = [made |-> audio[c].made, pushed |-> audio[c].pushed,
                       heard |-> audio[c].heard, lost |-> audio[c].lost]
    BY <2>1 DEF Hearings
  <2>7. audio[c].lost \union j.from..j.to \subseteq Words
    BY <1>1, <2>6 DEF Words
  <2>8. Accounted(audio[c].heard, audio[c].lost \union j.from..j.to, j.to)
    BY <1>1, <2>2, <2>5, <2>6, PhraseLost
  <2>9. CASE synthesis_failed(c, j)
    <3> DEFINE a == [audio[c] EXCEPT !.lost = @ \union j.from..j.to]
    <3>1. /\ a \in Hearings /\ a.made = audio[c].made /\ a.pushed = audio[c].pushed
          /\ a.heard = audio[c].heard /\ a.lost = audio[c].lost \union j.from..j.to
      BY <2>1, <2>7 DEF Hearings
    <3>2. audio' = [audio EXCEPT ![c] = a] /\ trimmer' = [trimmer EXCEPT ![c] = trimmer[c]]
      BY <2>9 DEF synthesis_failed, HeardInv, VoiceTypes
    <3> HIDE DEF a
    <3>3. Trimmed(v, trimmer[c], a)
      BY <1>1, <1>4, <2>1, <3>1 DEF Trimmed, WordsPass, NoWordYet
    <3> HIDE DEF v, c
    <3> QED
      BY <1>1, <1>2, <2>1, <2>2, <2>3, <2>4, <2>8, <3>1, <3>2, <3>3, OneCallerStep
  <2>10. CASE \E silence \in 0..MaxSilence, audible \in BOOLEAN :
                synthesized(c, j, silence, audible)
    <3>1. PICK silence \in 0..MaxSilence, audible \in BOOLEAN :
                 synthesized(c, j, silence, audible)
      BY <2>10
    <3> DEFINE phrase == [i \in 1..(j.to - j.from + 1) |-> j.from + i - 1]
               w == IF audible THEN phrase ELSE <<>>
               t == trim_frame(c, silence, w)
               lost == IF audible THEN audio[c].lost ELSE audio[c].lost \union j.from..j.to
               a == [audio[c] EXCEPT !.made = @ \o AudioFrame(silence, w),
                                     !.pushed = @ \o AudioFrame(t.silence, t.words),
                                     !.heard = @ \o t.words, !.lost = lost]
    <3>2. silence \in Nat
      BY HeardBounds
    <3>3. phrase \in Seq(Words)
      <4>1. \A i \in 1..(j.to - j.from + 1) : j.from + i - 1 \in Words
        BY <1>1 DEF Words
      <4>2. j.to - j.from + 1 \in Nat
        BY <1>1, <2>2 DEF Words
      <4> QED
        BY <4>1, <4>2
    <3>4. w \in Seq(Words)
      BY <3>3
    <3>5. trimmer' = [trimmer EXCEPT ![c] = t.trimmer]
      BY <3>1 DEF synthesized
    <3>6. audio' = [audio EXCEPT ![c] = a]
      BY <3>1 DEF synthesized
    <3> HIDE DEF w
    <3>7. t.words = w /\ t.silence \in Nat
      BY <2>1, <3>2, HeardBounds DEF trim_frame, TrimmerRows
    <3>8. AudioFrame(silence, w) \in Seq(Nat) /\ AudioFrame(t.silence, t.words) \in Seq(Nat)
      BY <3>2, <3>4, <3>7, FrameSamples
    <3> HIDE DEF t
    <3>9. Accounted(audio[c].heard \o w, lost, j.to)
      <4>1. CASE audible
        <5>1. Accounted(audio[c].heard \o phrase, audio[c].lost, j.to)
          BY <1>1, <2>2, <2>5, <2>6, PhraseHeard
        <5> QED
          BY <4>1, <5>1 DEF w
      <4>2. CASE ~audible
        <5>1. audio[c].heard \o w = audio[c].heard
          BY <2>6, <4>2, ConcatEmptySeq DEF w
        <5> QED
          BY <2>8, <4>2, <5>1
      <4> QED
        BY <4>1, <4>2
    <3>10. /\ audio[c].made \o AudioFrame(silence, w) \in Seq(Nat)
           /\ audio[c].pushed \o AudioFrame(t.silence, t.words) \in Seq(Nat)
           /\ audio[c].heard \o t.words \in Seq(Words) /\ lost \subseteq Words
      BY <2>6, <2>7, <3>4, <3>7, <3>8, ConcatProperties
    <3>11. /\ a \in Hearings /\ a.heard = audio[c].heard \o w /\ a.lost = lost
           /\ a.made = audio[c].made \o AudioFrame(silence, w)
           /\ a.pushed = audio[c].pushed \o AudioFrame(t.silence, t.words)
      BY <2>1, <3>7, <3>10 DEF Hearings
    <3>12. Accounted(a.heard, a.lost, j.to)
      BY <3>9, <3>11
    <3> HIDE DEF a, v, phrase, lost
    <3>13. t.trimmer \in TrimmerRows /\ Trimmed(v, t.trimmer, a)
      <4> HIDE DEF c
      <4> QED
        BY <1>1, <1>4, <3>2, <3>4, <3>11, TrimmerLetsWordsPass DEF t
    <3> HIDE DEF c
    <3> QED
      BY <1>1, <1>2, <2>2, <2>3, <2>4, <3>5, <3>6, <3>11, <3>12, <3>13, OneCallerStep
  <2> QED
    BY <1>4, <2>9, <2>10 DEF worker_done
<1> QED
  BY <1>3, <1>4

LEMMA StoppedKeepsHeard ==
  ASSUME HeardInv, NEW c \in Callers, stopped_frame(c)
  PROVE  HeardInv'
<1> DEFINE a == [audio[c] EXCEPT !.made = <<>>, !.pushed = <<>>]
<1>1. /\ voice[c] \in VoiceRows /\ audio[c] \in Hearings /\ Phrased(voice[c], c)
      /\ Accounted(audio[c].heard, audio[c].lost, SpokenUpTo(voice[c]))
  BY CallerTyped
<1>2. /\ a \in Hearings /\ a.heard = audio[c].heard /\ a.lost = audio[c].lost
      /\ a.made = <<>> /\ a.pushed = <<>>
  <2>1. <<>> \in Seq(Nat)
    OBVIOUS
  <2> QED
    BY <1>1, <2>1 DEF Hearings
<1>3. /\ voice' = [voice EXCEPT ![c] = voice[c]] /\ trimmer' = [trimmer EXCEPT ![c] = Untrimmed]
      /\ audio' = [audio EXCEPT ![c] = a] /\ ExecutorTypes'
  BY DEF stopped_frame, HeardInv, VoiceTypes, ExecutorTypes
<1> HIDE DEF a
<1>4. Trimmed(voice[c], Untrimmed, a)
  BY <1>2, HeardBounds DEF Trimmed, NoWordYet, Untrimmed
<1> QED
  BY <1>1, <1>2, <1>3, <1>4, NothingHeard, OneCallerStep

\* The interrupted caller's new row, and its effect on what is heard.
LEMMA SilencedRow ==
  ASSUME HeardInv, NEW c \in Callers
  PROVE  LET v == Silenced(c)[c]
         IN v \in VoiceRows /\ Phrased(v, c) /\ SpokenUpTo(v) = 0 /\ ~v.open /\ v.job = NoPhrase
<1> DEFINE v == [voice[c] EXCEPT !.open = FALSE, !.told = 0, !.buffer = 0, !.emitted = FALSE,
                                 !.job = NoPhrase]
<1>1. voice[c] \in VoiceRows /\ 0 \in 0..MaxWordsTold
  BY CallerTyped, HeardBounds
<1>2. /\ v \in VoiceRows /\ ~v.open /\ v.told = 0 /\ v.buffer = 0 /\ v.job = NoPhrase
  BY <1>1 DEF VoiceRows
<1>3. Silenced(c)[c] = v
  BY DEF Silenced, HeardInv, VoiceTypes
<1> HIDE DEF v
<1>4. Phrased(v, c) /\ SpokenUpTo(v) = 0
  BY <1>2 DEF Phrased, SpokenUpTo
<1> QED
  BY <1>2, <1>3, <1>4

LEMMA DequeuedTyped ==
  ASSUME HeardInv, NEW c \in Callers, executor' = Dequeued(c)
  PROVE  ExecutorTypes'
<1>1. /\ executor \in [queue : Seq(Jobs), running : SUBSET Jobs, closed : BOOLEAN]
      /\ executor.queue \in Seq(Jobs)
  BY DEF HeardInv, ExecutorTypes
<1>2. CASE Waiting(c) = {}
  BY <1>2 DEF Dequeued, HeardInv, ExecutorTypes
<1>3. CASE Waiting(c) # {}
  <2> DEFINE i == CHOOSE i \in Waiting(c) : TRUE
  <2>1. i \in Waiting(c)
    BY <1>3
  <2>2. i \in 1..Len(executor.queue)
    BY <1>1, <2>1 DEF Waiting
  <2>3. executor' = [executor EXCEPT !.queue = RemoveAt(@, i)]
    BY <1>3 DEF Dequeued
  <2> HIDE DEF i
  <2>4. RemoveAt(executor.queue, i) \in Seq(Jobs)
    BY <1>1, <2>2, RemovalShifts
  <2>5. /\ executor' \in [queue : Seq(Jobs), running : SUBSET Jobs, closed : BOOLEAN]
        /\ executor'.running = executor.running
    BY <1>1, <2>3, <2>4
  <2> QED
    BY <2>5 DEF HeardInv, ExecutorTypes
<1> QED
  BY <1>2, <1>3

LEMMA InterruptedKeepsHeard ==
  ASSUME HeardInv, NEW c \in Callers, speech_interrupted(c)
  PROVE  HeardInv'
<1> DEFINE v == Silenced(c)[c]
<1>1. v \in VoiceRows /\ Phrased(v, c) /\ SpokenUpTo(v) = 0
  BY SilencedRow
<1>2. voice' = [voice EXCEPT ![c] = v]
  BY DEF speech_interrupted, Silenced, HeardInv, VoiceTypes
<1>3. ExecutorTypes'
  BY DequeuedTyped DEF speech_interrupted
<1> HIDE DEF v
<1> QED
  BY <1>1, <1>2, <1>3, NothingHeard, OneCallerStep DEF speech_interrupted

LEMMA ClosedKeepsHeard ==
  ASSUME HeardInv, runtime_closed
  PROVE  HeardInv'
<1>1. ExecutorTypes'
  <2>1. /\ executor \in [queue : Seq(Jobs), running : SUBSET Jobs, closed : BOOLEAN]
        /\ executor' = [executor EXCEPT !.closed = TRUE, !.queue = <<>>]
        /\ <<>> \in Seq(Jobs)
    BY DEF HeardInv, ExecutorTypes, runtime_closed
  <2>2. /\ executor' \in [queue : Seq(Jobs), running : SUBSET Jobs, closed : BOOLEAN]
        /\ executor'.running = executor.running
    BY <2>1
  <2> QED
    BY <2>2 DEF HeardInv, ExecutorTypes
<1>2. ASSUME NEW c \in Callers
      PROVE  voice'[c] \in VoiceRows /\ audio'[c] \in Hearings /\ HeardOf(c)'
  <2>1. /\ voice'[c] = IF Waiting(c) = {} THEN voice[c] ELSE Silenced(c)[c]
        /\ audio'[c] = IF Waiting(c) = {} THEN audio[c] ELSE Unheard
        /\ trimmer' = trimmer
    BY DEF runtime_closed
  <2>2. CASE Waiting(c) = {}
    BY <2>1, <2>2, CallerTyped DEF HeardOf
  <2>3. CASE Waiting(c) # {}
    <3> DEFINE v == Silenced(c)[c]
    <3>1. v \in VoiceRows /\ Phrased(v, c) /\ SpokenUpTo(v) = 0 /\ ~v.open /\ v.job = NoPhrase
      BY SilencedRow
    <3>2. Trimmed(v, trimmer[c], Unheard)
      BY <3>1 DEF Trimmed, NoWordYet, Unheard
    <3>3. voice'[c] = v /\ audio'[c] = Unheard /\ trimmer'[c] = trimmer[c]
      BY <2>1, <2>3
    <3> HIDE DEF v
    <3> QED
      BY <3>1, <3>2, <3>3, NothingHeard DEF HeardOf
  <2> QED
    BY <2>2, <2>3
<1>3. VoiceTypes'
  BY <1>2 DEF runtime_closed, HeardInv, VoiceTypes
<1> QED
  BY <1>1, <1>2, <1>3 DEF HeardInv

LEMMA InitHeardInv == SynthesisInit => HeardInv
<1> SUFFICES ASSUME SynthesisInit
             PROVE  HeardInv
  OBVIOUS
<1> DEFINE v == [reply |-> 0, open |-> FALSE, told |-> 0, buffer |-> 0, emitted |-> FALSE,
                 job |-> NoPhrase]
<1>1. v \in VoiceRows
  BY HeardBounds DEF VoiceRows
<1>2. Phrased(v, 0) /\ SpokenUpTo(v) = 0 /\ v.job = NoPhrase
  BY DEF Phrased, SpokenUpTo
<1>3. \A c \in Callers : voice[c] = v /\ trimmer[c] = Untrimmed /\ audio[c] = Unheard
  BY DEF SynthesisInit
<1>4. VoiceTypes
  BY <1>1, NothingHeard DEF SynthesisInit, VoiceTypes, TrimmerRows
<1>5. ExecutorTypes
  <2>1. <<>> \in Seq(Jobs) /\ IsFiniteSet({}) /\ Cardinality({}) = 0
    BY FS_EmptySet
  <2> QED
    BY <2>1, HeardBounds DEF SynthesisInit, ExecutorTypes
<1>6. ASSUME NEW c \in Callers
      PROVE  HeardOf(c)
  <2>1. Phrased(v, c)
    BY DEF Phrased
  <2> HIDE DEF v
  <2> QED
    BY <1>2, <1>3, <2>1, NothingHeard DEF HeardOf
<1> QED
  BY <1>4, <1>5, <1>6 DEF HeardInv

LEMMA HeardUnchanged == HeardInv /\ UNCHANGED synthesisVars => HeardInv'
  BY DEF synthesisVars, HeardInv, ExecutorTypes, VoiceTypes, HeardOf

LEMMA NextKeepsHeardInv == HeardInv /\ [Next]_vars => HeardInv'
<1> SUFFICES ASSUME HeardInv, [Next]_vars
             PROVE  HeardInv'
  OBVIOUS
<1>1. CASE UNCHANGED synthesisVars
  BY <1>1, HeardUnchanged
<1>2. CASE VoiceStep
  BY <1>2, WorkerTakesKeepsHeard, WorkerDoneKeepsHeard, ClosedKeepsHeard, ReplyKeepsHeard,
     FlushKeepsHeard, StoppedKeepsHeard, AggregateKeepsHeard DEF VoiceStep
<1>3. CASE \E c \in Callers : speech_interrupted(c)
  BY <1>3, InterruptedKeepsHeard
<1>4. CASE Interruption
  <2>1. speech_interrupted(Speaker) \/ UNCHANGED synthesisVars
    BY <1>4 DEF Interruption, Voices
  <2>2. Speaker \in Callers
    BY ConversationAssumption
  <2> QED
    BY <1>1, <1>3, <2>1, <2>2
<1> QED
  BY <1>1, <1>2, <1>3, <1>4
     DEF Next, ConversationStep, OthersInterrupted, PageCallStep, PageAlone, MemoryStep,
         conversationVars, vars

\* What is heard, for any number of callers, workers, phrases and interruptions.
THEOREM HeardAlwaysSound == Spec => []HeardInv
<1>1. Init => HeardInv
  BY InitHeardInv DEF Init
<1> QED
  BY <1>1, NextKeepsHeardInv, PTL DEF Spec

\* The types of the voices, for any number of callers and of workers.
THEOREM SynthesisTypeCorrect == Spec => []SynthesisTypeOK
<1>1. HeardInv => SynthesisTypeOK
  BY DEF HeardInv, VoiceTypes, ExecutorTypes, SynthesisTypeOK, VoiceRows, Jobs
<1> QED
  BY <1>1, HeardAlwaysSound, PTL

\* What is heard of a reply is each of its words once and in order, but those whose
\* synthesis failed or was silent, however many calls share the workers and whatever
\* is interrupted or closed meanwhile; and the trimmer takes nothing but silence from the
\* samples of a context (KokoroTextAggregator, KokoroRuntime and
\* LeadingSilenceTrimmerProcessor).
THEOREM EveryWordIsHeard == Spec => []HeardAsTold
<1>1. ASSUME HeardInv, NEW c \in Callers
      PROVE  LET a == audio[c]
                 spoken == {a.heard[i] : i \in DOMAIN a.heard}
                 words == {i \in DOMAIN a.made : a.made[i] # 0}
                 start == CHOOSE i \in words : \A j \in words : i =< j
             IN /\ \A i, j \in DOMAIN a.heard : i < j => a.heard[i] < a.heard[j]
                /\ spoken \intersect a.lost = {} /\ spoken \union a.lost = SaidOf(c)
                /\ a.pushed = IF words = {} THEN <<>>
                              ELSE SubSeq(a.made, IF start > Preroll THEN start - Preroll ELSE 1,
                                          Len(a.made))
  <2> DEFINE a == audio[c]
             n == SpokenUpTo(voice[c])
             words == {i \in DOMAIN a.made : a.made[i] # 0}
             start == CHOOSE i \in words : \A j \in words : i =< j
  <2>1. /\ voice[c] \in VoiceRows /\ a \in Hearings /\ Trimmed(voice[c], trimmer[c], a)
        /\ Accounted(a.heard, a.lost, n)
    BY <1>1, CallerTyped
  <2>2. /\ DOMAIN a.heard = 1..Len(a.heard) /\ DOMAIN a.made = 1..Len(a.made)
        /\ \A i \in 1..Len(a.heard) : a.heard[i] \in Nat \ {0}
        /\ Len(a.made) \in Nat
    BY <2>1 DEF Hearings, Words
  <2>3. SaidOf(c) = 1..n
    BY DEF SaidOf, SpokenUpTo
  <2>4. n \in Int
    BY <2>1, HeardBounds DEF SpokenUpTo, VoiceRows, Jobs
  <2>5. \A i, j \in DOMAIN a.heard : i < j => a.heard[i] < a.heard[j]
    BY <2>1, <2>2 DEF Accounted
  <2>6. {a.heard[i] : i \in DOMAIN a.heard} \intersect a.lost = {}
    BY <2>1, <2>2 DEF Accounted
  <2>7. {a.heard[i] : i \in DOMAIN a.heard} \union a.lost = 1..n
    <3>1. \A i \in DOMAIN a.heard : a.heard[i] \in 1..n
      BY <2>1, <2>2, <2>4 DEF Accounted
    <3> QED
      BY SMTT(20), <2>1, <2>2, <3>1 DEF Accounted
  <2>8. a.pushed = IF words = {} THEN <<>>
                   ELSE SubSeq(a.made, IF start > Preroll THEN start - Preroll ELSE 1,
                               Len(a.made))
    <3>1. CASE NoWordYet(a)
      BY <2>2, <3>1 DEF NoWordYet
    <3>2. CASE WordsPass(a)
      <4>1. PICK k \in 1..Len(a.made) :
              Begins(a.made, k) /\ a.pushed = SubSeq(a.made, FromPreroll(k), Len(a.made))
        BY <3>2 DEF WordsPass
      <4>2. k \in words /\ \A i \in words : k =< i
        <5>1. k \in words
          BY <2>2, <4>1 DEF Begins
        <5>2. ASSUME NEW i \in words, ~(k =< i)
              PROVE  FALSE
          <6>1. i \in 1..(k - 1) /\ a.made[i] # 0
            BY <2>2, <4>1, <5>2
          <6> QED
            BY <4>1, <6>1 DEF Begins
        <5> QED
          BY <5>1, <5>2
      <4>3. words \subseteq Int
        BY <2>2
      <4> HIDE DEF words
      <4>4. start \in words /\ \A i \in words : start =< i
        BY <4>2
      <4>5. start = k
        <5> HIDE DEF start
        <5> QED
          BY <4>2, <4>3, <4>4
      <4> QED
        BY <4>1, <4>2, <4>5 DEF FromPreroll
    <3> QED
      BY <2>1, <3>1, <3>2 DEF Trimmed
  <2> QED
    BY <2>3, <2>5, <2>6, <2>7, <2>8
<1>2. HeardInv => HeardAsTold
  BY <1>1 DEF HeardAsTold
<1> QED
  BY <1>2, HeardAlwaysSound, PTL

(***************************************************************************)
(* The context.                                                            *)
(***************************************************************************)
MessageKinds == {"user", "assistant", "call", "result", "memory", "draft", "summary"}
MessageRows(w) == [n : 1..w, kind : MessageKinds]

Numbered(s) == \A i, j \in 1..Len(s) : s[i].n = s[j].n => i = j
Has(s, kind) == \E i \in 1..Len(s) : s[i].kind = kind

\* A call is followed by its result: the aggregator adds them together, and neither
\* the window nor a summary begins between them.
Paired(s) ==
  \A i \in 1..Len(s) : s[i].kind = "call" => i + 1 \in 1..Len(s) /\ s[i + 1].kind = "result"

\* There is one message of the memory, and one of the draft.
Single(s) ==
  \A i, j \in 1..Len(s) : s[i].kind = s[j].kind /\ s[i].kind \in {"memory", "draft"} => i = j

\* The messages a summary is of are the first ones, and end with no call.
Covers(of, s) ==
  \E l \in 1..Len(s) :
    /\ Cardinality(of) = l /\ of = {s[i].n : i \in 1..l}
    /\ s[l].kind # "call"

\* While the summary may be applied by its length, what it is of has not moved.
ContextInv ==
  /\ ContextTypeOK
  /\ Numbered(messages) /\ Paired(messages) /\ Single(messages)
  /\ frame = "retrieving" => ~Has(messages, "memory")
  /\ job.running /\ ~job.stale /\ ~job.draftGone => Covers(job.of, messages)

---------------------------------------------------------------------------
LEMMA MessagesTyped ==
  ContextTypeOK <=>
    /\ written \in 0..MaxMessages /\ messages \in Seq(MessageRows(written))
    /\ frame \in {"none", "retrieving", "routed"} /\ run \in {"none", "starts", "running"}
    /\ busy \in BOOLEAN /\ (busy => job.running)
    /\ job \in [running : BOOLEAN, of : SUBSET (1..written), stale : BOOLEAN, draftGone : BOOLEAN]
  BY DEF ContextTypeOK, MessageRows, MessageKinds

\* One message after another, as they stand.
LEMMA MessageTyped ==
  ASSUME NEW w \in Nat, NEW s \in Seq(MessageRows(w)), NEW i \in 1..Len(s)
  PROVE  s[i] \in MessageRows(w) /\ s[i].n \in 1..w /\ s[i].kind \in MessageKinds
<1>1. s[i] \in MessageRows(w)
  OBVIOUS
<1> QED
  BY <1>1 DEF MessageRows

\* Messages that are added have the next numbers.
LEMMA AddedMessages ==
  ASSUME written \in Nat, NEW s \in Seq(MessageRows(written)), NEW kinds \in Seq(MessageKinds)
  PROVE  /\ With(s, kinds) \in Seq(MessageRows(written + Len(kinds)))
         /\ Len(With(s, kinds)) = Len(s) + Len(kinds)
         /\ \A i \in 1..Len(s) : With(s, kinds)[i] = s[i]
         /\ \A j \in 1..Len(kinds) :
              /\ With(s, kinds)[Len(s) + j].n = written + j
              /\ With(s, kinds)[Len(s) + j].kind = kinds[j]
<1> DEFINE w == written + Len(kinds)
           new == [i \in DOMAIN kinds |-> [n |-> written + i, kind |-> kinds[i]]]
<1>1. Len(kinds) \in Nat /\ DOMAIN kinds = 1..Len(kinds) /\ w \in Nat /\ Len(s) \in Nat
  OBVIOUS
<1>2. \A i \in 1..Len(kinds) : new[i] = [n |-> written + i, kind |-> kinds[i]]
  BY <1>1
<1>3. ASSUME NEW i \in 1..Len(kinds)
      PROVE  new[i] \in MessageRows(w) /\ new[i].n = written + i /\ new[i].kind = kinds[i]
  <2> DEFINE m == written + i
             k == kinds[i]
  <2>1. k \in MessageKinds /\ m \in 1..w
    BY <1>1
  <2>2. new[i] = [n |-> m, kind |-> k]
    BY <1>2
  <2> HIDE DEF new, w, m, k
  <2>3. [n |-> m, kind |-> k] \in MessageRows(w)
    BY <2>1 DEF MessageRows
  <2>4. new[i].n = m /\ new[i].kind = k
    BY <2>2
  <2> QED
    BY <2>2, <2>3, <2>4 DEF m, k
<1>4. new \in Seq(MessageRows(w)) /\ Len(new) = Len(kinds)
  <2>1. new \in [1..Len(kinds) -> MessageRows(w)]
    BY <1>1, <1>3
  <2> HIDE DEF new, w
  <2> QED
    BY <1>1, <2>1
<1>5. s \in Seq(MessageRows(w))
  <2>1. \A i \in 1..Len(s) : s[i] \in MessageRows(w)
    <3>1. MessageRows(written) \subseteq MessageRows(w)
      <4>1. 1..written \subseteq 1..w
        BY <1>1
      <4> QED
        BY <4>1 DEF MessageRows
    <3> QED
      BY <3>1
  <2>2. s = [i \in 1..Len(s) |-> s[i]]
    OBVIOUS
  <2>3. s \in [1..Len(s) -> MessageRows(w)]
    BY <2>1, <2>2
  <2> HIDE DEF w
  <2> QED
    BY <1>1, <2>3
<1> HIDE DEF new, w
<1>6. /\ s \o new \in Seq(MessageRows(w)) /\ Len(s \o new) = Len(s) + Len(new)
      /\ \A i \in 1..(Len(s) + Len(new)) :
           (s \o new)[i] = IF i =< Len(s) THEN s[i] ELSE new[i - Len(s)]
  BY <1>4, <1>5, ConcatProperties
<1>7. \A i \in 1..Len(s) : (s \o new)[i] = s[i]
  BY <1>1, <1>4, <1>6
<1>8. ASSUME NEW j \in 1..Len(kinds)
      PROVE  (s \o new)[Len(s) + j] = new[j]
  <2>1. /\ Len(s) + j \in 1..(Len(s) + Len(new)) /\ ~(Len(s) + j =< Len(s))
        /\ Len(s) + j - Len(s) = j
    BY <1>1, <1>4
  <2> QED
    BY <1>6, <2>1
<1>9. With(s, kinds) = s \o new
  BY DEF With, new
<1> QED
  BY <1>3, <1>4, <1>6, <1>7, <1>8, <1>9 DEF w

\* What may be added: a call with its result, the memory or the draft where there is none.
Fits(s, kinds) ==
  /\ \A j \in 1..Len(kinds) :
       /\ kinds[j] = "call" => j + 1 \in 1..Len(kinds) /\ kinds[j + 1] = "result"
       /\ kinds[j] = "result" => j - 1 \in 1..Len(kinds) /\ kinds[j - 1] = "call"
       /\ kinds[j] \in {"memory", "draft"} => ~Has(s, kinds[j])
  /\ \A j, k \in 1..Len(kinds) : kinds[j] = kinds[k] /\ kinds[j] \in {"memory", "draft"} => j = k

LEMMA AddingKeeps ==
  ASSUME written \in Nat, NEW s \in Seq(MessageRows(written)), NEW kinds \in Seq(MessageKinds),
         Numbered(s), Paired(s), Single(s), Fits(s, kinds)
  PROVE  /\ Numbered(With(s, kinds)) /\ Paired(With(s, kinds)) /\ Single(With(s, kinds))
         /\ Orphans(With(s, kinds)) \subseteq Orphans(s)
         /\ \A of : Covers(of, s) => Covers(of, With(s, kinds))
<1> DEFINE r == With(s, kinds)
<1>1. /\ r \in Seq(MessageRows(written + Len(kinds))) /\ Len(r) = Len(s) + Len(kinds)
      /\ \A i \in 1..Len(s) : r[i] = s[i]
      /\ \A j \in 1..Len(kinds) : r[Len(s) + j].n = written + j /\ r[Len(s) + j].kind = kinds[j]
  BY AddedMessages
<1> HIDE DEF r
<1>2. Len(s) \in Nat /\ Len(kinds) \in Nat /\ DOMAIN s = 1..Len(s) /\ DOMAIN r = 1..Len(r)
  BY <1>1
<1>3. ASSUME NEW i \in 1..Len(r)
      PROVE  i \in 1..Len(s) \/ \E j \in 1..Len(kinds) : i = Len(s) + j
  <2>1. CASE ~(i =< Len(s))
    <3>1. i - Len(s) \in 1..Len(kinds) /\ i = Len(s) + (i - Len(s))
      BY <1>1, <1>2, <2>1
    <3> QED
      BY <3>1
  <2> QED
    BY <1>2, <2>1
<1>4. \A i \in 1..Len(s) : s[i].n \in 1..written
  BY MessageTyped
<1>5. Numbered(r)
  <2> SUFFICES ASSUME NEW i \in 1..Len(r), NEW j \in 1..Len(r), r[i].n = r[j].n
               PROVE  i = j
    BY DEF Numbered
  <2>1. CASE i \in 1..Len(s) /\ j \in 1..Len(s)
    BY <1>1, <2>1 DEF Numbered
  <2>2. CASE i \in 1..Len(s) /\ \E k \in 1..Len(kinds) : j = Len(s) + k
    BY <1>1, <1>2, <1>4, <2>2
  <2>3. CASE j \in 1..Len(s) /\ \E k \in 1..Len(kinds) : i = Len(s) + k
    BY <1>1, <1>2, <1>4, <2>3
  <2>4. ASSUME NEW k \in 1..Len(kinds), NEW l \in 1..Len(kinds), i = Len(s) + k, j = Len(s) + l
        PROVE  i = j
    BY <1>1, <1>2, <2>4
  <2> QED
    BY <1>3, <2>1, <2>2, <2>3, <2>4
<1>6. Paired(r)
  <2> SUFFICES ASSUME NEW i \in 1..Len(r), r[i].kind = "call"
               PROVE  i + 1 \in 1..Len(r) /\ r[i + 1].kind = "result"
    BY DEF Paired
  <2>1. CASE i \in 1..Len(s)
    <3>1. i + 1 \in 1..Len(s) /\ s[i + 1].kind = "result"
      BY <1>1, <2>1 DEF Paired
    <3> QED
      BY <1>1, <1>2, <3>1
  <2>2. ASSUME NEW j \in 1..Len(kinds), i = Len(s) + j
        PROVE  i + 1 \in 1..Len(r) /\ r[i + 1].kind = "result"
    <3>1. j + 1 \in 1..Len(kinds) /\ kinds[j + 1] = "result"
      BY <1>1, <2>2 DEF Fits
    <3>2. i + 1 = Len(s) + (j + 1)
      BY <1>2, <2>2
    <3> QED
      BY <1>1, <1>2, <3>1, <3>2
  <2> QED
    BY <1>3, <2>1, <2>2
<1>7. Single(r)
  <2> SUFFICES ASSUME NEW i \in 1..Len(r), NEW j \in 1..Len(r),
                      r[i].kind = r[j].kind, r[i].kind \in {"memory", "draft"}
               PROVE  i = j
    BY DEF Single
  <2>1. CASE i \in 1..Len(s) /\ j \in 1..Len(s)
    BY <1>1, <2>1 DEF Single
  <2>2. ASSUME NEW k \in 1..Len(kinds), j = Len(s) + k, i \in 1..Len(s)
        PROVE  FALSE
    <3>1. kinds[k] = s[i].kind /\ kinds[k] \in {"memory", "draft"}
      BY <1>1, <2>2
    <3> QED
      BY <2>2, <3>1 DEF Fits, Has
  <2>3. ASSUME NEW k \in 1..Len(kinds), i = Len(s) + k, j \in 1..Len(s)
        PROVE  FALSE
    <3>1. kinds[k] = s[j].kind /\ kinds[k] \in {"memory", "draft"}
      BY <1>1, <2>3
    <3> QED
      BY <2>3, <3>1 DEF Fits, Has
  <2>4. ASSUME NEW k \in 1..Len(kinds), NEW l \in 1..Len(kinds), i = Len(s) + k, j = Len(s) + l
        PROVE  i = j
    <3>1. kinds[k] = kinds[l] /\ kinds[k] \in {"memory", "draft"}
      BY <1>1, <2>4
    <3>2. k = l
      BY <3>1 DEF Fits
    <3> QED
      BY <2>4, <3>2
  <2> QED
    BY <1>3, <2>1, <2>2, <2>3, <2>4
<1>8. Orphans(r) \subseteq Orphans(s)
  <2> SUFFICES ASSUME NEW i \in 1..Len(r), r[i].kind = "result", i = 1 \/ r[i - 1].kind # "call"
               PROVE  r[i].n \in Orphans(s)
    BY <1>2 DEF Orphans
  <2>1. CASE i \in 1..Len(s)
    <3>1. i = 1 \/ i - 1 \in 1..Len(s)
      BY <1>2, <2>1
    <3>2. s[i].kind = "result" /\ (i = 1 \/ s[i - 1].kind # "call")
      BY <1>1, <2>1, <3>1
    <3> QED
      BY <1>1, <1>2, <2>1, <3>2 DEF Orphans
  <2>2. ASSUME NEW j \in 1..Len(kinds), i = Len(s) + j
        PROVE  FALSE
    <3>1. j - 1 \in 1..Len(kinds) /\ kinds[j - 1] = "call"
      BY <1>1, <2>2 DEF Fits
    <3>2. i - 1 = Len(s) + (j - 1) /\ i # 1
      BY <1>2, <2>2, <3>1
    <3> QED
      BY <1>1, <3>1, <3>2
  <2> QED
    BY <1>3, <2>1, <2>2
<1>9. ASSUME NEW of, Covers(of, s)
      PROVE  Covers(of, r)
  <2>1. PICK l \in 1..Len(s) :
          Cardinality(of) = l /\ of = {s[i].n : i \in 1..l} /\ s[l].kind # "call"
    BY <1>9 DEF Covers
  <2>2. l \in 1..Len(r) /\ \A i \in 1..l : i \in 1..Len(s)
    BY <1>1, <1>2
  <2>3. {s[i].n : i \in 1..l} = {r[i].n : i \in 1..l} /\ r[l].kind = s[l].kind
    BY <1>1, <2>2
  <2> QED
    BY <2>1, <2>2, <2>3 DEF Covers
<1> QED
  BY <1>5, <1>6, <1>7, <1>8, <1>9 DEF r

\* The one message of a kind is taken out.
LEMMA WithoutIs ==
  ASSUME NEW w \in Nat, messages \in Seq(MessageRows(w)), NEW kind
  PROVE  \/ ~Has(messages, kind) /\ Without(kind) = messages
         \/ \E k \in 1..Len(messages) :
              messages[k].kind = kind /\ Without(kind) = RemoveAt(messages, k)
<1>1. DOMAIN messages = 1..Len(messages)
  OBVIOUS
<1> QED
  BY <1>1 DEF Without, Has

LEMMA RemovingKeeps ==
  ASSUME NEW w \in Nat, NEW s \in Seq(MessageRows(w)), NEW k \in 1..Len(s),
         s[k].kind \in {"memory", "draft"}, Numbered(s), Paired(s), Single(s)
  PROVE  LET r == RemoveAt(s, k)
         IN /\ r \in Seq(MessageRows(w)) /\ r # s
            /\ Numbered(r) /\ Paired(r) /\ Single(r)
            /\ ~Has(r, s[k].kind) /\ \A kind : Has(r, kind) => Has(s, kind)
            /\ Orphans(r) \subseteq Orphans(s)
            /\ \A of : Covers(of, s) /\ s[k].n \notin of => Covers(of, r)
<1> DEFINE r == RemoveAt(s, k)
           from(i) == IF i < k THEN i ELSE i + 1
<1>1. /\ r \in Seq(MessageRows(w)) /\ Len(r) = Len(s) - 1 /\ Len(s) \in Nat
      /\ \A i \in 1..(Len(s) - 1) : r[i] = IF i < k THEN s[i] ELSE s[i + 1]
  BY RemovalShifts
<1> HIDE DEF r
<1>2. \A i \in 1..Len(r) : from(i) \in 1..Len(s) /\ from(i) # k /\ r[i] = s[from(i)]
  BY <1>1
<1>3. \A i, j \in 1..Len(r) : from(i) = from(j) => i = j
  BY <1>1
<1>4. DOMAIN r = 1..Len(r) /\ DOMAIN s = 1..Len(s)
  BY <1>1
<1>5. r # s
  BY <1>1
<1>6. Numbered(r)
  <2> HIDE DEF from
  <2> QED
    BY <1>2, <1>3 DEF Numbered
<1>7. Single(r)
  <2> HIDE DEF from
  <2> QED
    BY <1>2, <1>3 DEF Single
<1>8. ~Has(r, s[k].kind)
  <2> HIDE DEF from
  <2> QED
    BY <1>2 DEF Has, Single
<1>9. \A kind : Has(r, kind) => Has(s, kind)
  <2> HIDE DEF from
  <2> QED
    BY <1>2 DEF Has
<1>10. Paired(r)
  <2> SUFFICES ASSUME NEW i \in 1..Len(r), r[i].kind = "call"
               PROVE  i + 1 \in 1..Len(r) /\ r[i + 1].kind = "result"
    BY DEF Paired
  <2>1. from(i) + 1 \in 1..Len(s) /\ s[from(i) + 1].kind = "result"
    <3> HIDE DEF from
    <3> QED
      BY <1>2 DEF Paired
  <2>2. from(i) + 1 # k
    BY <2>1
  <2>3. i + 1 \in 1..Len(r) /\ from(i + 1) = from(i) + 1
    BY <1>1, <2>1, <2>2
  <2> QED
    <3> HIDE DEF from
    <3> QED
      BY <1>2, <2>1, <2>3
<1>11. Orphans(r) \subseteq Orphans(s)
  <2> SUFFICES ASSUME NEW i \in 1..Len(r), r[i].kind = "result", i = 1 \/ r[i - 1].kind # "call"
               PROVE  r[i].n \in Orphans(s)
    BY <1>4 DEF Orphans
  <2>1. from(i) \in 1..Len(s) /\ s[from(i)].kind = "result" /\ r[i].n = s[from(i)].n
    <3> HIDE DEF from
    <3> QED
      BY <1>2
  <2>2. from(i) = 1 \/ s[from(i) - 1].kind # "call"
    <3>1. CASE from(i) - 1 = k
      BY <3>1
    <3>2. CASE from(i) - 1 # k /\ from(i) # 1
      <4>1. i # 1 /\ i - 1 \in 1..Len(r) /\ from(i - 1) = from(i) - 1
        BY <1>1, <3>2
      <4> HIDE DEF from
      <4> QED
        BY <1>2, <4>1
    <3> QED
      BY <3>1, <3>2
  <2> HIDE DEF from
  <2> QED
    BY <1>4, <2>1, <2>2 DEF Orphans
<1>12. ASSUME NEW of, Covers(of, s), s[k].n \notin of
       PROVE  Covers(of, r)
  <2>1. PICK l \in 1..Len(s) :
          Cardinality(of) = l /\ of = {s[i].n : i \in 1..l} /\ s[l].kind # "call"
    BY <1>12 DEF Covers
  <2>2. l < k
    <3>1. CASE k =< l
      <4>1. k \in 1..l
        BY <1>1, <3>1
      <4> QED
        BY <1>12, <2>1, <4>1
    <3> QED
      BY <1>1, <3>1
  <2>3. l \in 1..Len(r) /\ \A i \in 1..l : r[i] = s[i]
    BY <1>1, <2>2
  <2>4. {s[i].n : i \in 1..l} = {r[i].n : i \in 1..l}
    BY <2>3
  <2>5. r[l] = s[l]
    BY <2>3
  <2> QED
    BY <2>1, <2>3, <2>4, <2>5 DEF Covers
<1> QED
  BY <1>1, <1>5, <1>6, <1>7, <1>8, <1>9, <1>10, <1>11, <1>12 DEF r

\* The window keeps the last messages, and begins with none whose call is before it.
LEMMA SuffixKeeps ==
  ASSUME NEW w \in Nat, NEW s \in Seq(MessageRows(w)), NEW p \in 1..Len(s),
         Numbered(s), Paired(s), Single(s)
  PROVE  LET r == SubSeq(s, p, Len(s))
         IN /\ r \in Seq(MessageRows(w)) /\ Len(r) = Len(s) - p + 1
            /\ \A i \in 1..Len(r) : p + i - 1 \in 1..Len(s) /\ r[i] = s[p + i - 1]
            /\ Numbered(r) /\ Paired(r) /\ Single(r)
            /\ \A kind : Has(r, kind) => Has(s, kind)
            /\ p = 1 => r = s
            /\ \A i \in 1..Len(r) :
                 i # 1 /\ r[i].kind = "result" /\ r[i - 1].kind # "call" => r[i].n \in Orphans(s)
<1> DEFINE r == SubSeq(s, p, Len(s))
<1>1. /\ r \in Seq(MessageRows(w)) /\ Len(r) = Len(s) - p + 1 /\ Len(s) \in Nat
      /\ \A i \in 1..(Len(s) - p + 1) : r[i] = s[p + i - 1]
  OBVIOUS
<1>2. p = 1 => r = s
  OBVIOUS
<1> HIDE DEF r
<1>3. \A i \in 1..Len(r) : p + i - 1 \in 1..Len(s) /\ r[i] = s[p + i - 1]
  BY <1>1
<1>4. Numbered(r)
  <2>1. ASSUME NEW i \in 1..Len(r), NEW j \in 1..Len(r), r[i].n = r[j].n
        PROVE  i = j
    <3>1. p + i - 1 = p + j - 1
      BY <1>3, <2>1 DEF Numbered
    <3> QED
      BY <1>1, <3>1
  <2> QED
    BY <2>1 DEF Numbered
<1>5. Single(r)
  <2>1. ASSUME NEW i \in 1..Len(r), NEW j \in 1..Len(r), r[i].kind = r[j].kind,
               r[i].kind \in {"memory", "draft"}
        PROVE  i = j
    <3>1. p + i - 1 = p + j - 1
      BY <1>3, <2>1 DEF Single
    <3> QED
      BY <1>1, <3>1
  <2> QED
    BY <2>1 DEF Single
<1>6. Paired(r)
  <2> SUFFICES ASSUME NEW i \in 1..Len(r), r[i].kind = "call"
               PROVE  i + 1 \in 1..Len(r) /\ r[i + 1].kind = "result"
    BY DEF Paired
  <2>1. p + i - 1 + 1 \in 1..Len(s) /\ s[p + i - 1 + 1].kind = "result"
    BY <1>3 DEF Paired
  <2>2. i + 1 \in 1..Len(r) /\ p + (i + 1) - 1 = p + i - 1 + 1
    BY <1>1, <2>1
  <2> QED
    BY <1>3, <2>1, <2>2
<1>7. \A kind : Has(r, kind) => Has(s, kind)
  BY <1>3 DEF Has
<1>8. ASSUME NEW i \in 1..Len(r), i # 1, r[i].kind = "result", r[i - 1].kind # "call"
      PROVE  r[i].n \in Orphans(s)
  <2> DEFINE k == p + i - 1
  <2>1. i - 1 \in 1..Len(r) /\ p + (i - 1) - 1 = k - 1
    BY <1>1, <1>8
  <2>2. k \in 1..Len(s) /\ r[i] = s[k]
    BY <1>3
  <2>3. r[i - 1] = s[k - 1]
    BY <1>3, <2>1
  <2>4. DOMAIN s = 1..Len(s)
    OBVIOUS
  <2> HIDE DEF k
  <2> QED
    BY <1>8, <2>2, <2>3, <2>4 DEF Orphans
<1> QED
  BY <1>1, <1>2, <1>3, <1>4, <1>5, <1>6, <1>7, <1>8 DEF r

\* A summary takes the place of the first messages.
LEMMA SummaryKeeps ==
  ASSUME written \in Nat, NEW s \in Seq(MessageRows(written)), NEW l \in 0..Len(s),
         Numbered(s), Paired(s), Single(s)
  PROVE  LET r == With(<<>>, <<"summary">>) \o SubSeq(s, l + 1, Len(s))
         IN /\ r \in Seq(MessageRows(written + 1))
            /\ Numbered(r) /\ Paired(r) /\ Single(r)
            /\ \A kind : Has(r, kind) => kind = "summary" \/ Has(s, kind)
            /\ l # 0 /\ s[l].kind # "call" => Orphans(r) \subseteq Orphans(s)
<1> DEFINE head == With(<<>>, <<"summary">>)
           tail == SubSeq(s, l + 1, Len(s))
           r == head \o tail
           w == written + 1
<1>1. /\ head \in Seq(MessageRows(w)) /\ Len(head) = 1
      /\ head[1].n = w /\ head[1].kind = "summary"
  <2>1. <<"summary">> \in Seq(MessageKinds) /\ Len(<<"summary">>) = 1 /\ <<"summary">>[1] = "summary"
    BY DEF MessageKinds
  <2>2. <<>> \in Seq(MessageRows(written)) /\ Len(<<>>) = 0
    OBVIOUS
  <2>3. /\ head \in Seq(MessageRows(written + 1)) /\ Len(head) = 0 + 1
        /\ head[0 + 1].n = written + 1 /\ head[0 + 1].kind = "summary"
    <3> HIDE DEF head
    <3>1. /\ With(<<>>, <<"summary">>) \in Seq(MessageRows(written + Len(<<"summary">>)))
          /\ Len(With(<<>>, <<"summary">>)) = Len(<<>>) + Len(<<"summary">>)
          /\ \A j \in 1..Len(<<"summary">>) :
               /\ With(<<>>, <<"summary">>)[Len(<<>>) + j].n = written + j
               /\ With(<<>>, <<"summary">>)[Len(<<>>) + j].kind = <<"summary">>[j]
      BY <2>1, <2>2, AddedMessages
    <3> QED
      BY <2>1, <2>2, <3>1 DEF head
  <2> HIDE DEF head
  <2> QED
    BY <2>3
<1>2. /\ tail \in Seq(MessageRows(written)) /\ Len(tail) = Len(s) - l /\ Len(s) \in Nat
      /\ \A i \in 1..(Len(s) - l) : tail[i] = s[l + i]
  OBVIOUS
<1> HIDE DEF head, tail
<1>3. tail \in Seq(MessageRows(w))
  <2>1. MessageRows(written) \subseteq MessageRows(w)
    <3>1. 1..written \subseteq 1..w
      OBVIOUS
    <3> HIDE DEF w
    <3> QED
      BY <3>1 DEF MessageRows
  <2>2. \A i \in 1..Len(tail) : tail[i] \in MessageRows(w)
    <3> HIDE DEF w
    <3> QED
      BY <1>2, <2>1
  <2>3. tail = [i \in 1..Len(tail) |-> tail[i]] /\ Len(tail) \in Nat
    BY <1>2
  <2>4. tail \in [1..Len(tail) -> MessageRows(w)]
    <3> HIDE DEF w
    <3> QED
      BY <2>2, <2>3
  <2> HIDE DEF w
  <2> QED
    BY <2>3, <2>4
<1>4. /\ r \in Seq(MessageRows(w)) /\ Len(r) = 1 + (Len(s) - l)
      /\ r[1] = head[1] /\ \A i \in 2..(1 + (Len(s) - l)) : r[i] = s[l + i - 1]
  <2>1. /\ r \in Seq(MessageRows(w)) /\ Len(r) = Len(head) + Len(tail)
        /\ \A i \in 1..(Len(head) + Len(tail)) :
             r[i] = IF i =< Len(head) THEN head[i] ELSE tail[i - Len(head)]
    <3> HIDE DEF w
    <3> QED
      BY <1>1, <1>3, ConcatProperties
  <2> HIDE DEF r, w
  <2>2. ASSUME NEW i \in 2..(1 + (Len(s) - l))
        PROVE  r[i] = s[l + i - 1]
    <3>1. /\ i \in 1..(Len(head) + Len(tail)) /\ ~(i =< Len(head))
          /\ i - Len(head) \in 1..(Len(s) - l) /\ l + (i - Len(head)) = l + i - 1
      BY <1>1, <1>2
    <3> QED
      BY <1>2, <2>1, <3>1
  <2> QED
    BY <1>1, <1>2, <2>1, <2>2
<1> HIDE DEF r
<1>5. /\ r[1].n = w /\ r[1].kind = "summary"
      /\ \A i \in 1..Len(r) : i # 1 => l + i - 1 \in 1..Len(s) /\ r[i] = s[l + i - 1]
  BY <1>1, <1>2, <1>4
<1>6. \A i \in 1..Len(s) : s[i].n \in 1..written
  BY MessageTyped
<1>7. Numbered(r)
  <2> SUFFICES ASSUME NEW i \in 1..Len(r), NEW j \in 1..Len(r), r[i].n = r[j].n
               PROVE  i = j
    BY DEF Numbered
  <2>1. CASE i # 1 /\ j # 1
    <3>1. /\ l + i - 1 \in 1..Len(s) /\ l + j - 1 \in 1..Len(s)
          /\ s[l + i - 1].n = s[l + j - 1].n
      BY <1>5, <2>1
    <3>2. l + i - 1 = l + j - 1
      BY <3>1 DEF Numbered
    <3> QED
      BY <1>4, <3>2
  <2>2. CASE i # 1 /\ j = 1
    <3>1. r[i].n \in 1..written
      BY <1>5, <1>6, <2>2
    <3> QED
      BY <1>5, <2>2, <3>1
  <2>3. CASE i = 1 /\ j # 1
    <3>1. r[j].n \in 1..written
      BY <1>5, <1>6, <2>3
    <3> QED
      BY <1>5, <2>3, <3>1
  <2> QED
    BY <2>1, <2>2, <2>3
<1>8. Single(r)
  <2> SUFFICES ASSUME NEW i \in 1..Len(r), NEW j \in 1..Len(r), r[i].kind = r[j].kind,
                      r[i].kind \in {"memory", "draft"}
               PROVE  i = j
    BY DEF Single
  <2>1. i # 1 /\ j # 1
    BY <1>5
  <2>2. l + i - 1 = l + j - 1
    BY <1>5, <2>1 DEF Single
  <2> QED
    BY <1>4, <2>2
<1>9. Paired(r)
  <2> SUFFICES ASSUME NEW i \in 1..Len(r), r[i].kind = "call"
               PROVE  i + 1 \in 1..Len(r) /\ r[i + 1].kind = "result"
    BY DEF Paired
  <2>1. i # 1 /\ l + i - 1 + 1 \in 1..Len(s) /\ s[l + i - 1 + 1].kind = "result"
    BY <1>5 DEF Paired
  <2>2. i + 1 \in 1..Len(r) /\ i + 1 # 1 /\ l + (i + 1) - 1 = l + i - 1 + 1
    BY <1>2, <1>4, <2>1
  <2> QED
    BY <1>5, <2>1, <2>2
<1>10. ASSUME NEW kind, Has(r, kind)
       PROVE  kind = "summary" \/ Has(s, kind)
  BY <1>5, <1>10 DEF Has
<1>11. ASSUME l # 0, s[l].kind # "call"
       PROVE  Orphans(r) \subseteq Orphans(s)
  <2>1. DOMAIN r = 1..Len(r) /\ DOMAIN s = 1..Len(s)
    BY <1>4
  <2> SUFFICES ASSUME NEW i \in 1..Len(r), r[i].kind = "result", i = 1 \/ r[i - 1].kind # "call"
               PROVE  r[i].n \in Orphans(s)
    BY <2>1 DEF Orphans
  <2> DEFINE k == l + i - 1
  <2>2. i # 1 /\ k \in 1..Len(s) /\ r[i] = s[k] /\ r[i - 1].kind # "call"
    BY <1>5
  <2>3. s[k - 1].kind # "call"
    <3>1. CASE i = 2
      <4>1. k - 1 = l
        BY <3>1
      <4> QED
        BY <1>11, <4>1
    <3>2. CASE i # 2
      <4>1. i - 1 \in 1..Len(r) /\ i - 1 # 1 /\ l + (i - 1) - 1 = k - 1
        BY <1>2, <1>4, <2>2, <3>2
      <4> QED
        BY <1>5, <2>2, <4>1
    <3> QED
      BY <3>1, <3>2
  <2> HIDE DEF k
  <2> QED
    BY <2>1, <2>2, <2>3 DEF Orphans
<1> QED
  BY <1>4, <1>7, <1>8, <1>9, <1>10, <1>11 DEF r, w, head, tail

\* As many messages have as many numbers.
LEMMA FirstNumbers ==
  ASSUME NEW w \in Nat, NEW s \in Seq(MessageRows(w)), NEW l \in 1..Len(s), Numbered(s)
  PROVE  /\ Numbers(SubSeq(s, 1, l)) = {s[i].n : i \in 1..l}
         /\ Cardinality({s[i].n : i \in 1..l}) = l
         /\ {s[i].n : i \in 1..l} \subseteq 1..w
<1> DEFINE t == SubSeq(s, 1, l)
           of == {s[i].n : i \in 1..l}
           f == [i \in 1..l |-> s[i].n]
<1>1. Len(s) \in Nat /\ l \in Nat /\ \A i \in 1..l : i \in 1..Len(s)
  OBVIOUS
<1>2. /\ DOMAIN t = 1..l /\ \A i \in 1..l : t[i] = s[i]
  <2>1. t \in Seq(MessageRows(w)) /\ Len(t) = l /\ \A i \in 1..l : t[i] = s[1 + i - 1]
    OBVIOUS
  <2> HIDE DEF t
  <2>2. \A i \in 1..l : 1 + i - 1 = i
    BY <1>1
  <2> QED
    BY <2>1, <2>2
<1>3. Numbers(t) = of
  <2> HIDE DEF t
  <2> QED
    BY <1>2 DEF Numbers
<1>4. of \subseteq 1..w
  BY <1>1, MessageTyped
<1>5. f \in Bijection(1..l, of)
  <2>1. f \in [1..l -> of]
    OBVIOUS
  <2>2. \A i, j \in 1..l : f[i] = f[j] => i = j
    BY <1>1 DEF Numbered
  <2>3. \A n \in of : \E i \in 1..l : f[i] = n
    OBVIOUS
  <2> HIDE DEF f, of
  <2> QED
    <3>1. DOMAIN f = 1..l
      BY <2>1
    <3>2. IsInjective(f)
      BY <2>2, <3>1 DEF IsInjective
    <3> QED
      BY <2>1, <2>3, <3>2 DEF Bijection, Injection, Surjection
<1>6. IsFiniteSet(1..l) /\ Cardinality(1..l) = l
  BY <1>1, FS_Interval
<1>7. Cardinality(of) = l
  <2> HIDE DEF f, of
  <2>1. ExistsBijection(1..l, of)
    BY <1>5 DEF ExistsBijection
  <2> QED
    BY <1>6, <2>1, FS_Bijection
<1> QED
  BY <1>3, <1>4, <1>7

\* The parts of the invariant that speak of the messages.
Sound(s) == Numbered(s) /\ Paired(s) /\ Single(s)

LEMMA SeveralKinds ==
  /\ <<>> \in Seq(MessageKinds) /\ Len(<<>>) = 0
  /\ \A k \in MessageKinds : /\ <<k>> \in Seq(MessageKinds) /\ Len(<<k>>) = 1 /\ <<k>>[1] = k
  /\ \A k, m \in MessageKinds : /\ <<k, m>> \in Seq(MessageKinds) /\ Len(<<k, m>>) = 2
                                /\ <<k, m>>[1] = k /\ <<k, m>>[2] = m
  OBVIOUS

LEMMA NothingAdded ==
  ASSUME NEW w \in Nat, NEW s \in Seq(MessageRows(w))
  PROVE  With(s, <<>>) = s
<1>1. [i \in DOMAIN <<>> |-> [n |-> written + i, kind |-> <<>>[i]]] = <<>>
  OBVIOUS
<1> QED
  BY <1>1 DEF With

LEMMA KindsFit ==
  ASSUME NEW s
  PROVE  /\ Fits(s, <<>>) /\ Fits(s, <<"user">>) /\ Fits(s, <<"assistant">>)
         /\ Fits(s, <<"call", "result">>)
         /\ ~Has(s, "memory") => Fits(s, <<"memory">>)
         /\ ~Has(s, "draft") => Fits(s, <<"draft">>)
         /\ ~Has(s, "memory") /\ ~Has(s, "draft") => Fits(s, <<"memory", "draft">>)
<1>1. Fits(s, <<>>)
  BY SeveralKinds DEF Fits
<1>2. ASSUME NEW k \in {"user", "assistant", "memory", "draft"}, k \in {"memory", "draft"} => ~Has(s, k)
      PROVE  Fits(s, <<k>>)
  <2>1. Len(<<k>>) = 1 /\ <<k>>[1] = k
    OBVIOUS
  <2>2. \A j \in 1..1 : j = 1
    OBVIOUS
  <2> QED
    BY <1>2, <2>1, <2>2 DEF Fits
<1>3. Fits(s, <<"call", "result">>)
  <2> DEFINE kinds == <<"call", "result">>
  <2>1. Len(kinds) = 2 /\ kinds[1] = "call" /\ kinds[2] = "result"
    OBVIOUS
  <2>2. \A j \in 1..2 : j = 1 \/ j = 2
    OBVIOUS
  <2> HIDE DEF kinds
  <2>3. \A j \in 1..2 : kinds[j] \notin {"memory", "draft"}
    BY <2>1, <2>2
  <2>4. \A j \in 1..2 : kinds[j] = "call" => j + 1 \in 1..2 /\ kinds[j + 1] = "result"
    BY <2>1, <2>2
  <2>5. \A j \in 1..2 : kinds[j] = "result" => j - 1 \in 1..2 /\ kinds[j - 1] = "call"
    BY <2>1, <2>2
  <2>6. Fits(s, kinds)
    BY <2>1, <2>3, <2>4, <2>5 DEF Fits
  <2> QED
    BY <2>6 DEF kinds
<1>4. ASSUME ~Has(s, "memory"), ~Has(s, "draft")
      PROVE  Fits(s, <<"memory", "draft">>)
  <2> DEFINE kinds == <<"memory", "draft">>
  <2>1. Len(kinds) = 2 /\ kinds[1] = "memory" /\ kinds[2] = "draft"
    OBVIOUS
  <2>2. \A j \in 1..2 : j = 1 \/ j = 2
    OBVIOUS
  <2> HIDE DEF kinds
  <2>3. \A j \in 1..2 : kinds[j] \notin {"call", "result"} /\ ~Has(s, kinds[j])
    BY <1>4, <2>1, <2>2
  <2>4. \A j, k \in 1..2 : kinds[j] = kinds[k] => j = k
    BY <2>1, <2>2
  <2>5. Fits(s, kinds)
    BY <2>1, <2>3, <2>4 DEF Fits
  <2> QED
    BY <2>5 DEF kinds
<1> QED
  BY <1>1, <1>2, <1>3, <1>4

\* The last turn's memory goes, and the summary that is generated becomes stale.
LEMMA ClearedKeeps ==
  ASSUME ContextInv
  PROVE  /\ Cleared \in Seq(MessageRows(written)) /\ Sound(Cleared) /\ ~Has(Cleared, "memory")
         /\ \A kind : Has(Cleared, kind) => Has(messages, kind)
         /\ Orphans(Cleared) \subseteq Orphans(messages)
         /\ ClearedJob.running = job.running /\ ClearedJob.of = job.of
         /\ ClearedJob \in [running : BOOLEAN, of : SUBSET (1..written), stale : BOOLEAN,
                             draftGone : BOOLEAN]
         /\ ClearedJob.running /\ ~ClearedJob.stale /\ ~ClearedJob.draftGone
              => Covers(ClearedJob.of, Cleared)
<1>1. /\ messages \in Seq(MessageRows(written)) /\ Sound(messages) /\ written \in Nat
      /\ job \in [running : BOOLEAN, of : SUBSET (1..written), stale : BOOLEAN, draftGone : BOOLEAN]
      /\ job.running /\ ~job.stale /\ ~job.draftGone => Covers(job.of, messages)
  BY MessagesTyped, ContextAssumption DEF ContextInv, Sound
<1>2. CASE ~Has(messages, "memory") /\ Cleared = messages
  <2>1. ClearedJob = job
    BY <1>2 DEF ClearedJob
  <2> QED
    BY <1>1, <1>2, <2>1
<1>3. ASSUME NEW k \in 1..Len(messages), messages[k].kind = "memory",
             Cleared = RemoveAt(messages, k)
      PROVE  ~Has(Cleared, "memory")
  BY <1>1, <1>3, RemovingKeeps DEF Sound
<1>4. ASSUME NEW k \in 1..Len(messages), messages[k].kind = "memory",
             Cleared = RemoveAt(messages, k)
      PROVE  /\ Cleared \in Seq(MessageRows(written)) /\ Sound(Cleared)
             /\ \A kind : Has(Cleared, kind) => Has(messages, kind)
             /\ Orphans(Cleared) \subseteq Orphans(messages)
             /\ Cleared # messages
  BY <1>1, <1>4, RemovingKeeps DEF Sound
<1>5. ASSUME Cleared # messages
      PROVE  /\ ClearedJob.running = job.running /\ ClearedJob.of = job.of
             /\ ClearedJob \in [running : BOOLEAN, of : SUBSET (1..written), stale : BOOLEAN,
                                 draftGone : BOOLEAN]
             /\ ~(ClearedJob.running /\ ~ClearedJob.stale)
  <2>1. ClearedJob = [job EXCEPT !.stale = job.running]
    BY <1>5 DEF ClearedJob, Bumped
  <2> QED
    BY <1>1, <2>1
<1>6. \/ ~Has(messages, "memory") /\ Cleared = messages
      \/ \E k \in 1..Len(messages) : messages[k].kind = "memory" /\ Cleared = RemoveAt(messages, k)
  BY <1>1, WithoutIs DEF Cleared
<1> QED
  BY <1>2, <1>3, <1>4, <1>5, <1>6

\* A step that adds messages to those of s.
LEMMA MessagesAdded ==
  ASSUME written \in Nat, NEW s \in Seq(MessageRows(written)), Sound(s),
         NEW kinds \in Seq(MessageKinds), Fits(s, kinds),
         messages' = With(s, kinds), written' = written + Len(kinds), written' =< MaxMessages
  PROVE  /\ written' \in 0..MaxMessages /\ messages' \in Seq(MessageRows(written'))
         /\ Sound(messages') /\ Orphans(messages') \subseteq Orphans(s)
         /\ \A of : Covers(of, s) => Covers(of, messages')
         /\ 1..written \subseteq 1..written'
         /\ \A kind : Has(s, kind) => Has(messages', kind)
         /\ \A kind : Has(messages', kind) =>
              Has(s, kind) \/ \E j \in 1..Len(kinds) : kinds[j] = kind
<1>1. Len(kinds) \in Nat /\ Len(s) \in Nat
  OBVIOUS
<1>2. written' \in 0..MaxMessages /\ 1..written \subseteq 1..written'
  BY <1>1, ContextAssumption
<1>3. /\ messages' \in Seq(MessageRows(written')) /\ Len(messages') = Len(s) + Len(kinds)
      /\ \A i \in 1..Len(s) : messages'[i] = s[i]
      /\ \A j \in 1..Len(kinds) : messages'[Len(s) + j].kind = kinds[j]
  BY AddedMessages
<1>4. /\ Sound(messages') /\ Orphans(messages') \subseteq Orphans(s)
      /\ \A of : Covers(of, s) => Covers(of, messages')
  BY AddingKeeps DEF Sound
<1>5. ASSUME NEW kind, Has(messages', kind)
      PROVE  Has(s, kind) \/ \E j \in 1..Len(kinds) : kinds[j] = kind
  <2>1. PICK i \in 1..Len(messages') : messages'[i].kind = kind
    BY <1>5 DEF Has
  <2>2. CASE i \in 1..Len(s)
    BY <1>3, <2>1, <2>2 DEF Has
  <2>3. CASE i \notin 1..Len(s)
    <3>1. i - Len(s) \in 1..Len(kinds) /\ Len(s) + (i - Len(s)) = i
      BY <1>1, <1>3, <2>3
    <3>2. kinds[i - Len(s)] = kind
      BY <1>3, <2>1, <3>1
    <3> QED
      BY <3>1, <3>2
  <2> QED
    BY <2>2, <2>3
<1>6. \A kind : Has(s, kind) => Has(messages', kind)
  <2>1. \A i \in 1..Len(s) : i \in 1..Len(messages')
    BY <1>1, <1>3
  <2> QED
    BY <1>3, <2>1 DEF Has
<1> QED
  BY <1>2, <1>3, <1>4, <1>5, <1>6

ResultStep == job.draftGone \/ Orphans(messages') \subseteq Orphans(messages)

\* The invariant from its parts, as the steps prove them.
LEMMA ContextParts ==
  /\ ContextInv <=>
       /\ written \in 0..MaxMessages /\ messages \in Seq(MessageRows(written))
       /\ frame \in {"none", "retrieving", "routed"} /\ run \in {"none", "starts", "running"}
       /\ busy \in BOOLEAN /\ (busy => job.running)
       /\ job \in [running : BOOLEAN, of : SUBSET (1..written), stale : BOOLEAN,
                    draftGone : BOOLEAN]
       /\ Sound(messages)
       /\ frame = "retrieving" => ~Has(messages, "memory")
       /\ job.running /\ ~job.stale /\ ~job.draftGone => Covers(job.of, messages)
  /\ MaxMessages \in Nat /\ (written \in 0..MaxMessages => written \in Nat)
<1>1. MaxMessages \in Nat /\ (written \in 0..MaxMessages => written \in Nat)
  BY ContextAssumption
<1> QED
  BY <1>1, MessagesTyped DEF ContextInv, Sound

LEMMA ContextPartsNext ==
  ASSUME written' \in 0..MaxMessages, messages' \in Seq(MessageRows(written')),
         frame' \in {"none", "retrieving", "routed"}, run' \in {"none", "starts", "running"},
         busy' \in BOOLEAN, busy' => job'.running,
         job' \in [running : BOOLEAN, of : SUBSET (1..written'), stale : BOOLEAN,
                   draftGone : BOOLEAN],
         Sound(messages'), frame' = "retrieving" => ~Has(messages', "memory"),
         job'.running /\ ~job'.stale /\ ~job'.draftGone => Covers(job'.of, messages')
  PROVE  ContextInv'
<1>1. ContextTypeOK'
  BY DEF ContextTypeOK, MessageRows, MessageKinds
<1> QED
  BY <1>1 DEF ContextInv, Sound

LEMMA JobGrows ==
  ASSUME NEW j, NEW v, NEW w,
         j \in [running : BOOLEAN, of : SUBSET (1..v), stale : BOOLEAN, draftGone : BOOLEAN],
         1..v \subseteq 1..w
  PROVE  j \in [running : BOOLEAN, of : SUBSET (1..w), stale : BOOLEAN, draftGone : BOOLEAN]
  OBVIOUS

\* The messages of a response, and of a tool's call and its result.
LEMMA WriteKeepsContext ==
  ASSUME ContextInv, NEW kinds \in Seq(MessageKinds), Fits(messages, kinds), Write(kinds),
         \A j \in 1..Len(kinds) : kinds[j] # "memory",
         frame' \in {frame, "none"}, run' \in {"none", "starts", "running"},
         busy' \in {busy, FALSE}, UNCHANGED job
  PROVE  ContextInv' /\ ResultStep
<1>1. written \in Nat /\ messages \in Seq(MessageRows(written)) /\ Sound(messages)
  BY ContextParts
<1>2. /\ messages' = With(messages, kinds) /\ written' = written + Len(kinds)
      /\ written' =< MaxMessages
  BY DEF Write
<1>3. /\ written' \in 0..MaxMessages /\ messages' \in Seq(MessageRows(written'))
      /\ Sound(messages') /\ Orphans(messages') \subseteq Orphans(messages)
      /\ \A of : Covers(of, messages) => Covers(of, messages')
      /\ 1..written \subseteq 1..written'
      /\ \A kind : Has(messages', kind) =>
           Has(messages, kind) \/ \E j \in 1..Len(kinds) : kinds[j] = kind
  BY <1>1, <1>2, MessagesAdded
<1>4. /\ job' \in [running : BOOLEAN, of : SUBSET (1..written'), stale : BOOLEAN,
                    draftGone : BOOLEAN]
  BY <1>3, ContextParts, JobGrows
<1>5. frame' = "retrieving" => ~Has(messages', "memory")
  BY <1>3, ContextParts
<1>6. job'.running /\ ~job'.stale /\ ~job'.draftGone => Covers(job'.of, messages')
  BY <1>3, ContextParts
<1>7. frame' \in {"none", "retrieving", "routed"}
  BY ContextParts
<1>8. busy' \in BOOLEAN /\ (busy' => job'.running)
  <2>1. busy \in BOOLEAN /\ (busy => job.running)
    BY ContextParts
  <2>2. job' = job /\ (busy' = busy \/ busy' = FALSE)
    OBVIOUS
  <2>3. CASE busy' = busy
    BY <2>1, <2>2, <2>3
  <2>4. CASE busy' = FALSE
    BY <2>4
  <2> QED
    BY <2>2, <2>3, <2>4
<1>9. ContextInv'
  BY <1>3, <1>4, <1>5, <1>6, <1>7, <1>8, ContextPartsNext
<1> QED
  BY <1>3, <1>9 DEF ResultStep

LEMMA UserMessageKeepsContext ==
  ASSUME ContextInv, user_message
  PROVE  ContextInv' /\ ResultStep
<1>1. /\ messages' = With(Cleared, <<"user">>) /\ written' = written + 1 /\ written < MaxMessages
      /\ job' = ClearedJob /\ frame' = "retrieving" /\ UNCHANGED <<run, busy>>
  BY DEF user_message
<1>2. written \in Nat
  BY ContextParts
<1>3. <<"user">> \in Seq(MessageKinds) /\ Len(<<"user">>) = 1 /\ <<"user">>[1] = "user"
  BY SeveralKinds DEF MessageKinds
<1>4. written' =< MaxMessages /\ Fits(Cleared, <<"user">>)
  BY <1>1, <1>2, KindsFit, ContextAssumption
<1>5. /\ written' \in 0..MaxMessages /\ messages' \in Seq(MessageRows(written'))
      /\ Sound(messages') /\ Orphans(messages') \subseteq Orphans(Cleared)
      /\ \A of : Covers(of, Cleared) => Covers(of, messages')
      /\ 1..written \subseteq 1..written'
      /\ \A kind : Has(messages', kind) =>
           Has(Cleared, kind) \/ \E j \in 1..1 : <<"user">>[j] = kind
  <2>1. Cleared \in Seq(MessageRows(written)) /\ Sound(Cleared)
    BY ClearedKeeps
  <2> DEFINE kinds == <<"user">>
  <2> HIDE DEF kinds
  <2>2. /\ kinds \in Seq(MessageKinds) /\ Len(kinds) = 1 /\ Fits(Cleared, kinds)
        /\ messages' = With(Cleared, kinds) /\ written' = written + Len(kinds)
    BY <1>1, <1>3, <1>4 DEF kinds
  <2>3. /\ written' \in 0..MaxMessages /\ messages' \in Seq(MessageRows(written'))
        /\ Sound(messages') /\ Orphans(messages') \subseteq Orphans(Cleared)
        /\ \A of : Covers(of, Cleared) => Covers(of, messages')
        /\ 1..written \subseteq 1..written'
        /\ \A kind : Has(messages', kind) =>
             Has(Cleared, kind) \/ \E j \in 1..Len(kinds) : kinds[j] = kind
    BY <1>2, <1>4, <2>1, <2>2, MessagesAdded
  <2> QED
    BY <2>2, <2>3 DEF kinds
<1>6. ~Has(messages', "memory")
  <2>1. \A j \in 1..1 : <<"user">>[j] # "memory"
    <3>1. \A j \in 1..1 : j = 1
      OBVIOUS
    <3> QED
      BY <1>3, <3>1
  <2> QED
    BY <1>5, <2>1, ClearedKeeps
<1>7. job' \in [running : BOOLEAN, of : SUBSET (1..written'), stale : BOOLEAN, draftGone : BOOLEAN]
  BY <1>1, <1>5, ClearedKeeps, JobGrows
<1>8. /\ job'.running /\ ~job'.stale /\ ~job'.draftGone => Covers(job'.of, messages')
      /\ job'.running = job.running
  BY <1>1, <1>5, ClearedKeeps
<1>9. ContextInv'
  <2>1. /\ run' \in {"none", "starts", "running"} /\ busy' \in BOOLEAN
        /\ busy' => job'.running
    BY <1>1, <1>8, ContextParts
  <2> QED
    BY <1>1, <1>5, <1>6, <1>7, <1>8, <2>1, ContextPartsNext
<1> QED
  BY <1>5, <1>9, ClearedKeeps DEF ResultStep

\* The old message of the draft goes; what a summary is of has either kept its place
\* or is marked.
LEMMA RouteKeepsContext ==
  ASSUME ContextInv, NEW found \in BOOLEAN, NEW drafting \in BOOLEAN, route(found, drafting)
  PROVE  ContextInv' /\ ResultStep
<1> DEFINE kinds == (IF found THEN <<"memory">> ELSE <<>>) \o
                    (IF drafting THEN <<"draft">> ELSE <<>>)
           old == {m.n : m \in {m \in ToSet(messages) : m.kind = "draft"}}
           rest == Without("draft")
<1>1. /\ frame = "retrieving" /\ frame' = "routed"
      /\ written + Len(kinds) =< MaxMessages /\ written' = written + Len(kinds)
      /\ messages' = With(rest, kinds)
      /\ job' = [job EXCEPT !.stale = @ \/ (found /\ job.running),
                            !.draftGone = @ \/ old \cap job.of # {}]
      /\ UNCHANGED <<run, busy>>
  BY DEF route
<1>2. /\ written \in Nat /\ messages \in Seq(MessageRows(written)) /\ Sound(messages)
      /\ ~Has(messages, "memory")
  BY <1>1, ContextParts
<1>3. \/ ~Has(messages, "draft") /\ rest = messages
      \/ \E k \in 1..Len(messages) : messages[k].kind = "draft" /\ rest = RemoveAt(messages, k)
  BY <1>2, WithoutIs
<1>4. ASSUME NEW k \in 1..Len(messages), messages[k].kind = "draft"
      PROVE  messages[k].n \in old
  <2>1. messages[k] \in ToSet(messages)
    BY <1>2 DEF ToSet
  <2> QED
    BY <1>4, <2>1
<1> HIDE DEF old, rest
<1>5. /\ rest \in Seq(MessageRows(written)) /\ Sound(rest)
      /\ ~Has(rest, "memory") /\ ~Has(rest, "draft")
      /\ Orphans(rest) \subseteq Orphans(messages)
      /\ \A of : Covers(of, messages) /\ old \cap of = {} => Covers(of, rest)
  <2>1. CASE ~Has(messages, "draft") /\ rest = messages
    BY <1>2, <2>1
  <2>2. ASSUME NEW k \in 1..Len(messages), messages[k].kind = "draft",
               rest = RemoveAt(messages, k)
        PROVE  /\ rest \in Seq(MessageRows(written)) /\ Sound(rest)
               /\ ~Has(rest, "memory") /\ ~Has(rest, "draft")
               /\ Orphans(rest) \subseteq Orphans(messages)
               /\ \A of : Covers(of, messages) /\ old \cap of = {} => Covers(of, rest)
    <3>1. /\ rest \in Seq(MessageRows(written)) /\ Sound(rest)
          /\ ~Has(rest, "draft") /\ \A kind : Has(rest, kind) => Has(messages, kind)
          /\ Orphans(rest) \subseteq Orphans(messages)
          /\ \A of : Covers(of, messages) /\ messages[k].n \notin of => Covers(of, rest)
      BY <1>2, <2>2, RemovingKeeps DEF Sound
    <3>2. messages[k].n \in old
      BY <1>4, <2>2
    <3> QED
      BY <1>2, <3>1, <3>2
  <2> QED
    BY <1>3, <2>1, <2>2
<1>6. kinds \in Seq(MessageKinds) /\ Fits(rest, kinds)
  <2>1. \/ kinds = <<>> \/ kinds = <<"memory">>
        \/ kinds = <<"draft">> \/ kinds = <<"memory", "draft">>
    <3>1. CASE found /\ drafting
      <4> DEFINE one == <<"memory">>
                 other == <<"draft">>
                 both == <<"memory", "draft">>
      <4>1. /\ one \in Seq({"memory", "draft"}) /\ Len(one) = 1 /\ one[1] = "memory"
            /\ other \in Seq({"memory", "draft"}) /\ Len(other) = 1 /\ other[1] = "draft"
        OBVIOUS
      <4>2. both \in [1..2 -> {"memory", "draft"}] /\ both[1] = "memory" /\ both[2] = "draft"
        OBVIOUS
      <4>3. kinds = one \o other
        BY <3>1
      <4> HIDE DEF one, other, both, kinds
      <4>4. /\ kinds \in Seq({"memory", "draft"}) /\ Len(kinds) = 2
            /\ kinds[1] = "memory" /\ kinds[2] = "draft"
        BY <4>1, <4>3, ConcatProperties
      <4>5. kinds \in [1..2 -> {"memory", "draft"}]
        BY <4>4
      <4>6. \A i \in 1..2 : i = 1 \/ i = 2
        OBVIOUS
      <4>7. \A i \in 1..2 : kinds[i] = both[i]
        BY <4>2, <4>4, <4>6
      <4>8. kinds = both
        BY <4>2, <4>5, <4>7
      <4> QED
        BY <4>8 DEF both
    <3>2. CASE found /\ ~drafting
      BY <3>2
    <3>3. CASE ~found /\ drafting
      BY <3>3
    <3>4. CASE ~found /\ ~drafting
      BY <3>4
    <3> QED
      BY <3>1, <3>2, <3>3, <3>4
  <2> HIDE DEF kinds
  <2>2. "memory" \in MessageKinds /\ "draft" \in MessageKinds
    BY DEF MessageKinds
  <2>3. /\ <<>> \in Seq(MessageKinds) /\ <<"memory">> \in Seq(MessageKinds)
        /\ <<"draft">> \in Seq(MessageKinds) /\ <<"memory", "draft">> \in Seq(MessageKinds)
    BY <2>2, SeveralKinds
  <2>4. /\ Fits(rest, <<>>) /\ Fits(rest, <<"memory">>) /\ Fits(rest, <<"draft">>)
        /\ Fits(rest, <<"memory", "draft">>)
    BY <1>5, KindsFit
  <2> QED
    BY <2>1, <2>3, <2>4
<1> HIDE DEF kinds
<1>7. /\ written' \in 0..MaxMessages /\ messages' \in Seq(MessageRows(written'))
      /\ Sound(messages') /\ Orphans(messages') \subseteq Orphans(rest)
      /\ \A of : Covers(of, rest) => Covers(of, messages')
      /\ 1..written \subseteq 1..written'
  BY <1>1, <1>2, <1>5, <1>6, MessagesAdded
<1>8. job \in [running : BOOLEAN, of : SUBSET (1..written), stale : BOOLEAN, draftGone : BOOLEAN]
  BY ContextParts
<1>9. /\ job'.running = job.running /\ job'.of = job.of
      /\ job'.stale = (job.stale \/ (found /\ job.running))
      /\ job'.draftGone = (job.draftGone \/ old \cap job.of # {})
      /\ job' \in [running : BOOLEAN, of : SUBSET (1..written), stale : BOOLEAN, draftGone : BOOLEAN]
  BY <1>1, <1>8
<1>10. job'.running /\ ~job'.stale /\ ~job'.draftGone => Covers(job'.of, messages')
  BY <1>5, <1>7, <1>9, ContextParts
<1>11. ContextInv'
  <2>1. /\ run' \in {"none", "starts", "running"} /\ busy' \in BOOLEAN
        /\ busy' => job'.running
    BY <1>1, <1>9, ContextParts
  <2>2. job' \in [running : BOOLEAN, of : SUBSET (1..written'), stale : BOOLEAN, draftGone : BOOLEAN]
    BY <1>7, <1>9, JobGrows
  <2> QED
    BY <1>1, <1>7, <1>10, <2>1, <2>2, ContextPartsNext
<1> QED
  BY <1>5, <1>7, <1>11 DEF ResultStep

\* The window: the messages before p go, and with them what a summary is of.
LEMMA TrimKeepsContext ==
  ASSUME ContextInv, NEW p \in DOMAIN messages, trim(p)
  PROVE  ContextInv' /\ ResultStep
<1>1. /\ frame' = "none" /\ run' = "starts" /\ p \in GroupStarts
      /\ messages' = SubSeq(messages, p, Len(messages))
      /\ job' = IF p = 1 THEN job ELSE Bumped
      /\ UNCHANGED <<written, busy>>
  BY DEF trim
<1>2. /\ written \in Nat /\ messages \in Seq(MessageRows(written)) /\ Sound(messages)
      /\ job \in [running : BOOLEAN, of : SUBSET (1..written), stale : BOOLEAN, draftGone : BOOLEAN]
  BY ContextParts
<1>3. p \in 1..Len(messages) /\ DOMAIN messages = 1..Len(messages)
  BY <1>2
<1>4. p = 1 \/ messages[p].kind \in {"user", "summary"}
  BY <1>1 DEF GroupStarts
<1>5. /\ messages' \in Seq(MessageRows(written)) /\ Len(messages') = Len(messages) - p + 1
      /\ \A i \in 1..Len(messages') :
           p + i - 1 \in 1..Len(messages) /\ messages'[i] = messages[p + i - 1]
      /\ Sound(messages')
      /\ p = 1 => messages' = messages
      /\ \A i \in 1..Len(messages') :
           i # 1 /\ messages'[i].kind = "result" /\ messages'[i - 1].kind # "call" =>
             messages'[i].n \in Orphans(messages)
  <2>1. Numbered(messages) /\ Paired(messages) /\ Single(messages)
    BY <1>2 DEF Sound
  <2> DEFINE r == SubSeq(messages, p, Len(messages))
  <2>2. /\ r \in Seq(MessageRows(written)) /\ Len(r) = Len(messages) - p + 1
        /\ \A i \in 1..Len(r) : p + i - 1 \in 1..Len(messages) /\ r[i] = messages[p + i - 1]
        /\ Numbered(r) /\ Paired(r) /\ Single(r)
        /\ p = 1 => r = messages
        /\ \A i \in 1..Len(r) :
             i # 1 /\ r[i].kind = "result" /\ r[i - 1].kind # "call" => r[i].n \in Orphans(messages)
    BY <1>2, <1>3, <2>1, SuffixKeeps
  <2>3. messages' = r
    BY <1>1
  <2> HIDE DEF r
  <2> QED
    BY <2>2, <2>3 DEF Sound
<1>6. Orphans(messages') \subseteq Orphans(messages)
  <2>1. CASE p = 1
    BY <1>5, <2>1
  <2>2. CASE p # 1
    <3>1. DOMAIN messages' = 1..Len(messages')
      BY <1>5
    <3> SUFFICES ASSUME NEW i \in 1..Len(messages'), messages'[i].kind = "result",
                        i = 1 \/ messages'[i - 1].kind # "call"
                 PROVE  messages'[i].n \in Orphans(messages)
      BY <3>1 DEF Orphans
    <3>2. i # 1
      <4>1. p + 1 - 1 = p
        BY <1>3
      <4>2. i = 1 => messages'[i] = messages[p]
        BY <1>5, <4>1
      <4> QED
        BY <1>4, <2>2, <4>2
    <3> QED
      BY <1>5, <3>2
  <2> QED
    BY <2>1, <2>2
<1>7. /\ job' \in [running : BOOLEAN, of : SUBSET (1..written), stale : BOOLEAN, draftGone : BOOLEAN]
      /\ job'.running = job.running
      /\ job'.running /\ ~job'.stale => p = 1 /\ job' = job
  <2>1. CASE p = 1
    BY <1>1, <1>2, <2>1
  <2>2. CASE p # 1
    <3>1. job' = [job EXCEPT !.stale = job.running]
      BY <1>1, <2>2 DEF Bumped
    <3> QED
      BY <1>2, <3>1
  <2> QED
    BY <2>1, <2>2
<1>8. job'.running /\ ~job'.stale /\ ~job'.draftGone => Covers(job'.of, messages')
  BY <1>5, <1>7, ContextParts
<1>9. ContextInv'
  <2>1. /\ busy' \in BOOLEAN /\ (busy' => job'.running) /\ written' \in 0..MaxMessages
        /\ written' = written
    BY <1>1, <1>7, ContextParts
  <2> QED
    BY <1>1, <1>5, <1>7, <1>8, <2>1, ContextPartsNext
<1> QED
  BY <1>6, <1>9 DEF ResultStep

\* A summary is begun of the first messages, and of no call without its result.
LEMMA ResponseBeginsKeepsContext ==
  ASSUME ContextInv, response_begins
  PROVE  ContextInv' /\ ResultStep
<1>1. run' = "running" /\ UNCHANGED <<messages, written, frame>>
  BY DEF response_begins
<1>2. /\ written \in Nat /\ messages \in Seq(MessageRows(written)) /\ Sound(messages)
      /\ busy \in BOOLEAN /\ (busy => job.running) /\ written \in 0..MaxMessages
      /\ frame \in {"none", "retrieving", "routed"}
      /\ frame = "retrieving" => ~Has(messages, "memory")
      /\ job \in [running : BOOLEAN, of : SUBSET (1..written), stale : BOOLEAN, draftGone : BOOLEAN]
      /\ job.running /\ ~job.stale /\ ~job.draftGone => Covers(job.of, messages)
  BY ContextParts
<1>3. CASE UNCHANGED <<busy, job>>
  BY <1>1, <1>2, <1>3, ContextPartsNext DEF ResultStep
<1>4. CASE /\ Selected > 0 /\ busy' = TRUE
           /\ job' = [NoJob EXCEPT !.running = TRUE, !.of = Numbers(SubSeq(messages, 1, Selected))]
  <2> DEFINE l == Selected
             of == Numbers(SubSeq(messages, 1, l))
  <2>1. l \in 1..Len(messages) /\ messages[l].kind # "call"
    <3> DEFINE count == IF Len(messages) > Keep THEN Len(messages) - Keep ELSE 0
    <3>1. Len(messages) \in Nat /\ Keep \in Nat
      BY <1>2, ContextAssumption
    <3>2. count \in 0..Len(messages)
      BY <3>1
    <3>3. l = IF count > 0 /\ messages[count].kind = "call" THEN count - 1 ELSE count
      BY DEF Selected
    <3> HIDE DEF count, l
    <3>4. l > 0
      BY <1>4 DEF l
    <3>5. CASE count > 0 /\ messages[count].kind = "call"
      <4>1. l = count - 1 /\ l \in 1..Len(messages) /\ l + 1 = count
        BY <3>1, <3>2, <3>3, <3>4, <3>5
      <4>2. messages[l].kind = "call" => messages[l + 1].kind = "result"
        BY <1>2, <4>1 DEF Sound, Paired
      <4> QED
        BY <3>5, <4>1, <4>2
    <3>6. CASE ~(count > 0 /\ messages[count].kind = "call")
      BY <3>1, <3>2, <3>3, <3>4, <3>6
    <3> QED
      BY <3>5, <3>6
  <2>2. job' = [running |-> TRUE, of |-> of, stale |-> FALSE, draftGone |-> FALSE]
    BY <1>4 DEF NoJob
  <2> HIDE DEF l
  <2>3. of = {messages[i].n : i \in 1..l} /\ Cardinality(of) = l /\ of \subseteq 1..written
    <3>1. Numbered(messages)
      BY <1>2 DEF Sound
    <3>2. /\ Numbers(SubSeq(messages, 1, l)) = {messages[i].n : i \in 1..l}
          /\ Cardinality({messages[i].n : i \in 1..l}) = l
          /\ {messages[i].n : i \in 1..l} \subseteq 1..written
      BY <1>2, <2>1, <3>1, FirstNumbers
    <3> QED
      BY <3>2
  <2> HIDE DEF of
  <2>4. Covers(of, messages)
    BY <2>1, <2>3 DEF Covers
  <2>5. /\ job' \in [running : BOOLEAN, of : SUBSET (1..written), stale : BOOLEAN, draftGone : BOOLEAN]
        /\ job'.running /\ job'.of = of
    BY <2>2, <2>3
  <2>6. ContextInv'
    <3>1. Covers(job'.of, messages')
      BY <1>1, <2>4, <2>5
    <3>2. busy' \in BOOLEAN /\ (busy' => job'.running)
      BY <1>4, <2>5
    <3> QED
      BY <1>1, <1>2, <2>5, <3>1, <3>2, ContextPartsNext
  <2> QED
    BY <1>1, <2>6 DEF ResultStep
<1> QED
  BY <1>3, <1>4 DEF response_begins

LEMMA InterruptedKeepsContext ==
  ASSUME ContextInv, NEW cleared \in BOOLEAN, context_interrupted(cleared)
  PROVE  ContextInv' /\ ResultStep
<1> DEFINE s == IF cleared THEN Cleared ELSE messages
<1>1. /\ frame' = "none" /\ run' = "none" /\ busy' = FALSE
      /\ job' = IF cleared THEN ClearedJob ELSE job
  BY DEF context_interrupted
<1>2. PICK kinds \in {<<>>, <<"assistant">>} :
        /\ written + Len(kinds) =< MaxMessages /\ written' = written + Len(kinds)
        /\ messages' = With(s, kinds)
  BY DEF context_interrupted
<1>3. kinds \in Seq(MessageKinds) /\ Fits(s, kinds)
  <2>1. /\ <<>> \in Seq(MessageKinds) /\ <<"assistant">> \in Seq(MessageKinds)
        /\ Fits(s, <<>>) /\ Fits(s, <<"assistant">>)
    BY SeveralKinds, KindsFit DEF MessageKinds
  <2> HIDE DEF s
  <2> QED
    BY <1>2, <2>1
<1>4. /\ written \in Nat /\ messages \in Seq(MessageRows(written)) /\ Sound(messages)
      /\ job \in [running : BOOLEAN, of : SUBSET (1..written), stale : BOOLEAN, draftGone : BOOLEAN]
      /\ job.running /\ ~job.stale /\ ~job.draftGone => Covers(job.of, messages)
  BY ContextParts
<1>5. /\ s \in Seq(MessageRows(written)) /\ Sound(s) /\ Orphans(s) \subseteq Orphans(messages)
      /\ job'.running = job.running
      /\ job' \in [running : BOOLEAN, of : SUBSET (1..written), stale : BOOLEAN, draftGone : BOOLEAN]
      /\ job'.running /\ ~job'.stale /\ ~job'.draftGone => Covers(job'.of, s)
  <2>1. CASE cleared
    BY <1>1, <2>1, ClearedKeeps
  <2>2. CASE ~cleared
    BY <1>1, <1>4, <2>2
  <2> QED
    BY <2>1, <2>2
<1> HIDE DEF s
<1>6. /\ written' \in 0..MaxMessages /\ messages' \in Seq(MessageRows(written'))
      /\ Sound(messages') /\ Orphans(messages') \subseteq Orphans(s)
      /\ \A of : Covers(of, s) => Covers(of, messages')
      /\ 1..written \subseteq 1..written'
  BY <1>2, <1>3, <1>4, <1>5, MessagesAdded
<1>7. ContextInv'
  <2>1. job' \in [running : BOOLEAN, of : SUBSET (1..written'), stale : BOOLEAN, draftGone : BOOLEAN]
    BY <1>5, <1>6, JobGrows
  <2>2. job'.running /\ ~job'.stale /\ ~job'.draftGone => Covers(job'.of, messages')
    BY <1>5, <1>6
  <2> QED
    BY <1>1, <1>6, <2>1, <2>2, ContextPartsNext
<1> QED
  BY <1>5, <1>6, <1>7 DEF ResultStep

\* A summary that may be applied is of the first messages, whose last is no call.
LEMMA AppliedKeepsContext ==
  ASSUME ContextInv, summary_applied
  PROVE  ContextInv' /\ ResultStep
<1> DEFINE l == Cardinality(job.of)
           r == With(<<>>, <<"summary">>) \o SubSeq(messages, l + 1, Len(messages))
<1>1. /\ job.running /\ ~job.stale /\ job' = NoJob /\ busy' = FALSE
      /\ written < MaxMessages /\ written' = written + 1 /\ UNCHANGED <<frame, run>>
      /\ Len(messages) - l >= Keep /\ messages' = r
  BY DEF summary_applied
<1>2. /\ written \in Nat /\ messages \in Seq(MessageRows(written)) /\ Sound(messages)
      /\ MaxMessages \in Nat
      /\ frame \in {"none", "retrieving", "routed"} /\ run \in {"none", "starts", "running"}
      /\ frame = "retrieving" => ~Has(messages, "memory")
      /\ job.of \subseteq 1..written
      /\ ~job.draftGone => Covers(job.of, messages)
  <2>1. job \in [running : BOOLEAN, of : SUBSET (1..written), stale : BOOLEAN, draftGone : BOOLEAN]
    BY ContextParts
  <2> QED
    BY <1>1, <2>1, ContextParts
<1>3. l \in Nat
  <2>1. IsFiniteSet(1..written)
    <3>1. 1 \in Int /\ written \in Int
      BY <1>2
    <3> QED
      BY <3>1, FS_Interval
  <2> QED
    BY <1>2, <2>1, FS_Subset, FS_CardinalityType
<1> HIDE DEF l
<1>4. l \in 0..Len(messages)
  <2>1. Len(messages) \in Nat /\ Keep \in Nat
    BY <1>2, ContextAssumption
  <2> QED
    BY <1>1, <1>3, <2>1
<1>5. /\ r \in Seq(MessageRows(written + 1)) /\ Numbered(r) /\ Paired(r) /\ Single(r)
      /\ \A kind : Has(r, kind) => kind = "summary" \/ Has(messages, kind)
      /\ l # 0 /\ messages[l].kind # "call" => Orphans(r) \subseteq Orphans(messages)
  BY <1>2, <1>4, SummaryKeeps DEF Sound
<1> HIDE DEF r
<1>6. ResultStep
  <2>1. CASE ~job.draftGone
    <3>1. PICK k \in 1..Len(messages) : l = k /\ messages[k].kind # "call"
      BY <1>2, <2>1 DEF Covers, l
    <3> QED
      BY <1>1, <1>2, <1>5, <3>1 DEF ResultStep
  <2> QED
    BY <2>1 DEF ResultStep
<1>7. job' \in [running : BOOLEAN, of : SUBSET (1..written'), stale : BOOLEAN, draftGone : BOOLEAN]
      /\ ~job'.running
  BY <1>1 DEF NoJob
<1>8. /\ written' \in 0..MaxMessages /\ messages' \in Seq(MessageRows(written'))
      /\ Sound(messages') /\ (frame' = "retrieving" => ~Has(messages', "memory"))
  BY <1>1, <1>2, <1>5 DEF Sound
<1>9. ContextInv'
  BY <1>1, <1>2, <1>7, <1>8, ContextPartsNext
<1> QED
  BY <1>6, <1>9

LEMMA DiscardedKeepsContext ==
  ASSUME ContextInv, summary_discarded
  PROVE  ContextInv' /\ ResultStep
<1>1. job' = NoJob /\ busy' = FALSE /\ UNCHANGED <<messages, written, frame, run>>
  BY DEF summary_discarded
<1>2. job' \in [running : BOOLEAN, of : SUBSET (1..written'), stale : BOOLEAN, draftGone : BOOLEAN]
      /\ ~job'.running
  BY <1>1 DEF NoJob
<1>3. ContextInv'
  BY <1>1, <1>2, ContextParts, ContextPartsNext
<1> QED
  BY <1>1, <1>3 DEF ResultStep

LEMMA InitContextInv == ContextInit => ContextInv
<1> SUFFICES ASSUME ContextInit
             PROVE  ContextInv
  OBVIOUS
<1>1. /\ messages = <<>> /\ written = 0 /\ frame = "none" /\ run = "none" /\ busy = FALSE
      /\ job = NoJob
  BY DEF ContextInit
<1>2. messages \in Seq(MessageRows(written)) /\ Len(messages) = 0
  BY <1>1
<1>3. job \in [running : BOOLEAN, of : SUBSET (1..written), stale : BOOLEAN, draftGone : BOOLEAN]
      /\ ~job.running
  BY <1>1 DEF NoJob
<1>4. Sound(messages)
  BY <1>2 DEF Sound, Numbered, Paired, Single
<1>5. written \in 0..MaxMessages
  BY <1>1, ContextParts
<1> QED
  BY <1>1, <1>2, <1>3, <1>4, <1>5, ContextParts

LEMMA ContextUnchanged ==
  ASSUME ContextInv, UNCHANGED contextVars
  PROVE  ContextInv' /\ ResultStep
<1>1. ContextInv'
  BY DEF contextVars, ContextInv, ContextTypeOK
<1> QED
  BY <1>1 DEF ResultStep, contextVars

LEMMA NextKeepsContextInv ==
  ASSUME ContextInv, [Next]_vars
  PROVE  ContextInv' /\ ResultStep
<1>1. CASE UNCHANGED contextVars
  BY <1>1, ContextUnchanged
<1>2. CASE ContextFlows
  <2>1. CASE \E found, drafting \in BOOLEAN : route(found, drafting)
    BY <2>1, RouteKeepsContext
  <2>2. CASE \E p \in DOMAIN messages : trim(p)
    BY <2>2, TrimKeepsContext
  <2> QED
    BY <1>2, <2>1, <2>2, UserMessageKeepsContext, AppliedKeepsContext, DiscardedKeepsContext
       DEF ContextFlows
<1>3. CASE response_begins
  BY <1>3, ResponseBeginsKeepsContext
<1>4. CASE response_done
  <2>1. <<"assistant">> \in Seq(MessageKinds) /\ Fits(messages, <<"assistant">>)
    BY SeveralKinds, KindsFit DEF MessageKinds
  <2> DEFINE kinds == <<"assistant">>
  <2>2. \A j \in 1..Len(kinds) : kinds[j] # "memory"
    <3>1. Len(kinds) = 1 /\ kinds[1] = "assistant" /\ \A j \in 1..1 : j = 1
      OBVIOUS
    <3> QED
      BY <3>1
  <2>3. Write(kinds) /\ run' = "none" /\ UNCHANGED <<frame, busy, job>>
    BY <1>4 DEF response_done
  <2> HIDE DEF kinds
  <2>4. kinds \in Seq(MessageKinds) /\ Fits(messages, kinds)
    BY <2>1 DEF kinds
  <2> QED
    BY <2>2, <2>3, <2>4, WriteKeepsContext
<1>5. CASE tool_called
  <2>1. <<"call", "result">> \in Seq(MessageKinds) /\ Fits(messages, <<"call", "result">>)
    BY SeveralKinds, KindsFit DEF MessageKinds
  <2> DEFINE kinds == <<"call", "result">>
  <2>2. \A j \in 1..Len(kinds) : kinds[j] # "memory"
    <3>1. /\ Len(kinds) = 2 /\ kinds[1] = "call" /\ kinds[2] = "result"
          /\ \A j \in 1..2 : j = 1 \/ j = 2
      OBVIOUS
    <3> QED
      BY <3>1
  <2>3. Write(kinds) /\ run' = "starts" /\ UNCHANGED <<frame, busy, job>>
    BY <1>5 DEF tool_called
  <2> HIDE DEF kinds
  <2>4. kinds \in Seq(MessageKinds) /\ Fits(messages, kinds)
    BY <2>1 DEF kinds
  <2> QED
    BY <2>2, <2>3, <2>4, WriteKeepsContext
<1>6. CASE \E cleared \in BOOLEAN : context_interrupted(cleared)
  BY <1>6, InterruptedKeepsContext
<1>7. CASE Interruption
  <2>1. UNCHANGED contextVars \/ \E cleared \in BOOLEAN : context_interrupted(cleared)
    BY <1>7 DEF Interruption, Keeps
  <2> QED
    BY <1>1, <1>6, <2>1
<1>8. CASE ResponseStarts \/ ResponseEnds
  <2>1. UNCHANGED contextVars \/ response_begins \/ response_done \/ tool_called
    BY <1>8 DEF ResponseStarts, ResponseEnds, Keeps
  <2> QED
    BY <1>1, <1>3, <1>4, <1>5, <2>1
<1> QED
  BY <1>1, <1>2, <1>7, <1>8
     DEF Next, ConversationStep, PageCallStep, PageAlone, MemoryStep, conversationVars, vars

\* The context of a call, for any window, any number of messages and any summaries.
THEOREM ContextAlwaysSound == Spec => []ContextInv
<1>1. Init => ContextInv
  BY InitContextInv DEF Init
<1>2. ContextInv /\ [Next]_vars => ContextInv'
  BY NextKeepsContextInv
<1> QED
  BY <1>1, <1>2, PTL DEF Spec

\* The types of the context.
THEOREM ContextTypeCorrect == Spec => []ContextTypeOK
<1>1. ContextInv => ContextTypeOK
  BY DEF ContextInv
<1> QED
  BY <1>1, ContextAlwaysSound, PTL

\* Neither the window (BoundedContextProcessor.trim) nor a summary that is applied by its
\* length leaves a tool's result without its call, unless a draft's message went from what
\* the summary is of (_refresh_workflow_context).
THEOREM CallsKeepTheirResults == Spec => ResultsKeepCalls
<1>1. ContextInv /\ [Next]_vars =>
        [job.draftGone \/ Orphans(messages') \subseteq Orphans(messages)]_contextVars
  BY NextKeepsContextInv DEF ResultStep
<1> QED
  BY <1>1, ContextAlwaysSound, PTL DEF Spec, ResultsKeepCalls

(***************************************************************************)
(* The types of the memory.                                                *)
(***************************************************************************)
\* A nonempty set of numbers up to n has a largest one.  (Of the sets of its members from
\* one of them on, the smallest is that of the largest.)
LEMMA LargestNumber ==
  ASSUME NEW n \in Nat, NEW S, S \subseteq 1..n, S # {}
  PROVE  \E x \in S : \A y \in S : y =< x
<1> DEFINE from(x) == {y \in S : y >= x}
           T == {from(x) : x \in S}
           R == StrictSubsetOrdering(S)
<1>1. IsFiniteSet(S)
  <2>1. 1 \in Int /\ n \in Int
    OBVIOUS
  <2>2. IsFiniteSet(1..n)
    BY <2>1, FS_Interval
  <2> QED
    BY <2>2, FS_Subset
<1>2. IsWellFoundedOn(R, SUBSET S)
  <2>1. IsWellFoundedOn(R, FiniteSubsetsOf(S))
    BY FS_StrictSubsetOrderingWellFounded
  <2>2. FiniteSubsetsOf(S) = SUBSET S
    BY <1>1, FS_FiniteSubsetsOfFinite
  <2> QED
    BY <2>1, <2>2
<1>3. T \subseteq SUBSET S /\ T # {}
  OBVIOUS
<1>4. PICK s \in T : \A t \in T : ~ (<<t, s>> \in R)
  <2> HIDE DEF T, R
  <2> QED
    BY <1>2, <1>3, WFMin
<1>5. PICK x \in S : s = from(x)
  BY <1>4
<1>6. ASSUME NEW y \in S, ~(y =< x)
      PROVE  FALSE
  <2>1. x \in Int /\ y \in Int /\ x < y
    BY <1>6
  <2>2. from(y) \in T /\ from(y) \subseteq from(x)
    <3>1. from(y) \in T
      OBVIOUS
    <3>2. ASSUME NEW z \in S, z >= y
          PROVE  z >= x
      <4>1. z \in Int
        OBVIOUS
      <4> QED
        BY <2>1, <3>2, <4>1
    <3> QED
      BY <3>1, <3>2
  <2>3. x \in from(x) /\ x \notin from(y)
    BY <2>1
  <2>4. from(y) \in SUBSET S /\ from(x) \in SUBSET S
    OBVIOUS
  <2> HIDE DEF from, T
  <2>5. <<from(y), from(x)>> \in R
    <3> DEFINE p == <<from(y), from(x)>>
    <3>1. p \in (SUBSET S) \X (SUBSET S) /\ p[1] = from(y) /\ p[2] = from(x)
      BY <2>4
    <3> HIDE DEF p
    <3>2. p \in R
      BY <2>2, <2>3, <3>1 DEF StrictSubsetOrdering
    <3> QED
      BY <3>2 DEF p
  <2> QED
    BY <1>4, <1>5, <2>2, <2>5
<1> QED
  BY <1>6

\* What the windows, the instructions and the recalls refer to.
MemoryRest ==
  /\ windows \subseteq [call : MemoryCalls, last : 1..Len(entries)]
  /\ known \in [MemoryCalls -> SUBSET Facts]
  /\ \A c \in MemoryCalls :
       /\ recall[c].told \subseteq MemoryCalls \ {c}
       /\ recall[c].pc = "reading" => recall[c].prior \in MemoryCalls \ {c}

LEMMA EntriesGrow ==
  ASSUME MemoryInv, MemoryRest, UNCHANGED <<windows, known, recall>>,
         Len(entries') \in Nat, Len(entries) =< Len(entries')
  PROVE  MemoryRest'
<1>1. 1..Len(entries) \subseteq 1..Len(entries')
  <2>1. Len(entries) \in Nat
    BY MemoryTyped
  <2> QED
    BY <2>1
<1>2. windows' \subseteq [call : MemoryCalls, last : 1..Len(entries')]
  <2> DEFINE m == 1..Len(entries)
             n == 1..Len(entries')
  <2>1. windows \subseteq [call : MemoryCalls, last : m] /\ m \subseteq n /\ windows' = windows
    BY <1>1 DEF MemoryRest
  <2> HIDE DEF m, n
  <2>2. [call : MemoryCalls, last : m] \subseteq [call : MemoryCalls, last : n]
    BY <2>1
  <2>3. windows' \subseteq [call : MemoryCalls, last : n]
    BY <2>1, <2>2
  <2> QED
    BY <2>3 DEF n
<1> QED
  BY <1>2 DEF MemoryRest

LEMMA CallKeepsRest ==
  ASSUME MemoryInv, MemoryRest, NEW c \in MemoryCalls,
         call_starts(c) \/ call_ends(c) \/ call_deleted(c) \/ call_restored(c) \/ call_purged(c)
  PROVE  MemoryRest'
<1>1. UNCHANGED <<entries, recall>> /\ windows' \subseteq windows
  BY DEF call_starts, call_ends, call_deleted, call_restored, call_purged, memoryKept
<1>2. known' \in [MemoryCalls -> SUBSET Facts]
  <2>1. known \in [MemoryCalls -> SUBSET Facts] /\ load_active_facts \in SUBSET Facts
    BY DEF MemoryRest, load_active_facts
  <2>2. known' = known \/ known' = [known EXCEPT ![c] = load_active_facts]
    BY DEF call_starts, call_ends, call_deleted, call_restored, call_purged, memoryKept
  <2> QED
    BY <2>1, <2>2
<1> QED
  BY <1>1, <1>2 DEF MemoryRest

LEMMA RecallKeepsRest ==
  ASSUME MemoryInv, MemoryRest, NEW c \in MemoryCalls,
         recall_prior(c) \/ recall_read(c) \/ recall_windows(c)
  PROVE  MemoryRest'
<1>1. UNCHANGED <<entries, windows, known>>
  BY DEF recall_prior, recall_read, recall_windows
<1>2. DOMAIN recall = MemoryCalls
  BY DEF MemoryInv, MemoryTypes
<1>3. \E r : /\ recall' = [recall EXCEPT ![c] = r]
             /\ r.told \subseteq MemoryCalls \ {c}
             /\ r.pc = "reading" => r.prior \in MemoryCalls \ {c}
  <2>1. CASE recall_prior(c)
    <3>1. PICK p \in Recallable(c) :
            recall' = [recall EXCEPT ![c] = [NoRecall EXCEPT !.pc = "reading", !.prior = p]]
      BY <2>1 DEF recall_prior
    <3> DEFINE r == [NoRecall EXCEPT !.pc = "reading", !.prior = p]
    <3>2. r.told = {} /\ r.prior = p
      BY DEF NoRecall
    <3>3. p \in MemoryCalls \ {c}
      BY DEF Recallable
    <3>4. recall' = [recall EXCEPT ![c] = r]
      BY <3>1
    <3> HIDE DEF r
    <3> QED
      BY <3>2, <3>3, <3>4
  <2>2. ASSUME NEW calls, calls \subseteq MemoryCalls \ {c}, Tell(c, calls)
        PROVE  \E r : /\ recall' = [recall EXCEPT ![c] = r]
                      /\ r.told \subseteq MemoryCalls \ {c}
                      /\ r.pc = "reading" => r.prior \in MemoryCalls \ {c}
    <3> DEFINE r == [NoRecall EXCEPT !.told = calls]
    <3>1. r.told = calls /\ r.pc = "none"
      BY DEF NoRecall
    <3>2. recall' = [recall EXCEPT ![c] = r]
      BY <2>2 DEF Tell
    <3> HIDE DEF r
    <3> QED
      BY <2>2, <3>1, <3>2
  <2>3. CASE recall_read(c)
    <3>1. recall[c].prior \in MemoryCalls \ {c}
      BY <2>3 DEF recall_read, MemoryRest
    <3>2. Tell(c, {}) \/ Tell(c, {recall[c].prior})
      BY <2>3 DEF recall_read
    <3> QED
      BY <2>2, <3>1, <3>2
  <2>4. CASE recall_windows(c)
    <3>1. PICK near : near \subseteq Recallable(c) /\ Tell(c, near)
      BY <2>4 DEF recall_windows
    <3>2. near \subseteq MemoryCalls \ {c}
      BY <3>1 DEF Recallable
    <3> QED
      BY <2>2, <3>1, <3>2
  <2> QED
    BY <2>1, <2>3, <2>4
<1>4. PICK r : /\ recall' = [recall EXCEPT ![c] = r]
               /\ r.told \subseteq MemoryCalls \ {c}
               /\ r.pc = "reading" => r.prior \in MemoryCalls \ {c}
  BY <1>3
<1>5. ASSUME NEW d \in MemoryCalls
      PROVE  /\ recall'[d].told \subseteq MemoryCalls \ {d}
             /\ recall'[d].pc = "reading" => recall'[d].prior \in MemoryCalls \ {d}
  <2>1. CASE d = c
    <3>1. recall'[d] = r
      BY <1>2, <1>4, <2>1
    <3> QED
      BY <1>4, <2>1, <3>1
  <2>2. CASE d # c
    <3>1. recall'[d] = recall[d]
      BY <1>2, <1>4, <2>2
    <3> QED
      BY <3>1 DEF MemoryRest
  <2> QED
    BY <2>1, <2>2
<1> QED
  BY <1>1, <1>5 DEF MemoryRest

\* A window ends with the newest transcript of its call.
LEMMA MaintainKeepsRest ==
  ASSUME MemoryInv, MemoryRest, maintain_memory_chunks
  PROVE  MemoryRest'
<1> DEFINE c == CallOf(work.entry)
           own == {e \in DOMAIN entries : CallOf(e) = c}
           newest == CHOOSE e \in own : \A d \in own : d =< e
<1>1. /\ UNCHANGED <<entries, known, recall>>
      /\ windows' = windows \/ windows' = windows \cup {[call |-> c, last |-> newest]}
      /\ work.pc = "maintain"
  BY DEF maintain_memory_chunks
<1>2. Len(entries) \in Nat /\ DOMAIN entries = 1..Len(entries) /\ work.entry \in 1..Len(entries)
      /\ c \in MemoryCalls
  <2>1. work # NoWork
    BY <1>1 DEF NoWork
  <2>2. DOMAIN entries = 1..Len(entries)
    BY DEF MemoryInv, MemoryTypes
  <2> QED
    BY <2>1, <2>2, MemoryTyped
<1>3. own \subseteq 1..Len(entries) /\ own # {}
  BY <1>2
<1>4. newest \in own
  <2> HIDE DEF own
  <2>1. \E e \in own : \A d \in own : d =< e
    BY <1>2, <1>3, LargestNumber
  <2> QED
    BY <2>1
<1>5. newest \in 1..Len(entries)
  BY <1>3, <1>4
<1> HIDE DEF newest, c
<1>6. [call |-> c, last |-> newest] \in [call : MemoryCalls, last : 1..Len(entries)]
  BY <1>2, <1>5
<1>7. windows' \subseteq [call : MemoryCalls, last : 1..Len(entries')]
  BY <1>1, <1>6 DEF MemoryRest
<1> QED
  BY <1>1, <1>7 DEF MemoryRest

LEMMA NextKeepsRest ==
  ASSUME MemoryInv, SaidInv, MemoryRest, scope \in Scopes, [Next]_vars
  PROVE  MemoryRest'
<1>1. scope.calls \subseteq MemoryCalls
  BY ConversationAssumption DEF ScopeType
<1>2. CASE UNCHANGED <<entries, windows, known, recall>>
  BY <1>2 DEF MemoryRest
<1>3. CASE \E c \in scope.calls : CallRemembers(c)
  <2>1. PICK c \in MemoryCalls : CallRemembers(c)
    BY <1>1, <1>3
  <2>2. CASE \E r \in unsaved : transcript_saved(r)
    <3>1. PICK r \in unsaved : transcript_saved(r)
      BY <2>2
    <3>2. entries' = Append(entries, r) /\ UNCHANGED <<windows, known, recall>>
      BY <3>1 DEF transcript_saved
    <3>3. entries \in Seq(Transcripts) /\ r \in Transcripts
      BY SaidTyped DEF MemoryInv, MemoryTypes
    <3>4. Len(entries') = Len(entries) + 1 /\ Len(entries) \in Nat
      BY <3>2, <3>3
    <3> QED
      BY <3>2, <3>4, EntriesGrow
  <2>3. CASE \/ \E speaker \in {"You", "Aura"} : transcript_said(c, speaker)
             \/ \E r \in unsaved : transcript_delayed(r)
    BY <1>2, <2>3 DEF transcript_said, transcript_delayed
  <2> QED
    BY <2>1, <2>2, <2>3, CallKeepsRest, RecallKeepsRest DEF CallRemembers
<1>4. CASE PageCallStep
  <2>1. \/ UNCHANGED memoryVars
        \/ \E a \in MemoryCalls : call_starts(a) \/ call_ends(a)
    BY <1>1, <1>4 DEF PageCallStep, Remembers
  <2> QED
    BY <1>2, <2>1, CallKeepsRest DEF memoryVars
<1>5. CASE MemoryStep
  <2>1. CASE RememberStep
    <3>1. CASE maintain_memory_chunks
      BY <3>1, MaintainKeepsRest
    <3>2. CASE ~maintain_memory_chunks
      BY <1>2, <2>1, <3>2
         DEF RememberStep, enqueue_enrichment, classify_memory_events, apply_fact_events,
             enrichment_preempted
    <3> QED
      BY <3>1, <3>2
  <2>2. CASE UserForgets(scope.forgets)
    BY <1>2, <2>2 DEF UserForgets, delete_memories
  <2>3. CASE \E c \in Elsewhere : call_starts(c) \/ call_ends(c)
    <3>1. Elsewhere \subseteq MemoryCalls
      BY <1>1 DEF Elsewhere
    <3> QED
      BY <2>3, <3>1, CallKeepsRest
  <2> QED
    BY <1>3, <1>5, <2>1, <2>2, <2>3 DEF MemoryStep
<1>6. CASE ConversationStep \/ PageAlone \/ UNCHANGED vars
  BY <1>2, <1>6 DEF ConversationStep, PageAlone, vars, memoryVars
<1> QED
  BY <1>4, <1>5, <1>6 DEF Next

\* The types of what is remembered, for any calls, facts and transcripts.
THEOREM MemoryTypeCorrect == Spec => []MemoryTypeOK
<1>1. Init => MemoryRest
  BY DEF Init, MemoryInit, MemoryRest, NoRecall
<1>2. MemoryInv /\ SaidInv /\ scope \in Scopes /\ MemoryRest /\ [Next]_vars => MemoryRest'
  BY NextKeepsRest
<1>3. MemoryInv /\ SaidInv /\ MemoryRest => MemoryTypeOK
  <2> SUFFICES ASSUME MemoryInv, SaidInv, MemoryRest
               PROVE  MemoryTypeOK
    OBVIOUS
  <2> DEFINE own == DOMAIN entries
  <2>1. own = 1..Len(entries)
    BY DEF MemoryInv, MemoryTypes
  <2>2. /\ unqueued \in Seq(own) /\ lane \in Seq(own)
    <3>1. /\ unqueued \in Seq(Entries) /\ lane \in Seq(Entries)
          /\ \A i \in 1..Len(unqueued) : unqueued[i] \in own
          /\ \A i \in 1..Len(lane) : lane[i] \in own
      BY <2>1, MemoryTyped DEF MemoryInv, MemoryTypes
    <3> HIDE DEF own
    <3>2. /\ unqueued \in [1..Len(unqueued) -> own] /\ Len(unqueued) \in Nat
          /\ lane \in [1..Len(lane) -> own] /\ Len(lane) \in Nat
      BY <3>1
    <3> QED
      BY <3>2
  <2>3. work.pc \in {"idle", "classified", "maintain"}
    BY DEF MemoryInv, MemoryTypes, NoWork
  <2>4. ASSUME NEW f \in Facts, table[f] # NoRow
        PROVE  table[f].status \in {"active", "inactive"} /\ table[f].source \in own
    <3>1. table[f] \in [status : {"active", "inactive"}, source : Entries]
      BY <2>4 DEF MemoryInv, MemoryTypes, FactRows
    <3>2. table[f].status \in {"active", "inactive"} /\ table[f].source # 0
      BY <3>1, MemoryAssumption DEF Entries
    <3>3. table[f].source \in 1..Len(entries)
      BY <3>2, MemoryTyped
    <3> QED
      BY <2>1, <3>2, <3>3
  <2>5. /\ called \in [MemoryCalls -> {"none", "live", "ended", "deleted", "purged"}]
        /\ accepted \in 0..MaxEntries /\ unsaved \subseteq Transcripts
        /\ entries \in Seq(Transcripts)
    BY DEF MemoryInv, MemoryTypes, SaidInv, CallStates
  <2>6. /\ windows \subseteq [call : MemoryCalls, last : own]
        /\ known \in [MemoryCalls -> SUBSET Facts]
        /\ \A c \in MemoryCalls : recall[c].told \subseteq MemoryCalls \ {c}
    BY <2>1 DEF MemoryRest
  <2> QED
    BY <2>2, <2>3, <2>4, <2>5, <2>6 DEF MemoryTypeOK
<1> QED
  BY <1>1, <1>2, <1>3, MemoryAlwaysSound, PTL DEF Spec

(***************************************************************************)
(* The types of the page, and its slots.                                   *)
(***************************************************************************)
Runs == {"current", "stale"}
Sessions == {"none", "live", "ended", "refused"}
Promises == {"pending", "timed out", "settled"}
TornRows(n) == [client : 1..n, logout : BOOLEAN, fresh : 0..MaxLogins]
CallRows(n) == [client : 1..n, link : Links, promise : Promises, session : Sessions]

\* The clients: a login and a teardown are bound to make one each.
ClientsOK ==
  /\ token \in BOOLEAN /\ isConnecting \in BOOLEAN /\ logoutInProgress \in BOOLEAN
  /\ logins \in 0..MaxLogins /\ initializing \in SUBSET Runs
  /\ made \in Nat /\ client \in 0..made
  /\ teardowns \in Seq(TornRows(made))
  /\ made + Len(teardowns) + Cardinality(initializing) =< MaxClients

\* The calls, and the one that is shown.
CallsOK == attempts \in Seq(CallRows(made)) /\ callId \in {0} \cup Attempts

\* What the page shows of it: a poll that is being read has an answer.
ShownOK ==
  /\ status \in {"none", "active", "ending", "ended"}
  /\ poll \in [pc : {"off", "timer", "fetching", "reading"}, answer : {"none", "active", "ended"}]
  /\ poll.pc = "reading" => poll.answer # "none"
  /\ late \subseteq {"active", "ended"} /\ raced \subseteq {"client", "answer"}

\* No more calls than slots.
Live == {a \in Attempts : attempts[a].session = "live"}
SlotsOK == others \in 0..SlotLimit /\ Leased =< SlotLimit

LEMMA RunsCounted ==
  /\ Cardinality({}) = 0 /\ Cardinality({"current"}) = 1 /\ Cardinality({"stale"}) = 1
  /\ Cardinality({"current", "stale"}) = 2
  /\ \A r \in SUBSET Runs : r \in {{}, {"current"}, {"stale"}, {"current", "stale"}}
<1>1. Cardinality({}) = 0 /\ Cardinality({"current"}) = 1 /\ Cardinality({"stale"}) = 1
  BY FS_EmptySet, FS_Singleton
<1>2. Cardinality({"current", "stale"}) = 2
  <2>1. {"current", "stale"} = {"current"} \cup {"stale"} /\ "stale" \notin {"current"}
    OBVIOUS
  <2>2. IsFiniteSet({"current"})
    BY FS_Singleton
  <2>3. Cardinality({"current"} \cup {"stale"}) = Cardinality({"current"}) + 1
    BY <2>1, <2>2, FS_AddElement
  <2> QED
    BY <1>1, <2>1, <2>3
<1>3. ASSUME NEW r \in SUBSET Runs
      PROVE  r \in {{}, {"current"}, {"stale"}, {"current", "stale"}}
  BY DEF Runs
<1> QED
  BY <1>1, <1>2, <1>3

LEMMA RunsChange ==
  ASSUME NEW r \in SUBSET Runs
  PROVE  /\ Cardinality(r) \in Nat
         /\ Cardinality(r \cup {"current"}) =< Cardinality(r) + 1
         /\ "current" \in r => Cardinality(r \ {"current"}) = Cardinality(r) - 1
         /\ "stale" \in r => Cardinality(r \ {"stale"}) = Cardinality(r) - 1
         /\ Cardinality(IF r = {} THEN {} ELSE {"stale"}) =< Cardinality(r)
         /\ r \cup {"current"} \in SUBSET Runs
<1>1. r \cup {"current"} \in SUBSET Runs
  BY DEF Runs
<1>2. CASE r = {}
  <2>1. r \cup {"current"} = {"current"}
    BY <1>2
  <2> QED
    BY <1>1, <1>2, <2>1, RunsCounted
<1>3. CASE r = {"current"}
  <2>1. r \cup {"current"} = {"current"} /\ r \ {"current"} = {} /\ r # {} /\ "stale" \notin r
    BY <1>3
  <2> QED
    BY <1>1, <1>3, <2>1, RunsCounted
<1>4. CASE r = {"stale"}
  <2>1. /\ r \cup {"current"} = {"current", "stale"} /\ r \ {"stale"} = {} /\ r # {}
        /\ "current" \notin r
    BY <1>4
  <2> QED
    BY <1>1, <1>4, <2>1, RunsCounted
<1>5. CASE r = {"current", "stale"}
  <2>1. /\ r \cup {"current"} = r /\ r \ {"current"} = {"stale"} /\ r \ {"stale"} = {"current"}
        /\ r # {}
    BY <1>5
  <2> QED
    BY <1>1, <1>5, <2>1, RunsCounted
<1> QED
  BY <1>2, <1>3, <1>4, <1>5, RunsCounted

LEMMA RowsGrow ==
  ASSUME NEW n \in Nat, NEW m \in Nat, n =< m
  PROVE  /\ \A s \in Seq(CallRows(n)) : s \in Seq(CallRows(m))
         /\ \A s \in Seq(TornRows(n)) :
              s \in Seq(TornRows(m))
<1>1. 1..n \subseteq 1..m
  OBVIOUS
<1>2. CallRows(n) \subseteq CallRows(m)
  BY <1>1 DEF CallRows
<1>3. TornRows(n) \subseteq TornRows(m)
  BY <1>1 DEF TornRows
<1>4. ASSUME NEW S, NEW T, S \subseteq T, NEW s \in Seq(S)
      PROVE  s \in Seq(T)
  <2>1. s \in [1..Len(s) -> T] /\ Len(s) \in Nat
    BY <1>4
  <2> QED
    BY <2>1
<1> QED
  BY <1>2, <1>3, <1>4

\* The steps of the page, and those of its calls, as they change its variables.
CallMoves(a) ==
  \/ reject_over_capacity(a) \/ bot(a) \/ connected(a) \/ call_ready(a) \/ start_failed(a)
  \/ withConnectionDeadline(a) \/ link_lost(a) \/ session_ends(a)

PageMoves ==
  \/ /\ \/ handleLogin \/ startCall \/ startNewCall \/ initializeClient \/ OtherCalls
        \/ \E a \in Attempts : CallMoves(a)
     /\ pollEffect
  \/ disconnect \/ startNewCallActive \/ handleLogout \/ logout_timeout
  \/ \E i \in DOMAIN teardowns : disconnectEnds(i)
  \/ refreshTerminalState \/ UNCHANGED pageVars

LEMMA NextMovesPage ==
  ASSUME [Next]_vars
  PROVE  PageMoves
<1>1. CASE PageCallStep
  BY <1>1 DEF PageCallStep, PageMoves, CallMoves
<1>2. CASE PageAlone
  BY <1>2 DEF PageAlone, PageStep, PageContinues, PageMoves, CallMoves
<1>3. CASE ConversationStep \/ MemoryStep \/ UNCHANGED vars
  BY <1>3 DEF ConversationStep, MemoryStep, vars, PageMoves
<1> QED
  BY <1>1, <1>2, <1>3 DEF Next

LEMMA CallMovesKeepPage ==
  ASSUME NEW a, CallMoves(a)
  PROVE  pageUnchanged /\ isConnecting' \in {isConnecting, FALSE, isConnecting /\ attempts[a].client # client}
<1> QED
  BY DEF CallMoves, reject_over_capacity, bot, connected, call_ready, start_failed,
         withConnectionDeadline, link_lost, session_ends

LEMMA ClientsTyped ==
  ASSUME ClientsOK
  PROVE  /\ Cardinality(initializing) \in Nat /\ Len(teardowns) \in Nat /\ made \in Nat
         /\ MaxClients \in Nat /\ client \in Nat
<1>1. Cardinality(initializing) \in Nat
  <2>1. initializing \in SUBSET Runs
    BY DEF ClientsOK
  <2> QED
    BY <2>1, RunsChange
<1>2. Len(teardowns) \in Nat
  <2>1. teardowns \in Seq(TornRows(made))
    BY DEF ClientsOK
  <2> DEFINE Rows == TornRows(made)
  <2> HIDE DEF Rows
  <2>2. teardowns \in Seq(Rows)
    BY <2>1 DEF Rows
  <2> QED
    BY <2>2
<1>3. made \in Nat /\ client \in Nat
  <2>1. made \in Nat /\ client \in 0..made
    BY DEF ClientsOK
  <2> QED
    BY <2>1
<1> QED
  BY <1>1, <1>2, <1>3, PageAssumption

LEMMA LoggedOutKeepsClients ==
  ASSUME ClientsOK, LoggedOut, UNCHANGED <<logins, made>>,
         teardowns' \in Seq(TornRows(made)),
         Len(teardowns') =< Len(teardowns)
  PROVE  ClientsOK'
<1>1. /\ initializing' = IF initializing = {} THEN {} ELSE {"stale"}
      /\ token' = FALSE /\ logoutInProgress' = FALSE /\ isConnecting' = FALSE /\ client' = 0
  BY DEF LoggedOut
<1>2. Cardinality(initializing') =< Cardinality(initializing) /\ Cardinality(initializing') \in Nat
  BY <1>1, RunsChange DEF ClientsOK, Runs
<1>3. made' + Len(teardowns') + Cardinality(initializing') =< MaxClients
  <2>1. Len(teardowns') \in Nat
    OBVIOUS
  <2>2. made + Len(teardowns) + Cardinality(initializing) =< MaxClients
    BY DEF ClientsOK
  <2> QED
    BY <1>2, <2>1, <2>2, ClientsTyped
<1>4. initializing' \in SUBSET Runs
  BY <1>1 DEF Runs
<1>5. token' \in BOOLEAN /\ isConnecting' \in BOOLEAN /\ logoutInProgress' \in BOOLEAN
  BY <1>1
<1>6. made' \in Nat /\ client' \in 0..made' /\ logins' \in 0..MaxLogins
  <2>1. logins \in 0..MaxLogins
    BY DEF ClientsOK
  <2> QED
    BY <1>1, <2>1, ClientsTyped
<1>7. teardowns' \in Seq(TornRows(made'))
  OBVIOUS
<1> QED
  BY <1>3, <1>4, <1>5, <1>6, <1>7 DEF ClientsOK

LEMMA TeardownBeginsKeepsClients ==
  ASSUME ClientsOK, NEW logout \in BOOLEAN, NEW fresh \in 0..MaxLogins,
         disconnectBegins(logout, fresh), client # 0,
         logoutInProgress' \in {logoutInProgress, TRUE},
         UNCHANGED <<token, logins, initializing, client, made>>
  PROVE  ClientsOK'
<1> DEFINE row == [client |-> client, logout |-> logout, fresh |-> fresh]
<1>1. /\ teardowns' = Append(teardowns, row) /\ isConnecting' = FALSE
      /\ made + Len(teardowns) + Cardinality(initializing) < MaxClients
  BY DEF disconnectBegins, Room
<1>2. row \in TornRows(made)
  <2>1. client \in 1..made
    BY DEF ClientsOK
  <2> QED
    BY <2>1 DEF TornRows
<1> HIDE DEF row
<1>3. /\ teardowns' \in Seq(TornRows(made))
      /\ Len(teardowns') = Len(teardowns) + 1
  BY <1>1, <1>2 DEF ClientsOK
<1>4. made' + Len(teardowns') + Cardinality(initializing') =< MaxClients
  BY <1>1, <1>3, ClientsTyped
<1>5. logoutInProgress' \in BOOLEAN
  BY DEF ClientsOK
<1> QED
  BY <1>1, <1>3, <1>4, <1>5 DEF ClientsOK

\* A client is made, for a login or after a teardown.
LEMMA NewClientKeepsClients ==
  ASSUME ClientsOK, SetNewClient, UNCHANGED <<token, isConnecting, logoutInProgress, logins>>,
         initializing' \in SUBSET Runs,
         teardowns' \in Seq(TornRows(made)),
         Len(teardowns') + Cardinality(initializing')
           = Len(teardowns) + Cardinality(initializing) - 1
  PROVE  ClientsOK'
<1>1. made' = made + 1 /\ client' = made + 1 /\ made \in Nat
  BY DEF SetNewClient, ClientsOK
<1>2. made' \in Nat /\ client' \in 0..made'
  BY <1>1
<1>3. teardowns' \in Seq(TornRows(made'))
  <2>1. made =< made'
    BY <1>1
  <2> QED
    BY <1>1, <1>2, <2>1, RowsGrow
<1>4. made' + Len(teardowns') + Cardinality(initializing') =< MaxClients
  <2>1. Cardinality(initializing') \in Nat
    BY RunsChange
  <2>3. Len(teardowns') \in Nat
    <3> DEFINE Rows == TornRows(made)
    <3> HIDE DEF Rows
    <3>1. teardowns' \in Seq(Rows)
      BY DEF Rows
    <3> QED
      BY <3>1
  <2>2. made + Len(teardowns) + Cardinality(initializing) =< MaxClients
    BY DEF ClientsOK
  <2> QED
    BY <1>1, <2>1, <2>2, <2>3, ClientsTyped
<1> QED
  BY <1>2, <1>3, <1>4 DEF ClientsOK

LEMMA MovesKeepClients ==
  ASSUME ClientsOK, PageMoves
  PROVE  ClientsOK'
<1>1. CASE handleLogin
  <2>1. /\ token' = TRUE /\ logins' = logins + 1 /\ logins < MaxLogins
        /\ initializing' = initializing \cup {"current"}
        /\ made + Len(teardowns) + Cardinality(initializing) < MaxClients
        /\ UNCHANGED <<client, made, isConnecting, teardowns, logoutInProgress>>
    BY <1>1 DEF handleLogin, Room
  <2>2. logins' \in 0..MaxLogins
    BY <2>1, PageAssumption DEF ClientsOK
  <2>3. /\ Cardinality(initializing') =< Cardinality(initializing) + 1
        /\ initializing' \in SUBSET Runs
    BY <2>1, RunsChange DEF ClientsOK
  <2>4. Cardinality(initializing') \in Nat
    BY <2>3, RunsChange
  <2>5. made' + Len(teardowns') + Cardinality(initializing') =< MaxClients
    BY <2>1, <2>3, <2>4, ClientsTyped
  <2> QED
    BY <2>1, <2>2, <2>3, <2>5 DEF ClientsOK
<1>2. CASE initializeClient
  <2>1. UNCHANGED <<token, logins, isConnecting, teardowns, logoutInProgress>>
    BY <1>2 DEF initializeClient
  <2>2. CASE "current" \in initializing /\ SetNewClient
             /\ initializing' = initializing \ {"current"}
    <3>1. /\ Cardinality(initializing') = Cardinality(initializing) - 1
          /\ initializing' \in SUBSET Runs
      BY <2>2, RunsChange DEF ClientsOK
    <3>2. /\ teardowns' \in Seq(TornRows(made))
          /\ teardowns' = teardowns
      BY <2>1 DEF ClientsOK
    <3>3. Len(teardowns') + Cardinality(initializing')
            = Len(teardowns) + Cardinality(initializing) - 1
      BY <3>1, <3>2, ClientsTyped
    <3> QED
      BY <2>1, <2>2, <3>1, <3>2, <3>3, NewClientKeepsClients
  <2>3. CASE "stale" \in initializing /\ initializing' = initializing \ {"stale"}
             /\ UNCHANGED <<client, made>>
    <3>1. /\ Cardinality(initializing') = Cardinality(initializing) - 1
          /\ initializing' \in SUBSET Runs
      BY <2>3, RunsChange DEF ClientsOK
    <3>2. made' + Len(teardowns') + Cardinality(initializing') =< MaxClients
      <4>1. made + Len(teardowns) + Cardinality(initializing) =< MaxClients
        BY DEF ClientsOK
      <4> QED
        BY <2>1, <2>3, <3>1, <4>1, ClientsTyped
    <3> QED
      BY <2>1, <2>3, <3>1, <3>2 DEF ClientsOK
  <2> QED
    BY <1>2, <2>2, <2>3 DEF initializeClient
<1>3. CASE disconnect \/ startNewCallActive
  <2>1. 0 \in 0..MaxLogins /\ logins \in 0..MaxLogins
    BY PageAssumption DEF ClientsOK
  <2> QED
    BY <1>3, <2>1, TeardownBeginsKeepsClients DEF disconnect, startNewCallActive
<1>4. CASE handleLogout
  <2>1. CASE client = 0
    <3>1. LoggedOut /\ UNCHANGED <<teardowns, logins, made>>
      BY <1>4, <2>1 DEF handleLogout
    <3>2. /\ teardowns' \in Seq(TornRows(made))
          /\ Len(teardowns') =< Len(teardowns)
      BY <3>1, ClientsTyped DEF ClientsOK
    <3> QED
      BY <3>1, <3>2, LoggedOutKeepsClients
  <2>2. CASE client # 0
    <3>1. /\ disconnectBegins(TRUE, 0) /\ logoutInProgress' = TRUE
          /\ UNCHANGED <<token, logins, initializing, client, made>>
      BY <1>4, <2>2 DEF handleLogout
    <3>2. 0 \in 0..MaxLogins
      BY PageAssumption
    <3> QED
      BY <2>2, <3>1, <3>2, TeardownBeginsKeepsClients
  <2> QED
    BY <2>1, <2>2
<1>5. CASE logout_timeout
  <2>1. /\ LoggedOut /\ UNCHANGED <<logins, made>>
        /\ teardowns' = [i \in DOMAIN teardowns |-> [teardowns[i] EXCEPT !.logout = FALSE]]
    BY <1>5 DEF logout_timeout
  <2>2. /\ teardowns' \in Seq(TornRows(made))
        /\ Len(teardowns') =< Len(teardowns)
    <3> DEFINE Rows == TornRows(made)
    <3>1. \A t \in Rows : [t EXCEPT !.logout = FALSE] \in Rows
      BY DEF TornRows
    <3>2. teardowns \in Seq(Rows)
      BY DEF ClientsOK
    <3> HIDE DEF Rows
    <3>3. DOMAIN teardowns = 1..Len(teardowns) /\ Len(teardowns) \in Nat
      BY <3>2
    <3>4. \A i \in 1..Len(teardowns) : teardowns[i] \in Rows
      BY <3>2
    <3>5. teardowns' \in [1..Len(teardowns) -> Rows]
      BY <2>1, <3>1, <3>3, <3>4
    <3>6. teardowns' \in Seq(Rows) /\ Len(teardowns') = Len(teardowns)
      BY <3>3, <3>5
    <3> QED
      BY <3>3, <3>6 DEF Rows
  <2> QED
    BY <2>1, <2>2, LoggedOutKeepsClients
<1>6. ASSUME NEW i \in DOMAIN teardowns, disconnectEnds(i)
      PROVE  ClientsOK'
  <2>1. /\ teardowns' = RemoveAt(teardowns, i) /\ UNCHANGED logins
        /\ \/ LoggedOut /\ UNCHANGED made
           \/ /\ SetNewClient
              /\ UNCHANGED <<token, initializing, logoutInProgress, isConnecting>>
    BY <1>6 DEF disconnectEnds
  <2>2. /\ teardowns' \in Seq(TornRows(made))
        /\ Len(teardowns') = Len(teardowns) - 1 /\ Len(teardowns) \in Nat
    <3>1. teardowns \in Seq(TornRows(made))
      BY DEF ClientsOK
    <3>2. i \in 1..Len(teardowns)
      BY <3>1
    <3> DEFINE Rows == TornRows(made)
    <3> HIDE DEF Rows
    <3>3. teardowns \in Seq(Rows)
      BY <3>1 DEF Rows
    <3>4. /\ RemoveAt(teardowns, i) \in Seq(Rows)
          /\ Len(RemoveAt(teardowns, i)) = Len(teardowns) - 1
      BY <3>2, <3>3, RemovalShifts
    <3> QED
      BY <2>1, <3>4, ClientsTyped DEF Rows
  <2>3. CASE LoggedOut /\ UNCHANGED made
    BY <2>1, <2>2, <2>3, LoggedOutKeepsClients
  <2>4. CASE SetNewClient /\ UNCHANGED <<token, initializing, logoutInProgress, isConnecting>>
    <3>1. Len(teardowns') + Cardinality(initializing')
            = Len(teardowns) + Cardinality(initializing) - 1
      BY <2>2, <2>4, ClientsTyped
    <3>2. initializing' \in SUBSET Runs
      BY <2>4 DEF ClientsOK
    <3> QED
      BY <2>1, <2>2, <2>4, <3>1, <3>2, NewClientKeepsClients
  <2> QED
    BY <2>1, <2>3, <2>4
<1>7. ASSUME NEW a, CallMoves(a)
      PROVE  ClientsOK'
  <2>1. UNCHANGED <<token, logins, initializing, client, made, teardowns, logoutInProgress>>
    BY <1>7, CallMovesKeepPage DEF pageUnchanged
  <2>2. isConnecting' \in BOOLEAN
    BY <1>7, CallMovesKeepPage DEF ClientsOK
  <2> QED
    BY <2>1, <2>2 DEF ClientsOK
<1>8. CASE startCall
  BY <1>8 DEF startCall, ClientsOK
<1>9. CASE startNewCall
  BY <1>9 DEF startNewCall, pageUnchanged, ClientsOK
<1>10. CASE OtherCalls
  BY <1>10 DEF OtherCalls, ClientsOK
<1>11. CASE refreshTerminalState
  BY <1>11 DEF refreshTerminalState, ClientsOK
<1>12. CASE UNCHANGED pageVars
  BY <1>12 DEF pageVars, ClientsOK
<1> QED
  BY <1>1, <1>2, <1>3, <1>4, <1>5, <1>6, <1>7, <1>8, <1>9, <1>10, <1>11, <1>12 DEF PageMoves

LEMMA MadeGrows ==
  ASSUME ClientsOK, PageMoves
  PROVE  made' \in {made, made + 1} /\ made =< made' /\ made' \in Nat
<1>1. made' \in {made, made + 1}
  <2>1. CASE \E a \in Attempts : CallMoves(a)
    BY <2>1, CallMovesKeepPage DEF pageUnchanged
  <2>2. CASE \E i \in DOMAIN teardowns : disconnectEnds(i)
    BY <2>2 DEF disconnectEnds, SetNewClient
  <2>3. CASE \/ handleLogin \/ startCall \/ startNewCall \/ initializeClient \/ OtherCalls
             \/ disconnect \/ startNewCallActive \/ handleLogout \/ logout_timeout
             \/ refreshTerminalState \/ UNCHANGED pageVars
    BY <2>3 DEF handleLogin, startCall, startNewCall, startNewCallActive, pageUnchanged,
                initializeClient, SetNewClient, OtherCalls, disconnect, handleLogout,
                logout_timeout, refreshTerminalState, pageVars
  <2> QED
    BY <2>1, <2>2, <2>3 DEF PageMoves
<1> QED
  BY <1>1, ClientsTyped

\* What a step of a call changes in its row.
LEMMA CallMoveChanges ==
  ASSUME NEW a \in Attempts, CallMoves(a), CallsOK
  PROVE  \/ UNCHANGED attempts
         \/ \E l \in Links, p \in Promises, z \in Sessions :
              attempts' = [attempts EXCEPT ![a] = [attempts[a] EXCEPT !.link = l, !.promise = p,
                                                                     !.session = z]]
<1> DEFINE own == attempts[a]
           to(l, p, z) == [own EXCEPT !.link = l, !.promise = p, !.session = z]
<1>1. own \in CallRows(made) /\ DOMAIN attempts = 1..Len(attempts)
  BY DEF CallsOK, Attempts
<1>2. /\ own.link \in Links /\ own.promise \in Promises /\ own.session \in Sessions
  BY <1>1 DEF CallRows
<1>3. /\ \A l : [own EXCEPT !.link = l] = to(l, own.promise, own.session)
      /\ \A p : [own EXCEPT !.promise = p] = to(own.link, p, own.session)
      /\ \A z : [own EXCEPT !.session = z] = to(own.link, own.promise, z)
      /\ \A l, p : [own EXCEPT !.link = l, !.promise = p] = to(l, p, own.session)
      /\ \A l, z : [own EXCEPT !.session = z, !.link = l] = to(l, own.promise, z)
      /\ \A l, p : [own EXCEPT !.promise = p, !.link = l] = to(l, p, own.session)
  BY <1>1 DEF CallRows
<1> DEFINE Changed(l, p, z) == attempts' = [attempts EXCEPT ![a] = to(l, p, z)]
<1>4. ASSUME NEW l \in Links, NEW p \in Promises, NEW z \in Sessions, Changed(l, p, z)
      PROVE  \E l1 \in Links, p1 \in Promises, z1 \in Sessions : Changed(l1, p1, z1)
  BY <1>4
<1>5. /\ {"connecting", "down", "up"} \subseteq Links /\ {"timed out", "settled"} \subseteq Promises
      /\ {"live", "ended", "refused"} \subseteq Sessions
  BY DEF Links, Promises, Sessions
<1>6. CASE reject_over_capacity(a)
  <2>1. \E l \in {"connecting", "down"} : attempts' = [attempts EXCEPT ![a].link = l]
    BY <1>6 DEF reject_over_capacity
  <2>2. \E l \in {"connecting", "down"} : Changed(l, own.promise, own.session)
    BY <1>3, <2>1
  <2> QED
    BY <1>2, <1>5, <2>2
<1>7. CASE bot(a)
  <2>1. \/ attempts' = [attempts EXCEPT ![a].session = "live"]
        \/ attempts' = [attempts EXCEPT ![a].session = "refused", ![a].link = "down"]
    BY <1>7 DEF bot
  <2>2. [attempts EXCEPT ![a].session = "refused", ![a].link = "down"]
          = [attempts EXCEPT ![a] = to("down", own.promise, "refused")]
    <3>1. [attempts EXCEPT ![a].session = "refused", ![a].link = "down"]
            = [attempts EXCEPT ![a] = [own EXCEPT !.session = "refused", !.link = "down"]]
      OBVIOUS
    <3> QED
      BY <1>3, <3>1
  <2>3. Changed(own.link, own.promise, "live") \/ Changed("down", own.promise, "refused")
    BY <1>3, <2>1, <2>2
  <2> QED
    BY <1>2, <1>5, <2>3
<1>8. CASE connected(a)
  <2>1. attempts' = [attempts EXCEPT ![a].link = "up", ![a].promise = "settled"]
    BY <1>8 DEF connected
  <2>2. attempts' = [attempts EXCEPT ![a] = [own EXCEPT !.link = "up", !.promise = "settled"]]
    BY <2>1
  <2>3. Changed("up", "settled", own.session)
    BY <1>3, <2>2
  <2> QED
    BY <1>2, <1>5, <2>3
<1>9. CASE start_failed(a)
  <2>1. attempts' = [attempts EXCEPT ![a].promise = "settled"]
    BY <1>9 DEF start_failed
  <2>2. Changed(own.link, "settled", own.session)
    BY <1>3, <2>1
  <2> QED
    BY <1>2, <1>5, <2>2
<1>10. CASE withConnectionDeadline(a)
  <2>1. attempts' = [attempts EXCEPT ![a].promise = "timed out", ![a].link = "down"]
    BY <1>10 DEF withConnectionDeadline
  <2>2. attempts' = [attempts EXCEPT ![a] = [own EXCEPT !.promise = "timed out", !.link = "down"]]
    BY <2>1
  <2>3. Changed("down", "timed out", own.session)
    BY <1>3, <2>2
  <2> QED
    BY <1>2, <1>5, <2>3
<1>11. CASE link_lost(a)
  <2>1. attempts' = [attempts EXCEPT ![a].link = "down"]
    BY <1>11 DEF link_lost
  <2>2. Changed("down", own.promise, own.session)
    BY <1>3, <2>1
  <2> QED
    BY <1>2, <1>5, <2>2
<1>12. CASE session_ends(a)
  <2>1. attempts' = [attempts EXCEPT ![a].session = "ended"]
    BY <1>12 DEF session_ends
  <2>2. Changed(own.link, own.promise, "ended")
    BY <1>3, <2>1
  <2> QED
    BY <1>2, <1>5, <2>2
<1>13. CASE call_ready(a)
  BY <1>13 DEF call_ready
<1> QED
  BY <1>6, <1>7, <1>8, <1>9, <1>10, <1>11, <1>12, <1>13 DEF CallMoves

\* The row of a call that is torn down.
Down(row) == [row EXCEPT !.link = "down"]

\* What a step does to the calls: one is started, one changes, or all of a client go down.
LEMMA CallsChange ==
  ASSUME PageMoves, CallsOK
  PROVE  \/ UNCHANGED attempts
         \/ /\ startCall
            /\ attempts' = Append(attempts, [client |-> client, link |-> "posting",
                                             promise |-> "pending", session |-> "none"])
         \/ \E a \in Attempts :
              /\ CallMoves(a)
              /\ \E l \in Links, p \in Promises, z \in Sessions :
                   attempts' = [attempts EXCEPT ![a] = [attempts[a] EXCEPT !.link = l,
                                                                !.promise = p, !.session = z]]
         \/ \E n : attempts' = [a \in Attempts |-> IF attempts[a].client = n THEN Down(attempts[a])
                                                   ELSE attempts[a]]
<1>1. CASE \E a \in Attempts : CallMoves(a)
  BY <1>1, CallMoveChanges
<1>2. CASE \E i \in DOMAIN teardowns : disconnectEnds(i)
  BY <1>2 DEF disconnectEnds, Down
<1>3. CASE startCall
  BY <1>3 DEF startCall
<1>4. CASE \/ handleLogin \/ startNewCall \/ initializeClient \/ OtherCalls
           \/ disconnect \/ startNewCallActive \/ handleLogout \/ logout_timeout
           \/ refreshTerminalState \/ UNCHANGED pageVars
  BY <1>4 DEF handleLogin, startNewCall, startNewCallActive, initializeClient, OtherCalls,
              disconnect, handleLogout, logout_timeout, refreshTerminalState, pageVars
<1> QED
  BY <1>1, <1>2, <1>3, <1>4 DEF PageMoves

\* The shown call is the one it was, one that is ready, or none.
LEMMA ShownCallChanges ==
  ASSUME PageMoves
  PROVE  callId' \in {callId, 0} \cup Attempts
<1>1. CASE \E a \in Attempts : CallMoves(a)
  <2>1. PICK a \in Attempts : CallMoves(a)
    BY <1>1
  <2> QED
    BY <2>1 DEF CallMoves, reject_over_capacity, bot, connected, call_ready, start_failed,
                withConnectionDeadline, link_lost, session_ends
<1>2. CASE \E i \in DOMAIN teardowns : disconnectEnds(i)
  BY <1>2 DEF disconnectEnds, LoggedOut, NothingShown
<1>3. CASE \/ handleLogin \/ startCall \/ startNewCall \/ initializeClient \/ OtherCalls
           \/ disconnect \/ startNewCallActive \/ handleLogout \/ logout_timeout
           \/ refreshTerminalState \/ UNCHANGED pageVars
  BY <1>3 DEF handleLogin, startCall, startNewCall, startNewCallActive, NothingShown,
              initializeClient, OtherCalls, disconnect, handleLogout, LoggedOut,
              logout_timeout, refreshTerminalState, pageVars
<1> QED
  BY <1>1, <1>2, <1>3 DEF PageMoves

LEMMA MovesKeepCalls ==
  ASSUME ClientsOK, CallsOK, PageMoves
  PROVE  CallsOK' /\ Attempts \subseteq Attempts'
<1> DEFINE Rows == CallRows(made')
<1>1. attempts \in Seq(CallRows(made)) /\ callId \in {0} \cup Attempts
  BY DEF CallsOK
<1>2. attempts \in Seq(Rows)
  BY <1>1, MadeGrows, RowsGrow, ClientsTyped
<1>3. attempts' \in Seq(Rows) /\ Len(attempts) =< Len(attempts')
  <2>1. CASE UNCHANGED attempts
    <3>1. Len(attempts) \in Nat
      BY <1>1
    <3> QED
      BY <1>2, <2>1, <3>1
  <2>2. CASE startCall /\ attempts' = Append(attempts, [client |-> client, link |-> "posting",
                                             promise |-> "pending", session |-> "none"])
    <3> DEFINE row == [client |-> client, link |-> "posting", promise |-> "pending",
                       session |-> "none"]
    <3>1. client \in 1..made'
      <4>1. client # 0 /\ client \in 0..made
        BY <2>2 DEF startCall, ClientsOK
      <4> QED
        BY <4>1, MadeGrows, ClientsTyped
    <3>2. row \in Rows
      BY <3>1 DEF CallRows, Links, Promises, Sessions
    <3> HIDE DEF row, Rows
    <3>3. attempts' = Append(attempts, row)
      BY <2>2 DEF row
    <3> QED
      BY <1>2, <3>2, <3>3
  <2>3. ASSUME NEW a \in Attempts, NEW l \in Links, NEW p \in Promises, NEW z \in Sessions,
               attempts' = [attempts EXCEPT ![a] = [attempts[a] EXCEPT !.link = l, !.promise = p,
                                                                      !.session = z]]
        PROVE  attempts' \in Seq(Rows) /\ Len(attempts) =< Len(attempts')
    <3> DEFINE row == [attempts[a] EXCEPT !.link = l, !.promise = p, !.session = z]
    <3>1. a \in 1..Len(attempts)
      BY <1>1 DEF Attempts
    <3>2. attempts[a] \in Rows
      BY <1>2, <3>1
    <3>3. row \in Rows
      BY <2>3, <3>2 DEF CallRows
    <3> HIDE DEF row, Rows
    <3>4. attempts' = [attempts EXCEPT ![a] = row]
      BY <2>3 DEF row
    <3> QED
      BY <1>2, <3>1, <3>3, <3>4
  <2>4. ASSUME NEW n, attempts' = [a \in Attempts |-> IF attempts[a].client = n
                                                     THEN Down(attempts[a]) ELSE attempts[a]]
        PROVE  attempts' \in Seq(Rows) /\ Len(attempts) =< Len(attempts')
    <3>1. \A row \in Rows : Down(row) \in Rows
      BY DEF CallRows, Down, Links
    <3> HIDE DEF Rows
    <3>2. Attempts = 1..Len(attempts) /\ Len(attempts) \in Nat
      BY <1>2 DEF Attempts
    <3>3. \A a \in 1..Len(attempts) : attempts[a] \in Rows
      BY <1>2
    <3>4. attempts' \in [1..Len(attempts) -> Rows]
      BY <2>4, <3>1, <3>2, <3>3
    <3> QED
      BY <3>2, <3>4
  <2> HIDE DEF Rows
  <2> QED
    BY <2>1, <2>2, <2>3, <2>4, CallsChange
<1> HIDE DEF Rows
<1>4. Attempts \subseteq Attempts'
  <2>1. Attempts = 1..Len(attempts) /\ Len(attempts) \in Nat
    BY <1>2 DEF Attempts
  <2>2. Attempts' = 1..Len(attempts') /\ Len(attempts') \in Nat
    BY <1>3 DEF Attempts
  <2> QED
    BY <1>3, <2>1, <2>2
<1>5. callId' \in {0} \cup Attempts'
  BY <1>1, <1>4, ShownCallChanges
<1> QED
  BY <1>3, <1>4, <1>5 DEF CallsOK, Rows

LEMMA PollsKept ==
  ASSUME ShownOK, pollEffect
  PROVE  /\ poll' \in [pc : {"off", "timer", "fetching", "reading"},
                       answer : {"none", "active", "ended"}]
         /\ poll'.pc = "reading" => poll'.answer # "none"
         /\ late' \subseteq {"active", "ended"}
<1>1. CASE UNCHANGED <<poll, late>>
  BY <1>1 DEF ShownOK
<1>2. CASE /\ poll' = Polls(callId' # 0 /\ Disconnected')
           /\ late' = late \cup (IF poll.pc = "reading" THEN {poll.answer} ELSE {})
  <2>1. \E pc \in {"timer", "off"} : poll' = [pc |-> pc, answer |-> "none"]
    BY <1>2 DEF Polls, NoPoll
  <2>2. poll.pc = "reading" => poll.answer \in {"active", "ended"}
    BY DEF ShownOK
  <2>3. late' \subseteq {"active", "ended"}
    BY <1>2, <2>2 DEF ShownOK
  <2> QED
    BY <2>1, <2>3
<1> QED
  BY <1>1, <1>2 DEF pollEffect

LEMMA LoggedOutShows ==
  ASSUME ShownOK, LoggedOut, raced' \subseteq {"client", "answer"}
  PROVE  ShownOK'
<1>1. status' = "none" /\ poll' = [pc |-> "off", answer |-> "none"] /\ late' = {}
  BY DEF LoggedOut, NoPoll
<1> QED
  BY <1>1 DEF ShownOK

LEMMA MovesKeepShown ==
  ASSUME ShownOK, PageMoves
  PROVE  ShownOK'
<1> DEFINE States == {"none", "active", "ending", "ended"}
<1>1. ASSUME pollEffect, status' \in States, UNCHANGED raced
      PROVE  ShownOK'
  BY <1>1, PollsKept DEF ShownOK
<1>2. status \in States
  BY DEF ShownOK
<1>3. CASE /\ handleLogin \/ startCall \/ startNewCall \/ initializeClient \/ OtherCalls
           /\ pollEffect
  <2>1. status' \in States /\ UNCHANGED raced
    BY <1>2, <1>3 DEF handleLogin, startCall, startNewCall, NothingShown, pageUnchanged,
                      initializeClient, OtherCalls
  <2> QED
    BY <1>1, <1>3, <2>1
<1>4. CASE (\E a \in Attempts : CallMoves(a)) /\ pollEffect
  <2>1. status' \in States /\ UNCHANGED raced
    BY <1>2, <1>4 DEF CallMoves, reject_over_capacity, bot, connected, call_ready, start_failed,
                      withConnectionDeadline, link_lost, session_ends, pageUnchanged
  <2> QED
    BY <1>1, <1>4, <2>1
<1>5. CASE disconnect \/ startNewCallActive
  BY <1>5 DEF disconnect, startNewCallActive, disconnectBegins, ShownOK
<1>6. CASE handleLogout
  <2>1. CASE client = 0
    <3>1. LoggedOut /\ UNCHANGED raced
      BY <1>6, <2>1 DEF handleLogout
    <3> QED
      BY <3>1, LoggedOutShows DEF ShownOK
  <2>2. CASE client # 0
    BY <1>6, <2>2 DEF handleLogout, disconnectBegins, ShownOK
  <2> QED
    BY <2>1, <2>2
<1>7. CASE logout_timeout
  <2>1. LoggedOut /\ raced' \subseteq {"client", "answer"}
    BY <1>7 DEF logout_timeout, ShownOK
  <2> QED
    BY <2>1, LoggedOutShows
<1>8. ASSUME NEW i \in DOMAIN teardowns, disconnectEnds(i)
      PROVE  ShownOK'
  <2>1. /\ raced' \subseteq {"client", "answer"}
        /\ LoggedOut \/ (pollEffect /\ status' \in {"none", status})
    BY <1>8 DEF disconnectEnds, NothingShown, ShownOK
  <2> QED
    BY <1>2, <2>1, LoggedOutShows, PollsKept DEF ShownOK
<1>9. CASE refreshTerminalState
  <2> DEFINE Pcs == {"off", "timer", "fetching", "reading"}
             Answers == {"none", "active", "ended"}
  <2>1. poll \in [pc : Pcs, answer : Answers]
    BY DEF ShownOK
  <2>2. CASE poll_sent
    <3>1. /\ poll' \in [pc : Pcs, answer : Answers] /\ poll'.pc = "fetching"
          /\ UNCHANGED <<status, late, raced>>
      BY <2>1, <2>2 DEF poll_sent
    <3> QED
      BY <3>1 DEF ShownOK
  <2>3. CASE poll_failed
    <3>1. /\ poll' = [pc |-> "timer", answer |-> "none"] /\ UNCHANGED <<status, late, raced>>
      BY <2>3 DEF poll_failed, Polls, NoPoll
    <3> QED
      BY <3>1 DEF ShownOK
  <2>4. CASE poll_answered
    <3>1. \E answer \in {"ended", "active"} : poll' = [pc |-> "reading", answer |-> answer]
      BY <2>4 DEF poll_answered
    <3>2. UNCHANGED <<status, late, raced>>
      BY <2>4 DEF poll_answered
    <3> QED
      BY <3>1, <3>2 DEF ShownOK
  <2>5. CASE poll_read
    <3>1. CASE /\ poll.pc = "reading" /\ status' = poll.answer
               /\ poll' = Polls(poll.answer # "ended") /\ UNCHANGED <<late, raced>>
      <4>1. status' \in {"active", "ended"}
        BY <2>1, <3>1 DEF ShownOK
      <4>2. \E pc \in {"timer", "off"} : poll' = [pc |-> pc, answer |-> "none"]
        BY <3>1 DEF Polls, NoPoll
      <4> QED
        BY <3>1, <4>1, <4>2 DEF ShownOK
    <3>2. CASE /\ \E answer \in late : status' = answer /\ late' = late \ {answer}
               /\ raced' = raced \cup (IF poll.pc = "off" THEN {"answer"} ELSE {})
               /\ UNCHANGED poll
      <4>1. status' \in {"active", "ended"} /\ late' \subseteq late
        BY <3>2 DEF ShownOK
      <4>2. raced' \subseteq {"client", "answer"}
        BY <3>2 DEF ShownOK
      <4> QED
        BY <3>2, <4>1, <4>2 DEF ShownOK
    <3> QED
      BY <2>5, <3>1, <3>2 DEF poll_read
  <2> QED
    BY <1>9, <2>2, <2>3, <2>4, <2>5 DEF refreshTerminalState
<1>10. CASE UNCHANGED pageVars
  BY <1>10 DEF pageVars, ShownOK
<1> QED
  BY <1>3, <1>4, <1>5, <1>6, <1>7, <1>8, <1>9, <1>10 DEF PageMoves

\* The live calls are counted.
LEMMA LiveCounted ==
  ASSUME CallsOK
  PROVE  /\ IsFiniteSet(Live) /\ Cardinality(Live) \in Nat
         /\ Leased = Cardinality(Live) + others
<1>1. Attempts = 1..Len(attempts) /\ Len(attempts) \in Nat
  BY DEF CallsOK, Attempts
<1>2. IsFiniteSet(Attempts)
  BY <1>1, FS_Interval
<1>3. Live \subseteq Attempts
  BY DEF Live
<1>4. IsFiniteSet(Live)
  BY <1>2, <1>3, FS_Subset
<1> QED
  BY <1>4, FS_CardinalityType DEF Leased, Live

\* A call takes a slot only when it starts, when one is free.
LEMMA MovesChangeLive ==
  ASSUME CallsOK, CallsOK', PageMoves
  PROVE  \/ Live' \subseteq Live /\ others' = others
         \/ Live' \subseteq Live /\ HasCapacity /\ others' = others + 1
         \/ Live' \subseteq Live /\ others > 0 /\ others' = others - 1
         \/ \E a \in Attempts : Live' \subseteq Live \cup {a} /\ HasCapacity /\ others' = others
<1>1. Attempts = 1..Len(attempts) /\ Len(attempts) \in Nat
  BY DEF CallsOK, Attempts
<1>2. CASE UNCHANGED attempts
  <2>1. Live' = Live
    BY <1>2 DEF Live, Attempts
  <2>2. CASE OtherCalls
    BY <2>1, <2>2 DEF OtherCalls
  <2>3. CASE ~OtherCalls
    <3>1. others' = others
      <4>1. CASE \E a \in Attempts : CallMoves(a)
        BY <4>1, CallMovesKeepPage DEF pageUnchanged
      <4>2. CASE \E i \in DOMAIN teardowns : disconnectEnds(i)
        BY <4>2 DEF disconnectEnds
      <4>3. CASE \/ handleLogin \/ startCall \/ startNewCall \/ initializeClient
                 \/ disconnect \/ startNewCallActive \/ handleLogout \/ logout_timeout
                 \/ refreshTerminalState \/ UNCHANGED pageVars
        BY <4>3 DEF handleLogin, startCall, startNewCall, startNewCallActive, pageUnchanged,
                    initializeClient, disconnect, handleLogout, logout_timeout,
                    refreshTerminalState, pageVars
      <4> QED
        BY <2>3, <4>1, <4>2, <4>3 DEF PageMoves
    <3> QED
      BY <2>1, <3>1
  <2> QED
    BY <2>2, <2>3
<1>3. CASE startCall
  <2> DEFINE row == [client |-> client, link |-> "posting", promise |-> "pending",
                     session |-> "none"]
  <2>1. attempts' = Append(attempts, row) /\ others' = others /\ row.session = "none"
    BY <1>3 DEF startCall
  <2> HIDE DEF row
  <2>2. /\ Attempts' = 1..(Len(attempts) + 1) /\ attempts'[Len(attempts) + 1] = row
        /\ \A b \in 1..Len(attempts) : attempts'[b] = attempts[b]
    <3> DEFINE Rows == CallRows(made)
    <3> HIDE DEF Rows
    <3>1. attempts \in Seq(Rows)
      BY DEF CallsOK, Rows
    <3> QED
      BY <2>1, <3>1 DEF Attempts
  <2>3. Live' \subseteq Live
    <3> SUFFICES ASSUME NEW b \in Attempts', attempts'[b].session = "live"
                 PROVE  b \in Live
      BY DEF Live
    <3>1. b # Len(attempts) + 1
      BY <2>1, <2>2
    <3>2. b \in 1..Len(attempts)
      BY <1>1, <2>2, <3>1
    <3> QED
      BY <1>1, <2>2, <3>2 DEF Live
  <2> QED
    BY <2>1, <2>3
<1>4. ASSUME NEW a \in Attempts, CallMoves(a)
      PROVE  \/ Live' \subseteq Live /\ others' = others
             \/ Live' \subseteq Live \cup {a} /\ HasCapacity /\ others' = others
  <2>1. others' = others
    BY <1>4, CallMovesKeepPage DEF pageUnchanged
  <2>2. Attempts' = Attempts /\ \A b \in Attempts \ {a} : attempts'[b] = attempts[b]
    BY <1>4 DEF CallMoves, reject_over_capacity, bot, connected, call_ready, start_failed,
                withConnectionDeadline, link_lost, session_ends, Attempts
  <2>3. Live' \subseteq Live \cup {a}
    BY <2>2 DEF Live
  <2>4. CASE bot(a) /\ HasCapacity
    BY <2>1, <2>3, <2>4
  <2>5. CASE ~(bot(a) /\ HasCapacity)
    <3>1. attempts'[a].session = "live" => attempts[a].session = "live"
      <4>1. attempts[a] \in CallRows(made)
        BY <1>1 DEF CallsOK
      <4> DEFINE Same == attempts'[a].session = attempts[a].session
      <4>2. CASE bot(a)
        <5>1. attempts' = [attempts EXCEPT ![a].session = "refused", ![a].link = "down"]
          BY <2>5, <4>2 DEF bot
        <5>2. attempts'[a] = [attempts[a] EXCEPT !.session = "refused", !.link = "down"]
          BY <5>1 DEF Attempts
        <5>3. attempts'[a].session = "refused"
          BY <4>1, <5>2 DEF CallRows
        <5> QED
          BY <5>3
      <4>3. CASE reject_over_capacity(a)
        <5>1. \E l : attempts'[a] = [attempts[a] EXCEPT !.link = l]
          BY <4>3 DEF reject_over_capacity, Attempts
        <5>2. Same
          BY <4>1, <5>1 DEF CallRows
        <5> QED
          BY <5>2
      <4>4. CASE connected(a) \/ withConnectionDeadline(a)
        <5>1. \E l, p : attempts'[a] = [attempts[a] EXCEPT !.link = l, !.promise = p]
          <6>1. CASE connected(a)
            <7>1. attempts'[a] = [attempts[a] EXCEPT !.link = "up", !.promise = "settled"]
              BY <6>1 DEF connected, Attempts
            <7> QED
              BY <7>1
          <6>2. CASE withConnectionDeadline(a)
            <7>1. attempts'[a] = [attempts[a] EXCEPT !.promise = "timed out", !.link = "down"]
              BY <6>2 DEF withConnectionDeadline, Attempts
            <7>2. attempts'[a] = [attempts[a] EXCEPT !.link = "down", !.promise = "timed out"]
              BY <4>1, <7>1 DEF CallRows
            <7> QED
              BY <7>2
          <6> QED
            BY <4>4, <6>1, <6>2
        <5>2. Same
          BY <4>1, <5>1 DEF CallRows
        <5> QED
          BY <5>2
      <4>5. CASE start_failed(a)
        <5>1. attempts'[a] = [attempts[a] EXCEPT !.promise = "settled"]
          BY <4>5 DEF start_failed, Attempts
        <5>2. Same
          BY <4>1, <5>1 DEF CallRows
        <5> QED
          BY <5>2
      <4>6. CASE link_lost(a)
        <5>1. attempts'[a] = [attempts[a] EXCEPT !.link = "down"]
          BY <4>6 DEF link_lost, Attempts
        <5>2. Same
          BY <4>1, <5>1 DEF CallRows
        <5> QED
          BY <5>2
      <4>7. CASE session_ends(a)
        BY <4>7 DEF session_ends
      <4>8. CASE call_ready(a)
        BY <4>8 DEF call_ready
      <4> QED
        BY <1>4, <4>2, <4>3, <4>4, <4>5, <4>6, <4>7, <4>8 DEF CallMoves
    <3>2. Live' \subseteq Live
      BY <2>2, <3>1 DEF Live
    <3> QED
      BY <2>1, <3>2
  <2> QED
    BY <2>4, <2>5
<1>5. ASSUME NEW i \in DOMAIN teardowns, disconnectEnds(i)
      PROVE  Live' \subseteq Live /\ others' = others
  <2> DEFINE n == teardowns[i].client
  <2>1. /\ attempts' = [a \in Attempts |-> IF attempts[a].client = n THEN Down(attempts[a])
                                           ELSE attempts[a]]
        /\ others' = others
    BY <1>5 DEF disconnectEnds, Down
  <2> HIDE DEF n
  <2>2. \A a \in Attempts : attempts'[a].session = attempts[a].session
    <3> SUFFICES ASSUME NEW a \in Attempts
                 PROVE  attempts'[a].session = attempts[a].session
      OBVIOUS
    <3>1. attempts[a] \in CallRows(made)
      BY <1>1 DEF CallsOK
    <3>2. Down(attempts[a]).session = attempts[a].session
      BY <3>1 DEF Down, CallRows
    <3> QED
      BY <2>1, <3>2
  <2>3. Attempts' = Attempts
    BY <2>1 DEF Attempts
  <2> QED
    BY <2>1, <2>2, <2>3 DEF Live
<1>6. CASE \/ handleLogin \/ startNewCall \/ initializeClient \/ OtherCalls
           \/ disconnect \/ startNewCallActive \/ handleLogout \/ logout_timeout
           \/ refreshTerminalState \/ UNCHANGED pageVars
  <2>1. UNCHANGED attempts
    BY <1>6 DEF handleLogin, startNewCall, startNewCallActive, initializeClient, OtherCalls,
                disconnect, handleLogout, logout_timeout, refreshTerminalState, pageVars
  <2> QED
    BY <1>2, <2>1
<1> QED
  BY <1>3, <1>4, <1>5, <1>6 DEF PageMoves

LEMMA SlotsAddUp ==
  ASSUME NEW limit \in Nat, NEW n \in Nat, NEW m \in Nat, NEW o, NEW p,
         o \in 0..limit, n + o =< limit,
         \/ m =< n /\ p = o
         \/ m =< n /\ n + o < limit /\ p = o + 1
         \/ m =< n /\ o > 0 /\ p = o - 1
         \/ m =< n + 1 /\ n + o < limit /\ p = o
  PROVE  m + p =< limit /\ p \in 0..limit
  OBVIOUS

LEMMA MovesKeepSlots ==
  ASSUME CallsOK, CallsOK', SlotsOK, PageMoves
  PROVE  SlotsOK'
<1> DEFINE n == Cardinality(Live)
<1>1. /\ IsFiniteSet(Live) /\ n \in Nat /\ Leased = n + others
      /\ IsFiniteSet(Live)' /\ n' \in Nat /\ Leased' = n' + others'
  <2>1. IsFiniteSet(Live) /\ n \in Nat /\ Leased = n + others
    BY LiveCounted
  <2>2. Attempts' = 1..Len(attempts') /\ Len(attempts') \in Nat
    BY DEF CallsOK, Attempts
  <2>3. IsFiniteSet(Attempts') /\ Live' \subseteq Attempts'
    BY <2>2, FS_Interval DEF Live
  <2>4. IsFiniteSet(Live')
    BY <2>3, FS_Subset
  <2>5. Cardinality(Live') \in Nat
    BY <2>4, FS_CardinalityType
  <2> QED
    BY <2>1, <2>4, <2>5 DEF Leased, Live
<1>2. others \in 0..SlotLimit /\ n + others =< SlotLimit /\ SlotLimit \in Nat
  BY <1>1, PageAssumption DEF SlotsOK
<1>3. HasCapacity => n + others < SlotLimit
  BY <1>1 DEF HasCapacity
<1>4. Live' \subseteq Live => n' =< n
  BY <1>1, FS_Subset
<1>5. ASSUME NEW a, Live' \subseteq Live \cup {a}
      PROVE  n' =< n + 1
  <2>1. /\ IsFiniteSet(Live \cup {a})
        /\ Cardinality(Live \cup {a}) \in {n, n + 1}
    <3>1. Cardinality(Live \cup {a}) = IF a \in Live THEN n ELSE n + 1
      BY <1>1, FS_AddElement
    <3> QED
      BY <1>1, <3>1, FS_AddElement
  <2>2. n' =< Cardinality(Live \cup {a})
    BY <1>5, <2>1, FS_Subset
  <2> QED
    BY <1>1, <2>1, <2>2
<1> HIDE DEF n
<1>6. n' + others' =< SlotLimit /\ others' \in 0..SlotLimit
  <2>1. \/ n' =< n /\ others' = others
        \/ n' =< n /\ n + others < SlotLimit /\ others' = others + 1
        \/ n' =< n /\ others > 0 /\ others' = others - 1
        \/ n' =< n + 1 /\ n + others < SlotLimit /\ others' = others
    BY <1>3, <1>4, <1>5, MovesChangeLive
  <2>2. n \in Nat /\ n' \in Nat
    BY <1>1
  <2> QED
    BY <1>2, <2>1, <2>2, SlotsAddUp
<1> QED
  BY <1>1, <1>6 DEF SlotsOK

PageShape == ClientsOK /\ CallsOK /\ ShownOK /\ SlotsOK

THEOREM PageAlwaysTyped == Spec => []PageShape
<1>1. ASSUME Init
      PROVE  PageShape
  <2>1. ClientsOK
    <3>1. 0 =< MaxClients /\ 0 \in 0..MaxLogins
      BY PageAssumption
    <3>2. /\ token = FALSE /\ isConnecting = FALSE /\ logoutInProgress = FALSE
          /\ logins = 0 /\ initializing = {} /\ client = 0 /\ made = 0 /\ teardowns = <<>>
      BY <1>1 DEF Init, PageInit
    <3>3. made + Len(teardowns) + Cardinality(initializing) = 0
      <4>1. Len(<<>>) = 0
        OBVIOUS
      <4> QED
        BY <3>2, <4>1, FS_EmptySet
    <3>4. initializing \in SUBSET Runs
      BY <3>2
    <3>5. teardowns \in Seq(TornRows(made))
      BY <3>2
    <3>6. made \in Nat /\ client \in 0..made /\ logins \in 0..MaxLogins
      BY <3>1, <3>2
    <3>7. token \in BOOLEAN /\ isConnecting \in BOOLEAN /\ logoutInProgress \in BOOLEAN
      BY <3>2
    <3>8. made + Len(teardowns) + Cardinality(initializing) =< MaxClients
      BY <3>1, <3>3
    <3> QED
      BY <3>4, <3>5, <3>6, <3>7, <3>8 DEF ClientsOK
  <2>2. CallsOK
    BY <1>1 DEF Init, PageInit, CallsOK
  <2>3. ShownOK
    BY <1>1 DEF Init, PageInit, NoPoll, ShownOK
  <2>4. SlotsOK
    <3>1. Live = {} /\ others = 0
      BY <1>1 DEF Init, PageInit, Live, Attempts
    <3>2. Leased = 0
      BY <2>2, <3>1, LiveCounted, FS_EmptySet
    <3> QED
      BY <3>1, <3>2, PageAssumption DEF SlotsOK
  <2> QED
    BY <2>1, <2>2, <2>3, <2>4 DEF PageShape
<1>2. ASSUME PageShape, [Next]_vars
      PROVE  PageShape'
  <2>1. PageMoves
    BY <1>2, NextMovesPage
  <2>2. ClientsOK' /\ CallsOK' /\ ShownOK'
    BY <1>2, <2>1, MovesKeepClients, MovesKeepCalls, MovesKeepShown DEF PageShape
  <2> QED
    BY <1>2, <2>1, <2>2, MovesKeepSlots DEF PageShape
<1> QED
  BY <1>1, <1>2, PTL DEF Spec

\* The types of the page, for any number of calls, clients, logins and teardowns.
THEOREM PageTypeCorrect == Spec => []PageTypeOK
<1>1. ASSUME PageShape
      PROVE  PageTypeOK
  <2>1. made \in 0..MaxClients
    BY <1>1, ClientsTyped DEF PageShape, ClientsOK
  <2>2. /\ {token, isConnecting, logoutInProgress} \subseteq BOOLEAN
        /\ logins \in 0..MaxLogins /\ initializing \subseteq {"current", "stale"}
        /\ client \in 0..made
        /\ teardowns \in Seq([client : 1..made, logout : BOOLEAN, fresh : 0..MaxLogins])
    BY <1>1 DEF PageShape, ClientsOK, TornRows, Runs
  <2>3. /\ attempts \in Seq([client : 1..made, link : {"posting", "connecting", "up", "down"},
                             promise : {"pending", "timed out", "settled"},
                             session : {"none", "live", "ended", "refused"}])
        /\ callId \in {0} \cup Attempts
    BY <1>1 DEF PageShape, CallsOK, CallRows, Links, Promises, Sessions
  <2>4. /\ status \in {"none", "active", "ending", "ended"}
        /\ poll \in [pc : {"off", "timer", "fetching", "reading"},
                     answer : {"none", "active", "ended"}]
        /\ late \subseteq {"active", "ended"} /\ raced \subseteq {"client", "answer"}
    BY <1>1 DEF PageShape, ShownOK
  <2>5. others \in 0..SlotLimit
    BY <1>1 DEF PageShape, SlotsOK
  <2> QED
    BY <2>1, <2>2, <2>3, <2>4, <2>5 DEF PageTypeOK
<1> QED
  BY <1>1, PageAlwaysTyped, PTL

\* The calls that go on are never more than the slots, although a request and the
\* call it starts look at them at different times.
THEOREM SlotsAreBounded == Spec => [](Leased =< SlotLimit)
<1>1. PageShape => Leased =< SlotLimit
  BY DEF PageShape, SlotsOK
<1> QED
  BY <1>1, PageAlwaysTyped, PTL
====
