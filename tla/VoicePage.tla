---- MODULE VoicePage ----
(***************************************************************************)
(* The page of one user (frontend/src/App.jsx) and the admission of its    *)
(* calls (core/admission.py, main.py): the transport's clients that are    *)
(* made at login and after every call, the calls they connect, hang-up     *)
(* and logout, whose teardowns go on while the page is used again, and     *)
(* the poll that shows how a call has ended.  Each await of the page and   *)
(* each answer of the server is a step of its own.                         *)
(***************************************************************************)
EXTENDS Naturals, Sequences, FiniteSets, SequencesExt

CONSTANTS
  MaxCalls, MaxClients, MaxLogins,   \* bounds: of the page
  MaxTeardowns,   \* bound: calls of disconnect() that run at once
  SlotLimit       \* VOICE_MAX_CONCURRENT_SESSIONS

ASSUME PageAssumption ==
  /\ MaxCalls \in Nat /\ MaxClients \in Nat /\ MaxTeardowns \in Nat /\ MaxLogins \in Nat
  /\ SlotLimit \in Nat \ {0}

VARIABLES
  token,          \* isTokenValid
  logins,         \* logins so far
  initializing,   \* runs of initializeClient: "current", and "stale" ones
  client, made,   \* the page's client, 0 when there is none; clients so far
  isConnecting,
  attempts,       \* startCall and its call: client, connection, promise, session
  teardowns,      \* disconnect(): its client, whether the logout waits for it, and the
                  \* login whose startNewCall does, 0 when none does
  logoutInProgress,
  callId, status, \* what the page shows
  poll, late,     \* refreshTerminalState, and the answers of cancelled ones
  others,         \* _leased_slots of other calls
  raced           \* history: "client", a teardown or a logout took away another client
                  \* than its own; "answer", a late answer was shown with the poll off

pageVars ==
  <<token, logins, initializing, client, made, isConnecting, attempts, teardowns,
    logoutInProgress, callId, status, poll, late, others, raced>>

NoPoll == [pc |-> "off", answer |-> "none"]
Attempts == DOMAIN attempts

PageInit ==
  /\ token = FALSE /\ logins = 0 /\ initializing = {}
  /\ client = 0 /\ made = 0 /\ isConnecting = FALSE
  /\ attempts = <<>> /\ teardowns = <<>> /\ logoutInProgress = FALSE
  /\ callId = 0 /\ status = "none" /\ poll = NoPoll /\ late = {}
  /\ others = 0 /\ raced = {}

AttemptsOf(n) == {a \in Attempts : attempts[a].client = n}
InUse(a) == attempts[a].link \in {"posting", "connecting", "up"}

\* transportState of the page's client.
TransportState ==
  IF AttemptsOf(client) = {} THEN "initialized" ELSE attempts[Max(AttemptsOf(client))].link
Disconnected == TransportState \in {"initialized", "down"}
isActive == client # 0 /\ TransportState = "up"

\* Bound: a login and a teardown make one client each.
Room == made + Len(teardowns) + Cardinality(initializing) < MaxClients

Leased == Cardinality({a \in Attempts : attempts[a].session = "live"}) + others
HasCapacity == Leased < SlotLimit

---------------------------------------------------------------------------
(* App: the token and the client. *)

handleLogin ==
  /\ ~token /\ logins < MaxLogins /\ Room /\ token' = TRUE /\ logins' = logins + 1
  /\ initializing' = initializing \cup {"current"}
  /\ UNCHANGED <<client, made, isConnecting, attempts, teardowns, logoutInProgress, callId,
                 status, others, raced>>

SetNewClient == made' = made + 1 /\ client' = made + 1

\* Fault: the answer of a cancelled run is taken.
initializeClientLate ==
  /\ initializing # {}
  /\ \E run \in initializing : initializing' = initializing \ {run}
  /\ SetNewClient
  /\ UNCHANGED <<token, logins, isConnecting, attempts, teardowns, logoutInProgress, callId,
                 status, others, raced>>

\* A run that was cancelled meanwhile does nothing with its answer.
initializeClient ==
  /\ \/ "current" \in initializing /\ SetNewClient
        /\ initializing' = initializing \ {"current"}
     \/ "stale" \in initializing /\ initializing' = initializing \ {"stale"}
        /\ UNCHANGED <<client, made>>
  /\ UNCHANGED <<token, logins, isConnecting, attempts, teardowns, logoutInProgress, callId,
                 status, others, raced>>

---------------------------------------------------------------------------
(* VoiceApp: a call is started. *)

startCall ==
  /\ token /\ client # 0 /\ ~isConnecting /\ Disconnected
  /\ Len(attempts) < MaxCalls /\ isConnecting' = TRUE
  /\ attempts' = Append(attempts, [client |-> client, link |-> "posting",
                                   promise |-> "pending", session |-> "none"])
  /\ UNCHANGED <<token, logins, initializing, client, made, teardowns, logoutInProgress,
                 callId, status, others, raced>>

pageUnchanged ==
  UNCHANGED <<token, logins, initializing, client, made, teardowns, logoutInProgress, others,
              raced>>

\* POST /start, which reject_over_capacity may answer with 503.
reject_over_capacity(a) ==
  /\ attempts[a].link = "posting"
  /\ attempts' = [attempts EXCEPT ![a].link = IF HasCapacity THEN "connecting" ELSE "down"]
  /\ UNCHANGED <<isConnecting, callId, status>> /\ pageUnchanged

\* bot(): a slot was free when the request came, but may be taken by now.
bot(a) ==
  /\ attempts[a].link = "connecting" /\ attempts[a].session = "none"
  /\ attempts' = IF HasCapacity THEN [attempts EXCEPT ![a].session = "live"]
                 ELSE [attempts EXCEPT ![a].session = "refused", ![a].link = "down"]
  /\ UNCHANGED <<isConnecting, callId, status>> /\ pageUnchanged

\* The transport connects; the page's client says so.
connected(a) ==
  /\ attempts[a].link = "connecting" /\ attempts[a].session = "live"
  /\ attempts[a].promise = "pending"
  /\ attempts' = [attempts EXCEPT ![a].link = "up", ![a].promise = "settled"]
  /\ isConnecting' = (isConnecting /\ attempts[a].client # client)
  /\ UNCHANGED <<callId, status>> /\ pageUnchanged

\* call_ready, which reaches the page only from its client.
call_ready(a) ==
  /\ attempts[a].link = "up" /\ attempts[a].session = "live"
  /\ attempts[a].client = client /\ callId # a
  /\ callId' = a /\ status' = "active"
  /\ UNCHANGED <<isConnecting, attempts>> /\ pageUnchanged

\* The promise of a connection that is down rejects.
start_failed(a) ==
  /\ attempts[a].link = "down" /\ attempts[a].promise \in {"pending", "timed out"}
  /\ attempts' = [attempts EXCEPT ![a].promise = "settled"]
  /\ isConnecting' = FALSE
  /\ UNCHANGED <<callId, status>> /\ pageUnchanged

\* withConnectionDeadline: onTimeout, whose client disconnects.
withConnectionDeadline(a) ==
  /\ attempts[a].promise = "pending" /\ attempts[a].link \in {"posting", "connecting"}
  /\ attempts' = [attempts EXCEPT ![a].promise = "timed out", ![a].link = "down"]
  /\ UNCHANGED <<isConnecting, callId, status>> /\ pageUnchanged

\* The network or the server closes a connection.
link_lost(a) ==
  /\ attempts[a].link \in {"connecting", "up"}
  /\ attempts' = [attempts EXCEPT ![a].link = "down"]
  /\ UNCHANGED <<isConnecting, callId, status>> /\ pageUnchanged

\* The call is over at the server, which releases its slot.
session_ends(a) ==
  /\ attempts[a].session = "live"
  /\ attempts' = [attempts EXCEPT ![a].session = "ended"]
  /\ UNCHANGED <<isConnecting, callId, status>> /\ pageUnchanged

---------------------------------------------------------------------------
(* VoiceApp: the poll of a call that is not connected any more. *)

Polls(on) == [NoPoll EXCEPT !.pc = IF on THEN "timer" ELSE "off"]

\* Fault: the effect depends on the call alone.
pollEffectOfCall ==
  IF callId' = callId THEN UNCHANGED <<poll, late>>
  ELSE poll' = Polls(callId' # 0 /\ Disconnected') /\ UNCHANGED late

\* The effect's cleanup and its next run, when the call or the transport's state has
\* changed: an answer whose body is being read is not held back any more.
pollEffect ==
  IF <<callId, TransportState>>' = <<callId, TransportState>> THEN UNCHANGED <<poll, late>>
  ELSE /\ poll' = Polls(callId' # 0 /\ Disconnected')
       /\ late' = late \cup (IF poll.pc = "reading" THEN {poll.answer} ELSE {})

---------------------------------------------------------------------------
(* VoiceApp: a call is ended. *)

\* disconnect() up to its first await.
disconnectBegins(logout, fresh) ==
  /\ Len(teardowns) < MaxTeardowns /\ Room
  /\ teardowns' = Append(teardowns, [client |-> client, logout |-> logout, fresh |-> fresh])
  /\ isConnecting' = FALSE
  /\ status' = IF status = "active" THEN "ending" ELSE status

disconnect ==
  /\ client # 0 /\ (isActive \/ isConnecting) /\ disconnectBegins(FALSE, 0)
  /\ UNCHANGED <<token, logins, initializing, client, made, attempts, logoutInProgress,
                 callId, others, raced, poll, late>>

\* handleLogout's end: VoiceApp is gone with its state.
LoggedOut ==
  /\ logoutInProgress' = FALSE /\ token' = FALSE /\ client' = 0
  /\ initializing' = IF initializing = {} THEN {} ELSE {"stale"}
  /\ isConnecting' = FALSE /\ callId' = 0 /\ status' = "none"
  /\ poll' = NoPoll /\ late' = {}

NothingShown == callId' = 0 /\ status' = "none"

\* Its client has disconnected: onResetClient, whatever the page's client is by now;
\* a logout that waits for it goes on, and so does a startNewCall of this login, unless
\* the client's disconnect() threw.
disconnectEnds(i) ==
  LET n == teardowns[i].client
  IN /\ teardowns' = RemoveAt(teardowns, i)
     /\ attempts' = [a \in Attempts |-> IF attempts[a].client = n
                                        THEN [attempts[a] EXCEPT !.link = "down"]
                                        ELSE attempts[a]]
     /\ raced' = raced \cup (IF client # n THEN {"client"} ELSE {})
     /\ IF teardowns[i].logout THEN LoggedOut /\ UNCHANGED made
        ELSE /\ SetNewClient
             /\ \/ teardowns[i].fresh = logins /\ NothingShown
                \/ UNCHANGED <<callId, status>>
             /\ UNCHANGED <<token, initializing, logoutInProgress, isConnecting>>
             /\ pollEffect
     /\ UNCHANGED <<logins, others>>

\* startNewCall, by the button of a call that is over or that of the Sidebar, which is
\* there at any time: an active call is disconnected first.
startNewCall ==
  /\ client # 0 /\ ~isActive /\ (callId # 0 \/ status # "none") /\ NothingShown
  /\ UNCHANGED <<isConnecting, attempts>> /\ pageUnchanged

startNewCallActive ==
  /\ client # 0 /\ isActive /\ disconnectBegins(FALSE, logins)
  /\ UNCHANGED <<token, logins, initializing, client, made, attempts, logoutInProgress,
                 callId, others, raced, poll, late>>

\* handleLogout, by the user or a request that was answered with 401.
handleLogout ==
  /\ token /\ ~logoutInProgress
  /\ IF client = 0 THEN LoggedOut /\ UNCHANGED teardowns
     ELSE /\ logoutInProgress' = TRUE /\ disconnectBegins(TRUE, 0)
          /\ UNCHANGED <<token, client, initializing, callId, poll, late>>
  /\ UNCHANGED <<logins, made, attempts, others, raced>>

\* 1500 ms: the teardown goes on without it.
logout_timeout ==
  /\ logoutInProgress /\ LoggedOut
  /\ teardowns' = [i \in DOMAIN teardowns |-> [teardowns[i] EXCEPT !.logout = FALSE]]
  /\ raced' = raced \cup {"client" : i \in {i \in DOMAIN teardowns :
                                               teardowns[i].logout /\ teardowns[i].client # client}}
  /\ UNCHANGED <<logins, made, attempts, others>>

---------------------------------------------------------------------------
(* VoiceApp: the poll. *)

poll_sent ==
  /\ poll.pc = "timer" /\ poll' = [poll EXCEPT !.pc = "fetching"]
  /\ UNCHANGED <<status, late, raced>>

poll_failed ==
  /\ poll.pc = "fetching" /\ poll' = Polls(TRUE)
  /\ UNCHANGED <<status, late, raced>>

poll_answered ==
  /\ poll.pc = "fetching"
  /\ poll' = [pc |-> "reading",
              answer |-> IF attempts[callId].session = "ended" THEN "ended" ELSE "active"]
  /\ UNCHANGED <<status, late, raced>>

poll_read ==
  \/ /\ poll.pc = "reading" /\ status' = poll.answer /\ poll' = Polls(poll.answer # "ended")
     /\ UNCHANGED <<late, raced>>
  \/ /\ \E answer \in late : status' = answer /\ late' = late \ {answer}
     /\ raced' = raced \cup (IF poll.pc = "off" THEN {"answer"} ELSE {})
     /\ UNCHANGED poll

refreshTerminalState ==
  /\ poll_sent \/ poll_failed \/ poll_answered \/ poll_read
  /\ UNCHANGED <<token, logins, initializing, client, made, isConnecting, attempts, teardowns,
                 logoutInProgress, callId, others>>

---------------------------------------------------------------------------
OtherCalls ==
  /\ \/ HasCapacity /\ others' = others + 1
     \/ others > 0 /\ others' = others - 1
  /\ UNCHANGED <<token, logins, initializing, client, made, isConnecting, attempts, teardowns,
                 logoutInProgress, callId, status, raced>>

\* What is bound to happen.
PageContinues ==
  \/ initializeClient
  \/ \E a \in Attempts :
       \/ reject_over_capacity(a) \/ bot(a) \/ call_ready(a) \/ start_failed(a)
       \/ withConnectionDeadline(a)
       \/ attempts[a].link = "down" /\ session_ends(a)
       \/ attempts[a].session = "ended" /\ link_lost(a)

PageStep ==
  \/ /\ \/ handleLogin \/ startCall \/ startNewCall
        \/ \E a \in Attempts :
             connected(a) \/ link_lost(a) \/ session_ends(a)
        \/ PageContinues \/ OtherCalls
     /\ pollEffect
  \/ disconnect \/ startNewCallActive \/ handleLogout \/ logout_timeout
  \/ \E i \in DOMAIN teardowns : disconnectEnds(i)
  \/ refreshTerminalState

\* Timers fire, requests are answered or fail, and one that is repeated for ever is
\* answered; the server ends a call whose connection is down.
PageFairness ==
  /\ WF_pageVars(PageContinues /\ pollEffect)
  /\ WF_pageVars(\E i \in DOMAIN teardowns : disconnectEnds(i))
  /\ WF_pageVars(refreshTerminalState)
  /\ SF_pageVars(poll_answered /\ refreshTerminalState)

PageTypeOK ==
  /\ {token, isConnecting, logoutInProgress} \subseteq BOOLEAN
  /\ logins \in 0..MaxLogins /\ initializing \subseteq {"current", "stale"}
  /\ made \in 0..MaxClients /\ client \in 0..made
  /\ attempts \in Seq([client : 1..made, link : {"posting", "connecting", "up", "down"},
                       promise : {"pending", "timed out", "settled"},
                       session : {"none", "live", "ended", "refused"}])
  /\ teardowns \in Seq([client : 1..made, logout : BOOLEAN, fresh : 0..MaxLogins])
  /\ callId \in {0} \cup Attempts /\ status \in {"none", "active", "ending", "ended"}
  /\ poll \in [pc : {"off", "timer", "fetching", "reading"}, answer : {"none", "active", "ended"}]
  /\ late \subseteq {"active", "ended"} /\ others \in 0..SlotLimit
  /\ raced \subseteq {"client", "answer"}

\* No call goes on that the page cannot end: it is of the page's client or is being
\* torn down, whatever logins, logouts and answers overlap, unless a teardown or a
\* logout has outlived its client and took the one after it away.
NoOrphanedCall ==
  \A a \in Attempts :
    InUse(a) => \/ attempts[a].client = client \/ "client" \in raced
                \/ \E i \in DOMAIN teardowns : teardowns[i].client = attempts[a].client

\* A call that the page shows and that is over is shown as over, or the user leaves it,
\* unless an older answer comes when the page has stopped asking.
PageShowsEnd ==
  \A a \in 1..MaxCalls :
    (callId = a /\ attempts[callId].session = "ended")
      ~> (callId # a \/ status = "ended" \/ "answer" \in raced)
====
