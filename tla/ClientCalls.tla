----------------------------- MODULE ClientCalls -----------------------------
(* Calls with deadlines on a HostClient (clientDoDeadline and                  *)
(* clientGetURLDeadline of router/fasthttp/client.go) and LBClient, which      *)
(* spreads them over two clients (lbclient.go): the HostClient, 0, and one     *)
(* that is only known by its interface BalancingClient, 1.                     *)
(*                                                                             *)
(* clientDoDeadline works with any clientDoer, here with goroutines that are   *)
(* running their Do until it ends, which it does (Quiesces of HostClient). What it *)
(* takes from pools and gives back to them, a request, a response and a        *)
(* channel, goes together and is called a kit; a kit that nobody holds and     *)
(* that is not pooled is new. A call that follows redirects has no response in *)
(* its kit: doRequestFollowRedirects takes one for itself and gives it back    *)
(* when it returns, waited for or not.                                         *)
(*                                                                             *)
(* A setting says what is going on: goroutines call HostClient.Do, with a Dial *)
(* of its own ("own") or with TCPDialer ("tcp"), then on servers that close    *)
(* every connection after the answer; or callers make calls with deadlines     *)
(* ("none").                                                                   *)
EXTENDS TCPDialer

CONSTANTS
    Callers, Kits,
    MaxPenalty,         \* maxPenalty, 300 in the code
    MaxRedirects,       \* maxRedirectsCount, 16 in the code
    MaxUint,            \* the largest uint32, or a number too large to be reached
    Settings            \* records of dial, threads and callers

ASSUME CallAssumption ==
    /\ IsFiniteSet(Callers) /\ IsFiniteSet(Kits) /\ Kits \subseteq Nat
    /\ {MaxPenalty, MaxRedirects, MaxUint} \subseteq Nat
    /\ Nil \notin Kits \cup Dials
    /\ \A s \in Settings : s.threads \subseteq Threads /\ s.callers \subseteq Callers

VARIABLES
    setting,
    upc,                \* where each caller is
    client, least,      \* its client, and in get how loaded that one was
    job, kit,           \* the goroutine it waits for, what the goroutine uses
    sent,               \* what is on the channel of each kit: whose result
    pooled,             \* the kits in the pools
    running, good,        \* the goroutines in Do, those whose last had no error
    getting, redirects, \* those that follow redirects, and how many they did
    nextIdx, penalty,   \* of LBClient, modulo 2, and of each client
    timers              \* the calls of decPenalty that time.AfterFunc will make

kits == <<kit, sent, pooled>>
gets == <<getting, redirects>>
balance == <<nextIdx, penalty, timers>>
calls == <<setting, upc, client, least, job, kits, gets, balance>>
hosts == <<vars, dialer>>
allVars == <<hosts, running, good, calls>>

Clients == {0, 1}

CallsInit ==
    /\ Init /\ DialerInit
    /\ setting \in Settings
    /\ upc = [u \in Callers |-> "idle"] /\ client = [u \in Callers |-> 0]
    /\ least = [u \in Callers |-> 0] /\ job = [u \in Callers |-> Nil]
    /\ kit = [r \in Threads |-> Nil] /\ sent = [k \in Kits |-> Nil] /\ pooled = {}
    /\ running = {} /\ good = {} /\ getting = {} /\ redirects = [r \in Threads |-> 0]
    /\ nextIdx = 0 /\ penalty = [c \in Clients |-> 0] /\ timers = [c \in Clients |-> 0]

ToPlace(u, place) == upc' = [upc EXCEPT ![u] = place]

-----------------------------------------------------------------------------
(* LBClient.get, without and with a client that has nothing to do              *)

PendingRequests(c) ==
    penalty[c] + Cardinality(IF c = 0 THEN running ELSE {u \in Callers : upc[u] = "other"})

GetFirst(u) ==
    /\ setting.dial = "none"
    /\ upc[u] = "idle"
    /\ nextIdx' = 1 - nextIdx
    /\ client' = [client EXCEPT ![u] = nextIdx']
    /\ least' = [least EXCEPT ![u] = PendingRequests(nextIdx')]
    /\ ToPlace(u, IF least'[u] = 0 THEN "call" ELSE "get")
    /\ UNCHANGED <<hosts, running, good, setting, job, kits, gets, penalty, timers>>

GetSecond(u) ==
    /\ upc[u] = "get"
    /\ client' = [client EXCEPT ![u] = IF PendingRequests(1 - @) < least[u] THEN 1 - @ ELSE @]
    /\ least' = [least EXCEPT ![u] = 0]
    /\ ToPlace(u, "call")
    /\ UNCHANGED <<hosts, running, good, setting, job, kits, gets, balance>>

-----------------------------------------------------------------------------
(* A call with a deadline *)

Held(k) == \E r \in Threads : kit[r] = k

\* One from the pools, or a new one.
Acquired(k) ==
    IF pooled # {} THEN k \in pooled /\ \A j \in pooled : k <= j
    ELSE ~ Held(k) /\ \A j \in Kits \ {k} : Held(j) \/ k <= j

\* The goroutine is started with copies of what the caller gave.
Start(u, follow) ==
    /\ \E r \in setting.threads, k \in Kits :
          /\ kit[r] = Nil /\ Acquired(k)
          /\ running' = running \cup {r}
          /\ kit' = [kit EXCEPT ![r] = k]
          /\ pooled' = pooled \ {k}
          /\ job' = [job EXCEPT ![u] = r]
          /\ getting' = IF follow THEN getting \cup {r} ELSE getting
    /\ ToPlace(u, "wait")
    /\ UNCHANGED <<hosts, good, setting, client, least, sent, redirects, balance>>

\* HostClient.GetDeadline, which passes LBClient by. A call that is too late
\* returns at once and changes nothing.
GetURL(u) == setting.dial = "none" /\ upc[u] = "idle" /\ Start(u, TRUE)

DoDeadline(u) == upc[u] = "call" /\ client[u] = 0 /\ Start(u, FALSE)

CallOther(u) ==
    /\ upc[u] = "call" /\ client[u] = 1
    /\ ToPlace(u, "other")
    /\ UNCHANGED <<hosts, running, good, setting, client, least, job, kits, gets, balance>>

\* The call is over; LBClient looks at its error.
Result(u, err) ==
    /\ ToPlace(u, IF err THEN "penalize" ELSE "idle")
    /\ client' = [client EXCEPT ![u] = IF err THEN @ ELSE 0]

OtherEnds(u) ==
    /\ upc[u] = "other"
    /\ \E err \in BOOLEAN : Result(u, err)
    /\ UNCHANGED <<hosts, running, good, setting, least, job, kits, gets, balance>>

\* The deadline had passed before anything was done.
TooLate(u) ==
    /\ upc[u] = "call" /\ client[u] = 0
    /\ Result(u, TRUE)
    /\ UNCHANGED <<hosts, running, good, setting, least, job, kits, gets, balance>>

\* clientGetURLDeadline is not called through LBClient.
End(u, err) ==
    /\ Result(u, err /\ job[u] \notin getting)
    /\ job' = [job EXCEPT ![u] = Nil]

\* The kit goes back to the pools; the goroutine has ended with its Send.
Receive(u) ==
    /\ upc[u] = "wait"
    /\ sent[kit[job[u]]] # Nil
    /\ End(u, job[u] \notin good)
    /\ kit' = [kit EXCEPT ![job[u]] = Nil]
    /\ sent' = [sent EXCEPT ![kit[job[u]]] = Nil]
    /\ pooled' = pooled \cup {kit[job[u]]}
    /\ getting' = getting \ {job[u]}
    /\ redirects' = [redirects EXCEPT ![job[u]] = 0]
    /\ good' = good \ {job[u]}
    /\ UNCHANGED <<hosts, running, setting, least, balance>>

\* Mutant: what was taken is given back at the end, whatever happened.
TimesOutPooling(u) ==
    /\ upc[u] = "wait"
    /\ End(u, TRUE)
    /\ pooled' = pooled \cup {kit[job[u]]}
    /\ UNCHANGED <<hosts, running, good, setting, least, kit, sent, gets, balance>>

\* ErrTimeout: the goroutine goes on and keeps the kit, which is not used again.
TimesOut(u) ==
    /\ upc[u] = "wait"
    /\ End(u, TRUE)
    /\ IF sent[kit[job[u]]] = Nil
       THEN UNCHANGED <<kits, gets, good>>
       ELSE /\ kit' = [kit EXCEPT ![job[u]] = Nil]
            /\ sent' = [sent EXCEPT ![kit[job[u]]] = Nil]
            /\ getting' = getting \ {job[u]}
            /\ redirects' = [redirects EXCEPT ![job[u]] = 0]
            /\ good' = good \ {job[u]}
            /\ UNCHANGED pooled
    /\ UNCHANGED <<hosts, running, setting, least, balance>>

Waited(r) == \E u \in Callers : job[u] = r

\* The goroutine after Do: its result goes to the channel, where it is received
\* or forgotten. doRequestFollowRedirects does the next request instead, if it
\* was redirected, but not too often and to a Location.
Send(r) ==
    /\ kit[r] # Nil /\ r \notin running /\ sent[kit[r]] = Nil
    /\ IF Waited(r)
       THEN sent' = [sent EXCEPT ![kit[r]] = r] /\ UNCHANGED <<kit, gets, good>>
       ELSE /\ kit' = [kit EXCEPT ![r] = Nil]
            /\ getting' = getting \ {r}
            /\ redirects' = [redirects EXCEPT ![r] = 0]
            /\ good' = good \ {r}
            /\ UNCHANGED sent
    /\ UNCHANGED <<hosts, running, setting, upc, client, least, job, pooled, balance>>

Redirect(r) ==
    /\ r \in (getting \cap good) \ running
    /\ sent[kit[r]] = Nil
    /\ redirects[r] < MaxRedirects
    /\ redirects' = [redirects EXCEPT ![r] = @ + 1]
    /\ running' = running \cup {r}
    /\ UNCHANGED <<hosts, good, setting, upc, client, least, job, kits, getting, balance>>

-----------------------------------------------------------------------------
(* LBClient: penalties *)

\* Mutant: every increment is taken back later.
PenalizeAlways(u) ==
    /\ upc[u] = "penalize"
    /\ penalty' = [penalty EXCEPT ![client[u]] = @ + 1]
    /\ timers' = [timers EXCEPT ![client[u]] = @ + 1]
    /\ ToPlace(u, IF penalty'[client[u]] > MaxPenalty THEN "over" ELSE "idle")
    /\ UNCHANGED <<hosts, running, good, setting, client, least, job, kits, gets, nextIdx>>

Penalize(u) ==
    /\ upc[u] = "penalize"
    /\ penalty' = [penalty EXCEPT ![client[u]] = @ + 1]
    /\ IF penalty'[client[u]] > MaxPenalty
       THEN ToPlace(u, "over") /\ UNCHANGED timers
       ELSE ToPlace(u, "idle") /\ timers' = [timers EXCEPT ![client[u]] = @ + 1]
    /\ client' = IF penalty'[client[u]] > MaxPenalty THEN client ELSE [client EXCEPT ![u] = 0]
    /\ UNCHANGED <<hosts, running, good, setting, least, job, kits, gets, nextIdx>>

\* penalty is a uint32; below zero it would be the largest of them.
DecPenalty(c) == penalty' = [penalty EXCEPT ![c] = IF @ = 0 THEN MaxUint ELSE @ - 1]

TakeBack(u) ==
    /\ upc[u] = "over"
    /\ DecPenalty(client[u])
    /\ client' = [client EXCEPT ![u] = 0]
    /\ ToPlace(u, "idle")
    /\ UNCHANGED <<hosts, running, good, setting, least, job, kits, gets, nextIdx, timers>>

PenaltyEnds(c) ==
    /\ timers[c] > 0
    /\ timers' = [timers EXCEPT ![c] = @ - 1]
    /\ DecPenalty(c)
    /\ UNCHANGED <<hosts, running, good, setting, upc, client, least, job, kits, gets, nextIdx>>

-----------------------------------------------------------------------------
(* The goroutines that run Do                                                  *)

DoReturns(r) ==
    /\ r \in running
    /\ running' = running \ {r}
    /\ good' \in {good \cup {r}, good \ {r}}
    /\ UNCHANGED <<hosts, calls>>

Call(r) == setting.dial # "none" /\ Begin(r) /\ UNCHANGED dialer

Work(r) ==
    \/ (Working(r) \/ ReadThenClose(r)) /\ UNCHANGED dialer
    \/ setting.dial = "own" /\ (Dial(r) \/ DialFails(r) \/ WriteFails(r) \/ ReadFails(r) \/ ReadThenKeep(r)) /\ UNCHANGED dialer
    \/ setting.dial = "tcp" /\ Dialing(r)

Clean(k) == Cleaner(k) /\ UNCHANGED dialer

Caller(u) ==
    \/ GetFirst(u) \/ GetSecond(u) \/ GetURL(u) \/ DoDeadline(u) \/ CallOther(u)
    \/ OtherEnds(u) \/ TooLate(u) \/ Receive(u) \/ TimesOut(u) \/ Penalize(u) \/ TakeBack(u)

Hosts ==
    \/ \E r \in setting.threads : Call(r)
    \/ \E r \in Threads : Work(r)
    \/ \E k \in Cleaners : Clean(k)
    \/ Dialer

Next ==
    \/ Hosts /\ UNCHANGED <<running, good, calls>>
    \/ \E r \in Threads : DoReturns(r) \/ Send(r) \/ Redirect(r)
    \/ \E u \in setting.callers : Caller(u)
    \/ \E c \in Clients : PenaltyEnds(c)

Spec == CallsInit /\ [][Next]_allVars

\* Goroutines are scheduled, a dial has a timeout, and the server answers,
\* closes, or runs into the read deadline. Nobody has to call anything.
Fairness ==
    /\ \A r \in Threads : WF_hosts(Work(r))
    /\ \A k \in Cleaners : WF_hosts(Clean(k))

FairSpec == Spec /\ Fairness

-----------------------------------------------------------------------------

CallTypes ==
    /\ setting \in Settings
    /\ upc \in [Callers -> {"idle", "get", "call", "other", "wait", "penalize", "over"}]
    /\ client \in [Callers -> Clients] /\ least \in [Callers -> Nat]
    /\ job \in [Callers -> Threads \cup {Nil}]
    /\ kit \in [Threads -> Kits \cup {Nil}] /\ sent \in [Kits -> Threads \cup {Nil}] /\ pooled \subseteq Kits
    /\ running \cup good \cup getting \subseteq Threads /\ redirects \in [Threads -> 0..MaxRedirects]
    /\ nextIdx \in Clients /\ penalty \in [Clients -> Nat] /\ timers \in [Clients -> Nat]

\* A caller receives the result of its own goroutine, after that has ended: no
\* request, response or channel is used by two goroutines, nor is one in the
\* pools while a goroutine may still read, fill or send to it, however late
\* the answers to calls that timed out.
AnswersAreOwn ==
    /\ \A r \in Threads : kit[r] # Nil => kit[r] \notin pooled /\ \A s \in Threads \ {r} : kit[s] # kit[r]
    /\ \A r \in running : kit[r] # Nil /\ sent[kit[r]] = Nil
    /\ \A k \in pooled : sent[k] = Nil
    /\ \A u \in Callers : upc[u] = "wait" => sent[kit[job[u]]] \in {Nil, job[u]}

\* The penalty of a client is what the timers will take back and what is being
\* taken back now: it never passes maxPenalty by more than the callers that find
\* it there, and ends at zero, not below it, when the timers have run.
PenaltiesAreOwed ==
    \A c \in Clients :
        /\ penalty[c] = timers[c] + Cardinality({u \in Callers : upc[u] = "over" /\ client[u] = c})
        /\ timers[c] <= MaxPenalty
=============================================================================
