----------------------------- MODULE ClientHosts -----------------------------
(* Client of router/fasthttp/client.go: the HostClients it has made, by scheme *)
(* and host, and the goroutines that forget those not used for a minute.       *)
(*                                                                             *)
(* A step is what is done under mLock; mCleaner takes the time just before. Of *)
(* a HostClient only its lastUseTime is kept, which every attempt of a call    *)
(* stores: "now" is less than a minute ago. One that is new has none, and      *)
(* seems to be as old as the program.                                          *)
EXTENDS Integers

CONSTANTS
    Schemes, HostNames,
    HostClients,        \* the identities of HostClients, numbers
    Visitors,           \* the goroutines that call Client.Do
    Sweepers,           \* the identities of goroutines running mCleaner, too
    NoClient

ASSUME NoClientAssumption == NoClient \notin HostClients

VARIABLES
    m,            \* c.m and c.ms
    lastUse,
    aged,               \* the program is older than a minute
    visit,              \* of each visitor: its place, its scheme, its HostClient
    sweeper             \* of each cleaner: its place and its map

hostVars == <<m, lastUse, aged, visit, sweeper>>

Idle(s) == [pc |-> "idle", scheme |-> s, hc |-> NoClient]
Off(s) == [pc |-> "off", scheme |-> s]

HostsInit ==
    /\ m = [s \in Schemes |-> [h \in HostNames |-> NoClient]]
    /\ lastUse = [hc \in HostClients |-> "never"]
    /\ aged = FALSE
    /\ \E s \in Schemes : /\ visit = [t \in Visitors |-> Idle(s)]
                          /\ sweeper = [k \in Sweepers |-> Off(s)]

Known(s) == {h \in HostNames : m[s][h] # NoClient}

Unused(hc) ==
    /\ \A s \in Schemes, h \in HostNames : m[s][h] # hc
    /\ \A t \in Visitors : visit[t].hc # hc

Finds(t, s, h) ==
    /\ visit[t].pc = "idle"
    /\ m[s][h] # NoClient
    /\ visit' = [visit EXCEPT ![t] = [pc |-> "found", scheme |-> s, hc |-> m[s][h]]]
    /\ UNCHANGED <<m, lastUse, aged, sweeper>>

\* Mutant: every new HostClient brings a cleaner.
SpawnsAlways(s) == TRUE

\* len(m) == 1 once the new one is in it.
SpawnsCleaner(s) == Known(s) = {}

Adds(t, s, h, hc) ==
    /\ visit[t].pc = "idle"
    /\ m[s][h] = NoClient
    /\ Unused(hc) /\ \A g \in HostClients : Unused(g) => hc <= g
    /\ m' = [m EXCEPT ![s][h] = hc]
    /\ lastUse' = [lastUse EXCEPT ![hc] = "never"]
    /\ visit' = [visit EXCEPT ![t] = [pc |-> IF SpawnsCleaner(s) THEN "spawn" ELSE "found",
                                      scheme |-> s, hc |-> hc]]
    /\ UNCHANGED <<aged, sweeper>>

Spawns(t, k) ==
    /\ visit[t].pc = "spawn"
    /\ sweeper[k].pc = "off" /\ \A j \in Sweepers : sweeper[j].pc = "off" => k <= j
    /\ sweeper' = [sweeper EXCEPT ![k] = [pc |-> "sweep", scheme |-> visit[t].scheme]]
    /\ visit' = [visit EXCEPT ![t].pc = "found"]
    /\ UNCHANGED <<m, lastUse, aged>>

\* HostClient.Do, whether or not the HostClient is in the map still.
Attempts(t) ==
    /\ visit[t].pc \in {"found", "doing"}
    /\ lastUse' = [lastUse EXCEPT ![visit[t].hc] = "now"]
    /\ visit' = [visit EXCEPT ![t].pc = "doing"]
    /\ UNCHANGED <<m, aged, sweeper>>

Returns(t) ==
    /\ visit[t].pc = "doing"
    /\ visit' = [visit EXCEPT ![t] = Idle(visit[t].scheme)]
    /\ UNCHANGED <<m, lastUse, aged, sweeper>>

-----------------------------------------------------------------------------
(* mCleaner *)

Stale(hc) == lastUse[hc] = "old" \/ (lastUse[hc] = "never" /\ aged)

Kept(s) == [h \in HostNames |-> IF m[s][h] # NoClient /\ Stale(m[s][h])
                            THEN NoClient ELSE m[s][h]]

\* A map that is empty stops its cleaner, within the same section.
Sweeps(k) ==
    LET s == sweeper[k].scheme IN
    /\ sweeper[k].pc = "sweep"
    /\ m' = [m EXCEPT ![s] = Kept(s)]
    /\ sweeper' = [sweeper EXCEPT ![k].pc = IF \A h \in HostNames : Kept(s)[h] = NoClient
                                            THEN "off" ELSE "sleep"]
    /\ UNCHANGED <<lastUse, aged, visit>>

Wakes(k) ==
    /\ sweeper[k].pc = "sleep"
    /\ sweeper' = [sweeper EXCEPT ![k].pc = "sweep"]
    /\ UNCHANGED <<m, lastUse, aged, visit>>

Minute ==
    /\ aged' = TRUE
    /\ lastUse' = [hc \in HostClients |-> IF lastUse[hc] = "now" THEN "old" ELSE lastUse[hc]]
    /\ UNCHANGED <<m, visit, sweeper>>

-----------------------------------------------------------------------------
HostsNext ==
    \/ \E t \in Visitors :
          \/ \E s \in Schemes, h \in HostNames :
                Finds(t, s, h) \/ \E hc \in HostClients : Adds(t, s, h, hc)
          \/ \E k \in Sweepers : Spawns(t, k)
          \/ Attempts(t) \/ Returns(t)
    \/ \E k \in Sweepers : Sweeps(k) \/ Wakes(k)
    \/ Minute

HostsSpec == HostsInit /\ [][HostsNext]_hostVars

HostsTypeOK ==
    /\ m \in [Schemes -> [HostNames -> HostClients \cup {NoClient}]]
    /\ lastUse \in [HostClients -> {"never", "now", "old"}]
    /\ aged \in BOOLEAN
    /\ visit \in [Visitors -> [pc : {"idle", "spawn", "found", "doing"}, scheme : Schemes,
                               hc : HostClients \cup {NoClient}]]
    /\ sweeper \in [Sweepers -> [pc : {"off", "sweep", "sleep"}, scheme : Schemes]]

\* The goroutines that clean the map of this scheme, or are about to.
Cleaning(s) ==
    {<<"cleaner", k>> : k \in {j \in Sweepers : sweeper[j].pc # "off" /\ sweeper[j].scheme = s}}
    \cup {<<"call", t>> : t \in {u \in Visitors : visit[u].pc = "spawn" /\ visit[u].scheme = s}}

OneCleanerEach ==
    \A s \in Schemes : IF Known(s) = {} THEN Cleaning(s) = {}
                       ELSE \E x \in Cleaning(s) : Cleaning(s) = {x}

OnePlaceEach ==
    \A s1, s2 \in Schemes, h1, h2 \in HostNames :
       m[s1][h1] = m[s2][h2] /\ m[s1][h1] # NoClient => s1 = s2 /\ h1 = h2

\* Each map that is not empty has one cleaner, however often it empties and
\* fills again while cleaners sweep and calls start them, and an empty one has
\* none (client.go:382, 404, 415): no HostClient is kept for ever, and no
\* goroutine either. And a HostClient is in one place of the maps only.
EachMapHasItsCleaner == OneCleanerEach /\ OnePlaceEach
=============================================================================
