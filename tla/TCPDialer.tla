------------------------------ MODULE TCPDialer ------------------------------
(* The dialer that HostClient.acquireConn reaches when Dial is not set:        *)
(* router/fasthttp/tcpdialer.go, for one host name of Addrs addresses.         *)
(*                                                                             *)
(* dpc[r] is where the goroutine r is in the dial of its HostClient.Do. A      *)
(* result channel d is one of dialResultChanPool or new; dials[d] says what    *)
(* there is behind it: "free", a dialing goroutine that will send to it, or    *)
(* its result. A goroutine that has sent and still holds its place among       *)
(* maxDialConcurrency is only counted, by leaving: its channel may be in use   *)
(* again by then. A deadline may pass at every place where the code looks at   *)
(* the clock or waits with a timer.                                            *)
EXTENDS HostClient

CONSTANTS
    Dials,              \* the identities of result channels, numbers
    MaxDials,           \* maxDialConcurrency, 1000 in the code
    Addrs               \* how many addresses the name has

ASSUME DialAssumption == IsFiniteSet(Dials) /\ Dials \subseteq Nat /\ {MaxDials, Addrs} \subseteq Nat \ {0}

VARIABLES
    dpc, left, result,  \* of each dial: its place, the addresses left, its channel
    dials, leaving,     \* what is behind each channel, goroutines that have sent
    slots,              \* the length of concurrencyCh
    entry               \* of tcpAddrsMap: "none", "fresh", "old" or "pending"

dialing == <<dpc, left, result>>
dialer == <<dialing, dials, leaving, slots, entry>>
network == <<dials, leaving, slots>>

DialerInit ==
    /\ dpc = [r \in Threads |-> "none"] /\ left = [r \in Threads |-> 0]
    /\ result = [r \in Threads |-> Nil]
    /\ dials = [d \in Dials |-> "free"] /\ leaving = 0
    /\ slots = 0 /\ entry = "none"

At1(r, place) == rpc[r] = "dial" /\ dpc[r] = place

To(r, place) == dpc' = [dpc EXCEPT ![r] = place]

\* The dial is over, and nobody receives from its channel any more.
Over(r) == To(r, "none") /\ left' = [left EXCEPT ![r] = 0] /\ result' = [result EXCEPT ![r] = Nil]

Resolved(r) == To(r, "slot") /\ left' = [left EXCEPT ![r] = Addrs] /\ UNCHANGED result

\* An entry that is too old is resolved again by the one who finds it so; the
\* others use it meanwhile.
LookUp(r) ==
    /\ At1(r, "none")
    /\ IF entry \in {"fresh", "pending"} THEN Resolved(r) ELSE To(r, "resolve") /\ UNCHANGED <<left, result>>
    /\ entry' = IF entry = "old" THEN "pending" ELSE entry
    /\ UNCHANGED <<vars, network>>

Resolve(r) ==
    /\ At1(r, "resolve")
    /\ entry' = "fresh"
    /\ Resolved(r)
    /\ UNCHANGED <<vars, network>>

\* Mutant: the entry stays pending.
ResolveFailsOnly(r) ==
    /\ At1(r, "resolve")
    /\ Over(r)
    /\ DialFails(r)
    /\ UNCHANGED <<network, entry>>

ResolveFails(r) ==
    /\ At1(r, "resolve")
    /\ entry' = IF entry = "pending" THEN "old" ELSE entry
    /\ Over(r)
    /\ DialFails(r)
    /\ UNCHANGED network

\* A place in concurrencyCh is free, at once or in time, and the dial starts.
StartDial(r) ==
    /\ At1(r, "slot")
    /\ slots < MaxDials
    /\ slots' = slots + 1
    /\ \E d \in Dials :
          /\ dials[d] = "free"
          /\ \A e \in Dials : dials[e] = "free" => d <= e
          /\ dials' = [dials EXCEPT ![d] = "dialing"]
          /\ result' = [result EXCEPT ![r] = d]
    /\ To(r, "result")
    /\ UNCHANGED <<vars, left, leaving, entry>>

\* ErrDialTimeout, without a place in concurrencyCh or before a result was
\* received: no other address is tried, and the channel is left to the goroutine,
\* or to nobody if that has sent.
TimeOut(r) ==
    /\ rpc[r] = "dial" /\ dpc[r] \in {"slot", "result"}
    /\ dials' = [d \in Dials |-> IF d = result[r] /\ dials[d] # "dialing" THEN "free" ELSE dials[d]]
    /\ Over(r)
    /\ DialFails(r)
    /\ UNCHANGED <<leaving, slots, entry>>

\* The goroutine sends; a connection that nobody waits for any more is closed
\* by nobody and left to the garbage collector.
DialEnds(d) ==
    /\ dials[d] = "dialing"
    /\ \E dr \in {"conn", "err"} :
          dials' = [dials EXCEPT ![d] = IF \E r \in Threads : result[r] = d THEN dr ELSE "free"]
    /\ leaving' = leaving + 1
    /\ UNCHANGED <<vars, dialing, slots, entry>>

LeaveSlot ==
    /\ leaving > 0
    /\ leaving' = leaving - 1
    /\ slots' = slots - 1
    /\ UNCHANGED <<vars, dialing, dials, entry>>

Got(r, dr) ==
    /\ At1(r, "result")
    /\ dials[result[r]] = dr
    /\ dials' = [dials EXCEPT ![result[r]] = "free"]

Connected(r) ==
    /\ Got(r, "conn")
    /\ Over(r)
    /\ Dial(r)
    /\ UNCHANGED <<leaving, slots, entry>>

NextAddr(r) ==
    /\ Got(r, "err")
    /\ left[r] > 1
    /\ left' = [left EXCEPT ![r] = @ - 1]
    /\ result' = [result EXCEPT ![r] = Nil]
    /\ To(r, "slot")
    /\ UNCHANGED <<vars, leaving, slots, entry>>

Unreachable(r) ==
    /\ Got(r, "err")
    /\ left[r] = 1
    /\ Over(r)
    /\ DialFails(r)
    /\ UNCHANGED <<leaving, slots, entry>>

\* DefaultDNSCacheDuration is over; tcpAddrsClean comes by after twice that.
Age == entry = "fresh" /\ entry' = "old" /\ UNCHANGED <<vars, dialing, network>>
TcpAddrsClean == entry \in {"old", "pending"} /\ entry' = "none" /\ UNCHANGED <<vars, dialing, network>>

Dialing(r) ==
    \/ LookUp(r) \/ Resolve(r) \/ ResolveFails(r) \/ StartDial(r) \/ TimeOut(r)
    \/ Connected(r) \/ NextAddr(r) \/ Unreachable(r)

Dialer == (\E d \in Dials : DialEnds(d)) \/ LeaveSlot \/ Age \/ TcpAddrsClean

-----------------------------------------------------------------------------

DialTypes ==
    /\ dpc \in [Threads -> {"none", "resolve", "slot", "result"}]
    /\ left \in [Threads -> 0..Addrs]
    /\ result \in [Threads -> Dials \cup {Nil}]
    /\ dials \in [Dials -> {"free", "dialing", "conn", "err"}]
    /\ leaving \in Nat /\ slots \in 0..MaxDials
    /\ entry \in {"none", "fresh", "old", "pending"}

\* A place of maxDialConcurrency is taken for every goroutine that dials or has
\* not left yet, also when nobody waits for it, and given back once; nobody
\* receives from a channel that another dial uses; and an old entry is pending
\* only while somebody resolves it, or it would be used for ever: through
\* timeouts, failed look-ups, late results and the cleaning.
DialerKeepsItsBooks ==
    /\ slots = leaving + Cardinality({d \in Dials : dials[d] = "dialing"})
    /\ slots <= MaxDials
    /\ \A r, s \in Threads : result[r] # Nil /\ result[r] = result[s] => r = s
    /\ entry = "pending" => \E r \in Threads : dpc[r] = "resolve"
=============================================================================
