------------------------------- MODULE Ipv4LL -------------------------------
(***************************************************************************)
(* IPv4 link-local addresses in systemd: address conflict detection        *)
(* (src/libsystemd-network/sd-ipv4acd.c), the choice of an address         *)
(* (sd-ipv4ll.c) and the networkd handler (src/network/networkd-ipv4ll.c), *)
(* run by several hosts on one link.                                       *)
(*                                                                         *)
(* There is no clock.  A timer may expire at any time at which its host    *)
(* has no packet left to read: packets cross the link and are dispatched   *)
(* in far less than the second that the shortest timer runs.               *)
(***************************************************************************)
EXTENDS Integers, Sequences

CONSTANTS
    Host,
    Addr,         \* link-local addresses
    NoAddr,       \* 0
    PROBE_NUM, ANNOUNCE_NUM,
    MaxLost,      \* bound: transmissions that some host does not receive
    MaxSocket     \* bound: unread packets of a host when a timer expires

ASSUME Ipv4Assumption ==
    /\ NoAddr \notin Addr
    /\ PROBE_NUM \in Nat /\ PROBE_NUM >= 3
    /\ ANNOUNCE_NUM \in Nat /\ ANNOUNCE_NUM >= 1
    /\ MaxLost \in Nat /\ MaxSocket \in Nat

VARIABLES
    state,        \* acd->state, and "aborted" for a process that hit an assertion
    n_iteration,
    address,      \* ll->address, which is acd->address
    claimed,      \* ll->claimed_address, which networkd gives to the interface
    defended,     \* whether acd->defend_window lies ahead
    socket,       \* packets that passed the filter of the raw socket
    link,         \* "whole", or "parted" into single hosts and later "rejoined"
    lost

vars == <<state, n_iteration, address, claimed, defended, socket, link, lost>>

States == {"INIT", "STARTED", "WAITING_PROBE", "PROBING", "WAITING_ANNOUNCE",
           "ANNOUNCING", "RUNNING", "aborted"}

\* A packet either names our address as the sender's or only as the target.
Packet == {"spa", "tpa"}

Bound(h) == state[h] \notin {"INIT", "aborted"}
Quiet == \A h \in Host : socket[h] = <<>>

Init ==
    /\ state = [h \in Host |-> "INIT"]
    /\ n_iteration = [h \in Host |-> 0]
    /\ address = [h \in Host |-> NoAddr]
    /\ claimed = [h \in Host |-> NoAddr]
    /\ defended = [h \in Host |-> FALSE]
    /\ socket = [h \in Host |-> <<>>]
    /\ link \in {"whole", "parted"}
    /\ lost = 0

----------------------------------------------------------------------------
\* The filter of arp_network_bind_raw_socket: g reads a packet of h that names
\* the address g is after, unless g missed it.
Reads(g, h, a, miss) ==
    g # h /\ g \notin miss /\ link # "parted" /\ Bound(g) /\ address[g] = a

\* Announcing from h: the address is the sender's.
arp_send_announcement(h, miss) ==
    /\ lost + (IF miss = {} THEN 0 ELSE 1) <= MaxLost
    /\ lost' = lost + (IF miss = {} THEN 0 ELSE 1)
    /\ socket' = [g \in Host |-> IF Reads(g, h, address[h], miss)
                                 THEN Append(socket[g], "spa") ELSE socket[g]]

\* A probe from h names the address as the target only.  The kernel of a host
\* that has the address answers.
Answered(h, miss) ==
    \E g \in Host : g # h /\ g \notin miss /\ link # "parted" /\ claimed[g] = address[h]

arp_send_probe(h, miss) ==
    /\ lost + (IF miss = {} THEN 0 ELSE 1) <= MaxLost
    /\ lost' = lost + (IF miss = {} THEN 0 ELSE 1)
    /\ socket' = [g \in Host |->
           IF g = h THEN IF Answered(h, miss) THEN Append(socket[h], "spa") ELSE socket[h]
           ELSE IF Reads(g, h, address[h], miss) THEN Append(socket[g], "tpa") ELSE socket[g]]

\* sd_ipv4acd_start with the address a: a new socket, no window.
sd_ipv4acd_start(h, a) ==
    /\ address' = [address EXCEPT ![h] = a]
    /\ state' = [state EXCEPT ![h] = "STARTED"]
    /\ n_iteration' = [n_iteration EXCEPT ![h] = 0]
    /\ defended' = [defended EXCEPT ![h] = FALSE]
    /\ socket' = [socket EXCEPT ![h] = <<>>]

\* sd_ipv4ll_start picks an address unless there is one from before.
sd_ipv4ll_start(h, a) ==
    /\ state[h] = "INIT"
    /\ address[h] \in {NoAddr, a}
    /\ sd_ipv4acd_start(h, a)
    /\ UNCHANGED <<claimed, link, lost>>

\* sd_ipv4ll_stop; also where a packet cannot be sent or read.
sd_ipv4ll_stop(h) ==
    /\ Bound(h)
    /\ state' = [state EXCEPT ![h] = "INIT"]
    /\ n_iteration' = [n_iteration EXCEPT ![h] = 0]
    /\ claimed' = [claimed EXCEPT ![h] = NoAddr]
    /\ socket' = [socket EXCEPT ![h] = <<>>]
    /\ UNCHANGED <<address, defended, link, lost>>

\* ipv4acd_on_conflict: the detection is reset, and either ipv4ll_on_acd or,
\* when the address was in use, networkd starts it again with another address.
ipv4acd_on_conflict(h) ==
    /\ \E a \in Addr : sd_ipv4acd_start(h, a)
    /\ claimed' = [claimed EXCEPT ![h] = NoAddr]
    /\ UNCHANGED lost

\* Slip: an iteration in the same state is not counted.
SlipNoCount(h, st) ==
    /\ state' = [state EXCEPT ![h] = st]
    /\ n_iteration' = [n_iteration EXCEPT ![h] = 0]

\* ipv4acd_set_state with reset_counter false
ipv4acd_set_state(h, st) ==
    /\ state' = [state EXCEPT ![h] = st]
    /\ n_iteration' = [n_iteration EXCEPT ![h] = IF state[h] = st THEN @ + 1 ELSE 0]

----------------------------------------------------------------------------
\* The cases of ipv4acd_on_timeout.
WaitToProbe(h) ==
    /\ state[h] = "STARTED"
    /\ state' = [state EXCEPT ![h] = "WAITING_PROBE"]
    /\ n_iteration' = [n_iteration EXCEPT ![h] = 0]
    /\ UNCHANGED <<address, claimed, defended, socket, lost>>

\* Slip: the comparison that counts the probes is off by one.
SlipOneMore(h, miss) ==
    /\ state[h] \in {"WAITING_PROBE", "PROBING"}
    /\ arp_send_probe(h, miss)
    /\ IF n_iteration[h] < PROBE_NUM - 1
       THEN ipv4acd_set_state(h, "PROBING")
       ELSE /\ state' = [state EXCEPT ![h] = "WAITING_ANNOUNCE"]
            /\ n_iteration' = [n_iteration EXCEPT ![h] = 0]
    /\ UNCHANGED <<address, claimed, defended>>

Probe(h, miss) ==
    /\ state[h] \in {"WAITING_PROBE", "PROBING"}
    /\ arp_send_probe(h, miss)
    /\ IF n_iteration[h] < PROBE_NUM - 2
       THEN ipv4acd_set_state(h, "PROBING")
       ELSE /\ state' = [state EXCEPT ![h] = "WAITING_ANNOUNCE"]
            /\ n_iteration' = [n_iteration EXCEPT ![h] = 0]
    /\ UNCHANGED <<address, claimed, defended>>

Announce(h, miss) ==
    /\ \/ state[h] = "WAITING_ANNOUNCE"
       \/ state[h] = "ANNOUNCING" /\ n_iteration[h] < ANNOUNCE_NUM - 1
    /\ arp_send_announcement(h, miss)
    /\ ipv4acd_set_state(h, "ANNOUNCING")
    /\ claimed' = [claimed EXCEPT ![h] = IF n_iteration'[h] = 0 THEN address[h] ELSE @]
    /\ UNCHANGED <<address, defended>>

Settle(h) ==
    /\ state[h] = "ANNOUNCING" /\ n_iteration[h] >= ANNOUNCE_NUM - 1
    /\ ipv4acd_set_state(h, "RUNNING")
    /\ UNCHANGED <<address, claimed, defended, socket, lost>>

ipv4acd_on_timeout(h) ==
    /\ socket[h] = <<>> /\ \A g \in Host : Len(socket[g]) < MaxSocket
    /\ \/ WaitToProbe(h) \/ Settle(h)
       \/ \E miss \in SUBSET Host : Probe(h, miss) \/ Announce(h, miss)
    /\ UNCHANGED link

\* Slip: the window is not looked at.
SlipDefendsAgain(h, miss) ==
    /\ defended' = [defended EXCEPT ![h] = TRUE]
    /\ lost + (IF miss = {} THEN 0 ELSE 1) <= MaxLost
    /\ lost' = lost + (IF miss = {} THEN 0 ELSE 1)
    /\ socket' = [g \in Host |-> IF g = h THEN Tail(socket[h])
                                 ELSE IF Reads(g, h, address[h], miss)
                                 THEN Append(socket[g], "spa") ELSE socket[g]]
    /\ UNCHANGED <<state, n_iteration, address, claimed>>

\* The cases of ipv4acd_on_packet.  The packet is taken from the socket first.
Defend(h, miss) ==
    /\ ~defended[h]
    /\ defended' = [defended EXCEPT ![h] = TRUE]
    /\ lost + (IF miss = {} THEN 0 ELSE 1) <= MaxLost
    /\ lost' = lost + (IF miss = {} THEN 0 ELSE 1)
    /\ socket' = [g \in Host |-> IF g = h THEN Tail(socket[h])
                                 ELSE IF Reads(g, h, address[h], miss)
                                 THEN Append(socket[g], "spa") ELSE socket[g]]
    /\ UNCHANGED <<state, n_iteration, address, claimed>>

Ignore(h) ==
    /\ socket' = [socket EXCEPT ![h] = Tail(@)]
    /\ UNCHANGED <<state, n_iteration, address, claimed, defended, lost>>

Abort(h) ==
    /\ state' = [state EXCEPT ![h] = "aborted"]
    /\ socket' = [socket EXCEPT ![h] = <<>>]
    /\ UNCHANGED <<n_iteration, address, claimed, defended, lost>>

\* Slip: while probing, too, only a packet from the address is a conflict.
SlipIgnoresProbes(h) ==
    /\ socket[h] # <<>>
    /\ \/ Head(socket[h]) = "tpa" /\ Ignore(h)
       \/ /\ Head(socket[h]) = "spa" /\ state[h] \in {"ANNOUNCING", "RUNNING"}
          /\ \/ \E miss \in SUBSET Host : Defend(h, miss)
             \/ defended[h] /\ ipv4acd_on_conflict(h)
       \/ /\ Head(socket[h]) = "spa"
          /\ state[h] \in {"WAITING_PROBE", "PROBING", "WAITING_ANNOUNCE"}
          /\ ipv4acd_on_conflict(h)
       \/ Head(socket[h]) = "spa" /\ state[h] = "STARTED" /\ Abort(h)
    /\ UNCHANGED link

ipv4acd_on_packet(h) ==
    /\ socket[h] # <<>>
    /\ \/ /\ state[h] \in {"ANNOUNCING", "RUNNING"}
          /\ \/ Head(socket[h]) = "tpa" /\ Ignore(h)
             \/ /\ Head(socket[h]) = "spa"
                /\ \/ \E miss \in SUBSET Host : Defend(h, miss)
                   \/ defended[h] /\ ipv4acd_on_conflict(h)
       \/ /\ state[h] \in {"WAITING_PROBE", "PROBING", "WAITING_ANNOUNCE"}
          /\ ipv4acd_on_conflict(h)
       \/ state[h] = "STARTED" /\ Abort(h)      \* assert_not_reached
    /\ UNCHANGED link

----------------------------------------------------------------------------
\* The ten seconds of the window are over; longer than any exchange of packets.
WindowEnds(h) ==
    /\ defended[h] /\ Quiet
    /\ defended' = [defended EXCEPT ![h] = FALSE]
    /\ UNCHANGED <<state, n_iteration, address, claimed, socket, link, lost>>

\* A host that has an address asks for another: the packet names both.  Bound:
\* only on a quiet link.
Talk(h, a) ==
    /\ claimed[h] # NoAddr /\ claimed[h] # a /\ Quiet
    /\ socket' = [g \in Host |-> IF Reads(g, h, claimed[h], {}) THEN <<"spa">>
                                 ELSE IF Reads(g, h, a, {}) THEN <<"tpa">> ELSE <<>>]
    /\ UNCHANGED <<state, n_iteration, address, claimed, defended, link, lost>>

Rejoin ==
    /\ link = "parted"
    /\ link' = "rejoined"
    /\ UNCHANGED <<state, n_iteration, address, claimed, defended, socket, lost>>

Step(h) ==
    \/ ipv4acd_on_timeout(h) \/ ipv4acd_on_packet(h) \/ sd_ipv4ll_stop(h) \/ WindowEnds(h)
    \/ \E a \in Addr : sd_ipv4ll_start(h, a) \/ Talk(h, a)

Next == Rejoin \/ \E h \in Host : Step(h)

Spec == Init /\ [][Next]_vars

\* Packets are read and timers run; hosts with an address use it now and then.
FairSpec ==
    /\ Spec
    /\ \A h \in Host : /\ WF_vars(ipv4acd_on_packet(h))
                       /\ WF_vars(ipv4acd_on_timeout(h))
                       /\ \A a \in Addr : SF_vars(Talk(h, a))

----------------------------------------------------------------------------
Shared(g, h) == g # h /\ claimed[g] # NoAddr /\ claimed[g] = claimed[h]

\* The largest value of n_iteration in a state.
MaxIteration(st) == IF st = "PROBING" THEN PROBE_NUM - 2
                    ELSE IF st = "ANNOUNCING" THEN ANNOUNCE_NUM - 1
                    ELSE 0

\* Type invariant of the fields of sd_ipv4acd and sd_ipv4ll, with the range of
\* n_iteration in each state.
TypeOK ==
    /\ state \in [Host -> States]
    /\ n_iteration \in [Host -> Nat]
    /\ \A h \in Host : n_iteration[h] <= MaxIteration(state[h])
    /\ address \in [Host -> Addr \cup {NoAddr}]
    /\ claimed \in [Host -> Addr \cup {NoAddr}]
    /\ defended \in [Host -> BOOLEAN]
    /\ socket \in [Host -> Seq(Packet)]
    /\ link \in {"whole", "parted", "rejoined"}
    /\ lost \in 0 .. MaxLost

\* On a link that was never parted no two hosts claim the same address, in
\* whatever order their timers run and packets are read, although MaxLost
\* transmissions are lost: each of the PROBE_NUM probes of ipv4acd_on_timeout
\* is a chance of its own to hear of the other host.
Unique == link = "whole" => \A g, h \in Host : ~Shared(g, h)

\* Two hosts that share an address once they can hear each other do not both
\* keep it: ipv4acd_on_packet defends an address once within the window and
\* then gives it up.
SharedResolved ==
    \A g, h \in Host : (Shared(g, h) /\ link # "parted") ~> ~Shared(g, h)

\* A host that waits to probe does not probe for ever: it gets the address or
\* ipv4acd_on_conflict starts over, unless it is stopped.
AttemptEnds ==
    \A h \in Host : state[h] = "WAITING_PROBE" ~>
        (claimed[h] # NoAddr \/ state[h] \in {"INIT", "STARTED", "aborted"})

\* The last case of ipv4acd_on_packet is never reached, as its
\* assert_not_reached says: no packet is read in the state STARTED.
StateValid == \A h \in Host : state[h] # "aborted"
=============================================================================
