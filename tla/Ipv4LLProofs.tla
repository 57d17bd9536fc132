---------------------------- MODULE Ipv4LLProofs ----------------------------
(***************************************************************************)
(* Proofs about Ipv4LL for any hosts, addresses and number of probes.      *)
(*                                                                         *)
(* Why two hosts do not claim one address: a host that probes an address   *)
(* another host is after either leaves a packet in one of the two sockets, *)
(* which ends the attempt of a host that has not claimed yet, or its probe *)
(* is lost.  So of two hosts after one address, and neither about to read  *)
(* of the other, one has sent no more probes than were lost.               *)
(***************************************************************************)
EXTENDS Ipv4LL, TLAPS

Trying == {"STARTED", "WAITING_PROBE", "PROBING", "WAITING_ANNOUNCE"}
Owning == {"ANNOUNCING", "RUNNING"}

\* Probes that h has sent since it started on its address.
Sent(h) == IF state[h] \in {"STARTED", "WAITING_PROBE"} THEN 0
           ELSE IF state[h] = "PROBING" THEN n_iteration[h] + 1
           ELSE PROBE_NUM

\* h has not claimed yet and is about to read that it should not.
Warned(h) == state[h] \in Trying /\ socket[h] # <<>>

\* The interface has the address exactly while it is announced and defended.
Claims ==
    /\ \A h \in Host : claimed[h] = IF state[h] \in Owning THEN address[h] ELSE NoAddr
    /\ \A h \in Host : Bound(h) => address[h] \in Addr

Rivals(g, h) == g # h /\ Bound(g) /\ Bound(h) /\ address[g] = address[h]

\* The heart of the argument, as above.
Heard ==
    link = "whole" => \A g, h \in Host : Rivals(g, h) =>
        (Warned(g) \/ Warned(h) \/ Sent(g) <= lost \/ Sent(h) <= lost)

IInv == TypeOK /\ Claims /\ Heard

----------------------------------------------------------------------------
LEMMA InitIInv == Init => IInv
  <1> SUFFICES ASSUME Init PROVE IInv
    OBVIOUS
  <1> USE Ipv4Assumption
  <1>1. \A h \in Host : /\ state[h] = "INIT" /\ n_iteration[h] = 0
                        /\ address[h] = NoAddr /\ claimed[h] = NoAddr
                        /\ ~Bound(h)
    BY DEF Init, Bound
  <1>2. TypeOK
    <2>1. socket \in [Host -> Seq(Packet)]
      BY DEF Init
    <2>2. state \in [Host -> States]
      <3>1. "INIT" \in States
        BY DEF States
      <3> QED
        BY <3>1 DEF Init
    <2>7. n_iteration \in [Host -> Nat]
      <3>1. 0 \in Nat
        OBVIOUS
      <3> QED
        BY <3>1, Zenon DEF Init
    <2>4. /\ address \in [Host -> Addr \cup {NoAddr}]
          /\ claimed \in [Host -> Addr \cup {NoAddr}]
      BY DEF Init
    <2>5. defended \in [Host -> BOOLEAN]
      BY DEF Init
    <2>6. link \in {"whole", "parted", "rejoined"} /\ lost \in 0 .. MaxLost
      BY DEF Init
    <2>3. \A h \in Host : n_iteration[h] <= MaxIteration(state[h])
      <3>1. 0 <= MaxIteration("INIT")
        BY DEF MaxIteration
      <3> QED
        BY <1>1, <3>1
    <2> QED
      BY <2>1, <2>2, <2>3, <2>4, <2>5, <2>6, <2>7 DEF TypeOK
  <1>3. Claims
    BY <1>1 DEF Claims, Owning
  <1>4. Heard
    BY <1>1 DEF Heard, Rivals
  <1> QED
    BY <1>2, <1>3, <1>4 DEF IInv

\* Only h changes its mind, and no other socket runs empty: then Heard is kept
\* when h starts afresh, keeps its place, or has been heard by every rival.
LEMMA HeardStep ==
  ASSUME IInv, TypeOK', NEW h \in Host, link' = link, lost' >= lost,
         \A x \in Host : x # h =>
             /\ state'[x] = state[x] /\ n_iteration'[x] = n_iteration[x]
             /\ address'[x] = address[x]
             /\ (socket[x] # <<>> => socket'[x] # <<>>),
         \/ ~Bound(h)'
         \/ Sent(h)' <= lost'
         \/ /\ address'[h] = address[h] /\ Bound(h) /\ Sent(h)' <= Sent(h)
            /\ (Warned(h) => Warned(h)')
         \/ /\ address'[h] = address[h] /\ Bound(h)
            /\ link = "whole" => \A x \in Host : Rivals(x, h) =>
                   (Warned(x)' \/ Warned(h)' \/ Sent(x) <= lost')
  PROVE  Heard'
  <1> USE Ipv4Assumption
  <1>t. /\ lost \in Nat /\ lost' \in Nat
        /\ \A x \in Host : n_iteration[x] \in Nat /\ n_iteration'[x] \in Nat
    BY DEF IInv, TypeOK
  <1>1. \A x \in Host : x # h =>
            /\ Sent(x)' = Sent(x) /\ (Bound(x)' <=> Bound(x)) /\ (Warned(x) => Warned(x)')
    BY DEF Sent, Bound, Warned
  <1>2. \A x \in Host : Sent(x) \in Nat /\ Sent(x)' \in Nat
    BY <1>t DEF Sent
  <1>3. ASSUME link = "whole", NEW x \in Host, x # h, Bound(x)', Bound(h)',
               address'[x] = address'[h]
        PROVE  Warned(x)' \/ Warned(h)' \/ Sent(x)' <= lost' \/ Sent(h)' <= lost'
    <2>1. Bound(x) /\ address'[x] = address[x]
      BY <1>1, <1>3
    <2>2. CASE Sent(h)' <= lost'
      BY <2>2
    <2>3. CASE /\ address'[h] = address[h] /\ Bound(h) /\ Sent(h)' <= Sent(h)
               /\ (Warned(h) => Warned(h)')
      <3>1. Rivals(x, h)
        BY <1>3, <2>1, <2>3 DEF Rivals
      <3>2. Warned(x) \/ Warned(h) \/ Sent(x) <= lost \/ Sent(h) <= lost
        BY <1>3, <3>1 DEF IInv, Heard
      <3>3. CASE Warned(x) \/ Warned(h)
        BY <1>1, <1>3, <2>3, <3>3
      <3>4. CASE Sent(x) <= lost
        BY <1>1, <1>2, <1>3, <1>t, <3>4
      <3>5. CASE Sent(h) <= lost
        BY <1>2, <1>t, <2>3, <3>5
      <3> QED
        BY <3>2, <3>3, <3>4, <3>5
    <2>4. CASE /\ address'[h] = address[h] /\ Bound(h)
               /\ link = "whole" => \A y \in Host : Rivals(y, h) =>
                      (Warned(y)' \/ Warned(h)' \/ Sent(y) <= lost')
      <3>1. Rivals(x, h)
        BY <1>3, <2>1, <2>4 DEF Rivals
      <3> QED
        BY <1>1, <1>3, <2>4, <3>1
    <2> QED
      BY <1>3, <2>2, <2>3, <2>4
  <1>4. ASSUME link = "whole", NEW x \in Host, NEW y \in Host, x # h, y # h, Rivals(x, y)'
        PROVE  Warned(x)' \/ Warned(y)' \/ Sent(x)' <= lost' \/ Sent(y)' <= lost'
    <2>1. Rivals(x, y)
      BY <1>1, <1>4 DEF Rivals
    <2>2. Warned(x) \/ Warned(y) \/ Sent(x) <= lost \/ Sent(y) <= lost
      BY <1>4, <2>1 DEF IInv, Heard
    <2> QED
      BY <1>1, <1>2, <1>4, <1>t, <2>2
  <1>5. ASSUME link = "whole", NEW x \in Host, NEW y \in Host, Rivals(x, y)'
        PROVE  Warned(x)' \/ Warned(y)' \/ Sent(x)' <= lost' \/ Sent(y)' <= lost'
    <2>1. x # y /\ Bound(x)' /\ Bound(y)' /\ address'[x] = address'[y]
      BY <1>5 DEF Rivals
    <2>2. CASE x = h
      BY <1>3, <1>5, <2>1, <2>2
    <2>3. CASE y = h
      BY <1>3, <1>5, <2>1, <2>3
    <2>4. CASE x # h /\ y # h
      BY <1>4, <1>5, <2>4
    <2> QED
      BY <2>2, <2>3, <2>4
  <1> QED
    BY <1>5 DEF Heard

\* sd_ipv4acd_start: h starts afresh.
LEMMA StartStep ==
  ASSUME IInv, NEW h \in Host, NEW a \in Addr, sd_ipv4acd_start(h, a),
         claimed' = [claimed EXCEPT ![h] = NoAddr], UNCHANGED <<link, lost>>
  PROVE  IInv'
  <1> USE Ipv4Assumption
  <1>1. /\ state'[h] = "STARTED" /\ n_iteration'[h] = 0 /\ address'[h] = a
        /\ claimed'[h] = NoAddr
    BY DEF sd_ipv4acd_start, IInv, TypeOK
  <1>2. \A x \in Host : x # h =>
            /\ state'[x] = state[x] /\ n_iteration'[x] = n_iteration[x]
            /\ address'[x] = address[x] /\ claimed'[x] = claimed[x] /\ socket'[x] = socket[x]
    BY DEF sd_ipv4acd_start, IInv, TypeOK
  <1>3. TypeOK'
    <2>1. /\ state' \in [Host -> States] /\ n_iteration' \in [Host -> Nat]
          /\ address' \in [Host -> Addr \cup {NoAddr}]
          /\ claimed' \in [Host -> Addr \cup {NoAddr}]
          /\ defended' \in [Host -> BOOLEAN]
      BY DEF sd_ipv4acd_start, IInv, TypeOK, States
    <2>2. socket' \in [Host -> Seq(Packet)]
      BY DEF sd_ipv4acd_start, IInv, TypeOK
    <2>3. \A x \in Host : n_iteration'[x] <= MaxIteration(state'[x])
      <3>1. n_iteration'[h] <= MaxIteration(state'[h])
        BY <1>1, <1>2 DEF MaxIteration
      <3> QED
        BY <1>1, <1>2, <3>1 DEF IInv, TypeOK
    <2> QED
      BY <2>1, <2>2, <2>3 DEF IInv, TypeOK
  <1>4. Claims'
    BY <1>1, <1>2 DEF IInv, Claims, Owning, Bound
  <1>5. Sent(h)' <= lost'
    BY <1>1 DEF Sent, IInv, TypeOK
  <1>6. lost' >= lost
    BY DEF IInv, TypeOK
  <1>7. Heard'
    BY <1>2, <1>3, <1>5, <1>6, HeardStep
  <1> QED
    BY <1>3, <1>4, <1>7 DEF IInv

\* sd_ipv4ll_stop and the assertion: h is gone.
LEMMA GoneStep ==
  ASSUME IInv, NEW h \in Host, sd_ipv4ll_stop(h) \/ (state[h] = "STARTED" /\ Abort(h) /\ link' = link)
  PROVE  IInv'
  <1> USE Ipv4Assumption
  <1>t. /\ state \in [Host -> States] /\ n_iteration \in [Host -> Nat]
        /\ address \in [Host -> Addr \cup {NoAddr}]
        /\ claimed \in [Host -> Addr \cup {NoAddr}]
        /\ defended \in [Host -> BOOLEAN]
        /\ socket \in [Host -> Seq(Packet)]
        /\ lost \in Nat
    BY DEF IInv, TypeOK
  <1>0. state[h] = "STARTED" => n_iteration[h] = 0 /\ claimed[h] = NoAddr
    <2>1. state[h] = "STARTED" => n_iteration[h] <= 0
      BY DEF IInv, TypeOK, MaxIteration
    <2>2. state[h] = "STARTED" => claimed[h] = NoAddr
      BY DEF IInv, Claims, Owning
    <2> QED
      BY <1>t, <2>1, <2>2
  <1>1. /\ \E st \in {"INIT", "aborted"} : state' = [state EXCEPT ![h] = st]
        /\ n_iteration' = [n_iteration EXCEPT ![h] = 0]
        /\ claimed' = [claimed EXCEPT ![h] = NoAddr]
        /\ socket' = [socket EXCEPT ![h] = <<>>]
        /\ UNCHANGED <<address, defended, link, lost>>
    <2>1. CASE sd_ipv4ll_stop(h)
      BY <2>1 DEF sd_ipv4ll_stop
    <2>2. CASE state[h] = "STARTED" /\ Abort(h) /\ link' = link
      <3>1. n_iteration = [n_iteration EXCEPT ![h] = 0] /\ claimed = [claimed EXCEPT ![h] = NoAddr]
        BY <1>t, <1>0, <2>2
      <3> QED
        BY <2>2, <3>1 DEF Abort
    <2> QED
      BY <2>1, <2>2
  <1>2. PICK st \in {"INIT", "aborted"} : state' = [state EXCEPT ![h] = st]
    BY <1>1
  <1>3. /\ ~Bound(h)' /\ state'[h] = st /\ n_iteration'[h] = 0 /\ claimed'[h] = NoAddr
        /\ \A x \in Host : x # h =>
            /\ state'[x] = state[x] /\ n_iteration'[x] = n_iteration[x]
            /\ address'[x] = address[x] /\ claimed'[x] = claimed[x] /\ socket'[x] = socket[x]
    BY <1>t, <1>1, <1>2 DEF Bound
  <1>4. TypeOK'
    <2>1. /\ state' \in [Host -> States] /\ n_iteration' \in [Host -> Nat]
          /\ address' \in [Host -> Addr \cup {NoAddr}]
          /\ claimed' \in [Host -> Addr \cup {NoAddr}]
          /\ defended' \in [Host -> BOOLEAN]
      BY <1>t, <1>1, <1>2 DEF States
    <2>2. socket' \in [Host -> Seq(Packet)]
      BY <1>t, <1>1
    <2>3. \A x \in Host : n_iteration'[x] <= MaxIteration(state'[x])
      <3>1. n_iteration'[h] <= MaxIteration(state'[h])
        BY <1>3 DEF MaxIteration
      <3> QED
        BY <1>3, <3>1 DEF IInv, TypeOK
    <2> QED
      BY <1>1, <2>1, <2>2, <2>3 DEF IInv, TypeOK
  <1>5. Claims'
    BY <1>3 DEF IInv, Claims, Owning, Bound
  <1>6. link' = link /\ lost' >= lost
    BY <1>t, <1>1
  <1>7. Heard'
    BY <1>3, <1>4, <1>6, HeardStep
  <1> QED
    BY <1>4, <1>5, <1>7 DEF IInv

\* The steps in which h keeps its place: it waits to probe, announces, settles,
\* or owns the address and reads a packet.
LEMMA PlaceStep ==
  ASSUME IInv, NEW h \in Host, link' = link, TypeOK', lost' >= lost,
         Bound(h), Bound(h)', address' = address, Sent(h)' = Sent(h),
         ~Warned(h),
         claimed'[h] = IF state'[h] \in Owning THEN address[h] ELSE NoAddr,
         \A x \in Host : x # h =>
             /\ state'[x] = state[x] /\ n_iteration'[x] = n_iteration[x]
             /\ claimed'[x] = claimed[x]
             /\ (socket[x] # <<>> => socket'[x] # <<>>)
  PROVE  IInv'
  <1>1. Claims'
    BY DEF IInv, Claims, Bound
  <1>2. Sent(h)' <= Sent(h)
    <2>1. n_iteration[h] \in Nat
      BY DEF IInv, TypeOK
    <2>2. Sent(h) \in Nat
      BY <2>1, Ipv4Assumption DEF Sent
    <2> QED
      BY <2>2
  <1>3. Heard'
    BY <1>2, HeardStep
  <1> QED
    BY <1>1, <1>3 DEF IInv

\* What a transmission does to the sockets and to the count of lost ones.
LEMMA SendFacts ==
  ASSUME IInv, NEW h \in Host, NEW miss \in SUBSET Host,
         arp_send_probe(h, miss) \/ arp_send_announcement(h, miss)
  PROVE  /\ socket' \in [Host -> Seq(Packet)]
         /\ \A x \in Host : socket[x] # <<>> => socket'[x] # <<>>
         /\ lost' \in 0 .. MaxLost /\ lost' >= lost
         /\ miss # {} => lost' = lost + 1
  <1>t. /\ lost \in Nat /\ lost <= MaxLost /\ MaxLost \in Nat
        /\ \A x \in Host : socket[x] \in Seq(Packet)
    BY Ipv4Assumption DEF IInv, TypeOK
  <1>1. "spa" \in Packet /\ "tpa" \in Packet
    BY DEF Packet
  <1>2. \A x \in Host : \A k \in Packet :
            Append(socket[x], k) \in Seq(Packet) /\ Append(socket[x], k) # <<>>
    BY <1>t
  <1>3. lost' \in 0 .. MaxLost /\ lost' >= lost /\ (miss # {} => lost' = lost + 1)
    BY <1>t DEF arp_send_probe, arp_send_announcement
  <1>4. CASE arp_send_probe(h, miss)
    <2>1. socket' = [g \in Host |->
             IF g = h THEN IF Answered(h, miss) THEN Append(socket[h], "spa") ELSE socket[h]
             ELSE IF Reads(g, h, address[h], miss) THEN Append(socket[g], "tpa") ELSE socket[g]]
      BY <1>4 DEF arp_send_probe
    <2>2. \A x \in Host : socket'[x] \in {socket[x], Append(socket[x], "spa"), Append(socket[x], "tpa")}
      BY <2>1
    <2>3. \A x \in Host : socket'[x] \in Seq(Packet) /\ (socket[x] # <<>> => socket'[x] # <<>>)
      BY <1>t, <1>1, <1>2, <2>2
    <2> QED
      BY <1>3, <2>1, <2>3
  <1>5. CASE arp_send_announcement(h, miss)
    <2>1. socket' = [g \in Host |-> IF Reads(g, h, address[h], miss)
                                    THEN Append(socket[g], "spa") ELSE socket[g]]
      BY <1>5 DEF arp_send_announcement
    <2>2. \A x \in Host : socket'[x] \in {socket[x], Append(socket[x], "spa")}
      BY <2>1
    <2>3. \A x \in Host : socket'[x] \in Seq(Packet) /\ (socket[x] # <<>> => socket'[x] # <<>>)
      BY <1>t, <1>1, <1>2, <2>2
    <2> QED
      BY <1>3, <2>1, <2>3
  <1> QED
    BY <1>4, <1>5

\* The fields that a step sets for h only keep their types.
LEMMA TypesKept ==
  ASSUME TypeOK, NEW h \in Host, NEW st \in States, NEW n \in Nat, n <= MaxIteration(st),
         state' = [state EXCEPT ![h] = st], n_iteration' = [n_iteration EXCEPT ![h] = n],
         address' = address, link' = link,
         claimed' \in [Host -> Addr \cup {NoAddr}], defended' \in [Host -> BOOLEAN],
         socket' \in [Host -> Seq(Packet)], lost' \in 0 .. MaxLost
  PROVE  TypeOK'
  <1>1. state' \in [Host -> States] /\ n_iteration' \in [Host -> Nat]
    BY DEF TypeOK
  <1>2. \A x \in Host : n_iteration'[x] <= MaxIteration(state'[x])
    BY DEF TypeOK
  <1> QED
    BY <1>1, <1>2 DEF TypeOK

\* A probe: either every rival is warned, or warns h, or the probe was lost.
LEMMA ProbeStep ==
  ASSUME IInv, NEW h \in Host, NEW miss \in SUBSET Host, Probe(h, miss),
         socket[h] = <<>>, link' = link
  PROVE  IInv'
  <1> USE Ipv4Assumption
  <1>t. /\ n_iteration[h] \in Nat /\ n_iteration[h] <= MaxIteration(state[h]) /\ lost \in Nat
        /\ state \in [Host -> States] /\ n_iteration \in [Host -> Nat]
        /\ \A x \in Host : socket[x] \in Seq(Packet)
    BY DEF IInv, TypeOK
  <1>1. /\ socket' \in [Host -> Seq(Packet)]
        /\ \A x \in Host : socket[x] # <<>> => socket'[x] # <<>>
        /\ lost' \in 0 .. MaxLost /\ lost' >= lost
        /\ miss # {} => lost' = lost + 1
    BY SendFacts DEF Probe
  <1>2. \E st \in {"PROBING", "WAITING_ANNOUNCE"}, n \in Nat :
            /\ state' = [state EXCEPT ![h] = st] /\ n_iteration' = [n_iteration EXCEPT ![h] = n]
            /\ n <= MaxIteration(st)
            /\ st = "PROBING" => n + 1 <= Sent(h) + 1
            /\ st = "WAITING_ANNOUNCE" => PROBE_NUM <= Sent(h) + 1
    <2>1. CASE n_iteration[h] < PROBE_NUM - 2 /\ state[h] = "WAITING_PROBE"
      <3>1. state' = [state EXCEPT ![h] = "PROBING"] /\ n_iteration' = [n_iteration EXCEPT ![h] = 0]
        BY <1>t, <2>1 DEF Probe, ipv4acd_set_state
      <3>3. /\ 0 \in Nat /\ 0 <= MaxIteration("PROBING")
            /\ "PROBING" = "PROBING" => 0 + 1 <= Sent(h) + 1
            /\ "PROBING" = "WAITING_ANNOUNCE" => PROBE_NUM <= Sent(h) + 1
        BY <1>t, <2>1 DEF Sent, MaxIteration
      <3> QED
        BY <3>1, <3>3
    <2>2. CASE n_iteration[h] < PROBE_NUM - 2 /\ state[h] = "PROBING"
      <3>1. /\ state' = [state EXCEPT ![h] = "PROBING"]
            /\ n_iteration' = [n_iteration EXCEPT ![h] = n_iteration[h] + 1]
        BY <1>t, <2>2 DEF Probe, ipv4acd_set_state
      <3>3. /\ n_iteration[h] + 1 \in Nat /\ n_iteration[h] + 1 <= MaxIteration("PROBING")
            /\ "PROBING" = "PROBING" => (n_iteration[h] + 1) + 1 <= Sent(h) + 1
            /\ "PROBING" = "WAITING_ANNOUNCE" => PROBE_NUM <= Sent(h) + 1
        BY <1>t, <2>2 DEF Sent, MaxIteration
      <3> QED
        BY <3>1, <3>3
    <2>3. CASE ~(n_iteration[h] < PROBE_NUM - 2)
      <3>1. /\ state' = [state EXCEPT ![h] = "WAITING_ANNOUNCE"]
            /\ n_iteration' = [n_iteration EXCEPT ![h] = 0]
        BY <1>t, <2>3 DEF Probe, ipv4acd_set_state
      <3>2. state[h] = "PROBING" /\ n_iteration[h] = PROBE_NUM - 2
        BY <1>t, <2>3 DEF Probe, MaxIteration
      <3>3. /\ 0 \in Nat /\ 0 <= MaxIteration("WAITING_ANNOUNCE")
            /\ "WAITING_ANNOUNCE" = "PROBING" => 0 + 1 <= Sent(h) + 1
            /\ "WAITING_ANNOUNCE" = "WAITING_ANNOUNCE" => PROBE_NUM <= Sent(h) + 1
        BY <1>t, <3>2 DEF Sent, MaxIteration
      <3> QED
        BY <3>1, <3>3
    <2> QED
      BY <2>1, <2>2, <2>3 DEF Probe
  <1>3. PICK st \in {"PROBING", "WAITING_ANNOUNCE"}, n \in Nat :
            /\ state' = [state EXCEPT ![h] = st] /\ n_iteration' = [n_iteration EXCEPT ![h] = n]
            /\ n <= MaxIteration(st)
            /\ st = "PROBING" => n + 1 <= Sent(h) + 1
            /\ st = "WAITING_ANNOUNCE" => PROBE_NUM <= Sent(h) + 1
    BY <1>2
  <1>4. /\ state'[h] = st /\ n_iteration'[h] = n
        /\ \A x \in Host : x # h => state'[x] = state[x] /\ n_iteration'[x] = n_iteration[x]
    BY <1>t, <1>3
  <1>5. UNCHANGED <<address, claimed, defended>> /\ Bound(h) /\ state[h] \in Trying
    BY DEF Probe, Bound, Trying
  <1>6. TypeOK'
    <2>1. st \in States
      BY DEF States
    <2> QED
      BY <1>1, <1>3, <1>5, <2>1, TypesKept DEF IInv, TypeOK
  <1>7. Claims'
    <2>1. st \notin Owning /\ state[h] \notin Owning
      BY <1>5 DEF Owning, Trying
    <2> QED
      BY <1>4, <1>5, <2>1 DEF IInv, Claims, Bound
  <1>8. Sent(h)' <= Sent(h) + 1 /\ Sent(h) \in Nat /\ Sent(h)' \in Nat
    BY <1>3, <1>4, <1>t DEF Sent
  <1>9. CASE miss # {} /\ Sent(h) <= lost
    <2>1. Sent(h)' <= lost'
      BY <1>1, <1>8, <1>9, <1>t
    <2> QED
      BY <1>1, <1>4, <1>5, <1>6, <1>7, <2>1, HeardStep DEF IInv
  <1>10. ASSUME ~(miss # {} /\ Sent(h) <= lost), link = "whole", NEW x \in Host, Rivals(x, h)
         PROVE  Warned(x)' \/ Warned(h)' \/ Sent(x) <= lost'
    <2>1. x # h /\ Bound(x) /\ address[x] = address[h]
      BY <1>10 DEF Rivals
    <2>2. Sent(x) \in Nat
      BY <1>10, <2>1 DEF Sent, IInv, TypeOK
    <2>3. CASE Warned(x)
      BY <1>1, <1>4, <2>1, <2>3 DEF Warned
    <2>4. CASE Sent(x) <= lost
      BY <1>1, <1>t, <2>2, <2>4
    <2>5. CASE Sent(h) <= lost /\ miss = {}
      <3>1. CASE state[x] \in Trying
        <4>1. Reads(x, h, address[h], miss)
          BY <1>10, <2>1, <2>5 DEF Reads
        <4>2. socket'[x] = Append(socket[x], "tpa")
          BY <2>1, <4>1 DEF Probe, arp_send_probe
        <4>3. socket'[x] # <<>>
          <5>1. socket[x] \in Seq(Packet) /\ "tpa" \in Packet
            BY <1>t DEF Packet
          <5> QED
            BY <4>2, <5>1
        <4> QED
          BY <1>4, <2>1, <3>1, <4>3 DEF Warned
      <3>2. CASE state[x] \in Owning
        <4>1. claimed[x] = address[h]
          BY <2>1, <3>2 DEF IInv, Claims
        <4>2. Answered(h, miss)
          BY <1>10, <2>1, <2>5, <4>1 DEF Answered
        <4>3. socket'[h] = Append(socket[h], "spa")
          BY <4>2 DEF Probe, arp_send_probe
        <4>4. socket'[h] # <<>>
          <5>1. socket[h] \in Seq(Packet) /\ "spa" \in Packet
            BY <1>t DEF Packet
          <5> QED
            BY <4>3, <5>1
        <4>5. state'[h] \in Trying
          BY <1>4 DEF Trying
        <4> QED
          BY <4>4, <4>5 DEF Warned
      <3> QED
        BY <1>t, <2>1, <3>1, <3>2 DEF Bound, States, Trying, Owning
    <2>6. ~Warned(h)
      BY DEF Warned
    <2>7. Warned(x) \/ Warned(h) \/ Sent(x) <= lost \/ Sent(h) <= lost
      BY <1>10 DEF IInv, Heard
    <2> QED
      BY <1>10, <2>3, <2>4, <2>5, <2>6, <2>7
  <1>11. CASE ~(miss # {} /\ Sent(h) <= lost)
    <2>1. link = "whole" => \A x \in Host : Rivals(x, h) =>
              (Warned(x)' \/ Warned(h)' \/ Sent(x) <= lost')
      BY <1>10, <1>11
    <2> QED
      BY <1>1, <1>4, <1>5, <1>6, <1>7, <2>1, HeardStep DEF IInv
  <1> QED
    BY <1>9, <1>11

\* The other timeouts: h keeps its place.
LEMMA TimeoutStep ==
  ASSUME IInv, NEW h \in Host, ipv4acd_on_timeout(h)
  PROVE  IInv'
  <1> USE Ipv4Assumption
  <1>t. /\ n_iteration[h] \in Nat /\ n_iteration[h] <= MaxIteration(state[h])
        /\ lost \in Nat /\ lost \in 0 .. MaxLost
        /\ state \in [Host -> States] /\ n_iteration \in [Host -> Nat]
        /\ socket \in [Host -> Seq(Packet)] /\ defended \in [Host -> BOOLEAN]
        /\ claimed \in [Host -> Addr \cup {NoAddr}]
        /\ TypeOK
    BY DEF IInv, TypeOK
  <1>0. socket[h] = <<>> /\ link' = link /\ ~Warned(h)
    BY DEF ipv4acd_on_timeout, Warned
  <1>c. claimed[h] = IF state[h] \in Owning THEN address[h] ELSE NoAddr
    BY DEF IInv, Claims
  <1>1. CASE WaitToProbe(h)
    <2>1. /\ state' = [state EXCEPT ![h] = "WAITING_PROBE"]
          /\ n_iteration' = [n_iteration EXCEPT ![h] = 0]
          /\ UNCHANGED <<address, claimed, defended, socket, lost>>
          /\ state[h] = "STARTED"
      BY <1>1 DEF WaitToProbe
    <2>2. "WAITING_PROBE" \in States /\ 0 \in Nat /\ 0 <= MaxIteration("WAITING_PROBE")
      BY DEF States, MaxIteration
    <2>3. TypeOK'
      BY <1>t, <1>0, <2>1, <2>2, TypesKept
    <2>4. /\ state'[h] = "WAITING_PROBE"
          /\ \A x \in Host : x # h => state'[x] = state[x] /\ n_iteration'[x] = n_iteration[x]
      BY <1>t, <2>1
    <2>5. Sent(h)' = Sent(h) /\ Bound(h) /\ Bound(h)'
      BY <2>1, <2>4 DEF Sent, Bound
    <2>6. claimed'[h] = IF state'[h] \in Owning THEN address[h] ELSE NoAddr
      BY <1>c, <2>1, <2>4 DEF Owning
    <2>7. lost' >= lost
      BY <1>t, <2>1
    <2> QED
      BY <1>0, <2>1, <2>3, <2>4, <2>5, <2>6, <2>7, PlaceStep
  <1>2. CASE Settle(h)
    <2>1. /\ state' = [state EXCEPT ![h] = "RUNNING"]
          /\ n_iteration' = [n_iteration EXCEPT ![h] = 0]
          /\ UNCHANGED <<address, claimed, defended, socket, lost>>
          /\ state[h] = "ANNOUNCING"
      BY <1>2, <1>t DEF Settle, ipv4acd_set_state
    <2>2. "RUNNING" \in States /\ 0 \in Nat /\ 0 <= MaxIteration("RUNNING")
      BY DEF States, MaxIteration
    <2>3. TypeOK'
      BY <1>t, <1>0, <2>1, <2>2, TypesKept
    <2>4. /\ state'[h] = "RUNNING"
          /\ \A x \in Host : x # h => state'[x] = state[x] /\ n_iteration'[x] = n_iteration[x]
      BY <1>t, <2>1
    <2>5. Sent(h)' = Sent(h) /\ Bound(h) /\ Bound(h)'
      BY <2>1, <2>4 DEF Sent, Bound
    <2>6. claimed'[h] = IF state'[h] \in Owning THEN address[h] ELSE NoAddr
      BY <1>c, <2>1, <2>4 DEF Owning
    <2>7. lost' >= lost
      BY <1>t, <2>1
    <2> QED
      BY <1>0, <2>1, <2>3, <2>4, <2>5, <2>6, <2>7, PlaceStep
  <1>3. ASSUME NEW miss \in SUBSET Host, Announce(h, miss)
        PROVE  IInv'
    <2>0. /\ socket' \in [Host -> Seq(Packet)]
          /\ \A x \in Host : socket[x] # <<>> => socket'[x] # <<>>
          /\ lost' \in 0 .. MaxLost /\ lost' >= lost
      BY <1>3, SendFacts DEF Announce
    <2>1. \E n \in Nat :
            /\ n_iteration' = [n_iteration EXCEPT ![h] = n]
            /\ n <= MaxIteration("ANNOUNCING")
            /\ n = 0 \/ state[h] = "ANNOUNCING"
      <3>1. CASE state[h] = "WAITING_ANNOUNCE"
        <4>1. n_iteration' = [n_iteration EXCEPT ![h] = 0]
          BY <1>3, <1>t, <3>1 DEF Announce, ipv4acd_set_state
        <4>2. 0 \in Nat /\ 0 <= MaxIteration("ANNOUNCING")
          BY DEF MaxIteration
        <4> QED
          BY <4>1, <4>2
      <3>2. CASE state[h] = "ANNOUNCING" /\ n_iteration[h] < ANNOUNCE_NUM - 1
        <4>1. n_iteration' = [n_iteration EXCEPT ![h] = n_iteration[h] + 1]
          BY <1>3, <1>t, <3>2 DEF Announce, ipv4acd_set_state
        <4>2. n_iteration[h] + 1 \in Nat /\ n_iteration[h] + 1 <= MaxIteration("ANNOUNCING")
          BY <1>t, <3>2 DEF MaxIteration
        <4> QED
          BY <3>2, <4>1, <4>2
      <3> QED
        BY <1>3, <3>1, <3>2 DEF Announce
    <2>2. PICK n \in Nat :
            /\ n_iteration' = [n_iteration EXCEPT ![h] = n]
            /\ n <= MaxIteration("ANNOUNCING")
            /\ n = 0 \/ state[h] = "ANNOUNCING"
      BY <2>1
    <2>3. /\ state' = [state EXCEPT ![h] = "ANNOUNCING"]
          /\ claimed' = [claimed EXCEPT ![h] = IF n_iteration'[h] = 0 THEN address[h] ELSE @]
          /\ UNCHANGED <<address, defended>>
          /\ state[h] \in {"WAITING_ANNOUNCE", "ANNOUNCING"}
      BY <1>3 DEF Announce, ipv4acd_set_state
    <2>4. /\ state'[h] = "ANNOUNCING" /\ n_iteration'[h] = n
          /\ \A x \in Host : x # h => /\ state'[x] = state[x] /\ n_iteration'[x] = n_iteration[x]
                                      /\ claimed'[x] = claimed[x]
      BY <1>t, <2>2, <2>3
    <2>5. claimed'[h] = IF state'[h] \in Owning THEN address[h] ELSE NoAddr
      BY <1>t, <1>c, <2>2, <2>3, <2>4 DEF Owning
    <2>6. TypeOK'
      <3>1. "ANNOUNCING" \in States
        BY DEF States
      <3>2. claimed' \in [Host -> Addr \cup {NoAddr}] /\ defended' \in [Host -> BOOLEAN]
        <4>1. address[h] \in Addr \cup {NoAddr}
          BY <1>t DEF TypeOK
        <4> QED
          BY <1>t, <2>3, <4>1
      <3> QED
        BY <1>t, <1>0, <2>0, <2>2, <2>3, <3>1, <3>2, TypesKept
    <2>7. Sent(h)' = Sent(h) /\ Bound(h) /\ Bound(h)'
      BY <2>3, <2>4 DEF Sent, Bound
    <2> QED
      BY <1>0, <2>0, <2>3, <2>4, <2>5, <2>6, <2>7, PlaceStep
  <1>4. ASSUME NEW miss \in SUBSET Host, Probe(h, miss)
        PROVE  IInv'
    BY <1>0, <1>4, ProbeStep
  <1> QED
    BY <1>1, <1>2, <1>3, <1>4 DEF ipv4acd_on_timeout

\* A packet: h starts over, aborts, or owns the address and keeps its place.
LEMMA PacketStep ==
  ASSUME IInv, NEW h \in Host, ipv4acd_on_packet(h)
  PROVE  IInv'
  <1>t. /\ lost \in Nat /\ lost \in 0 .. MaxLost /\ MaxLost \in Nat
        /\ socket \in [Host -> Seq(Packet)]
        /\ defended \in [Host -> BOOLEAN]
        /\ TypeOK
    BY Ipv4Assumption DEF IInv, TypeOK
  <1>0. socket[h] # <<>> /\ link' = link
    BY DEF ipv4acd_on_packet
  <1>1. CASE ipv4acd_on_conflict(h)
    BY <1>0, <1>1, StartStep DEF ipv4acd_on_conflict
  <1>2. CASE state[h] = "STARTED" /\ Abort(h)
    BY <1>0, <1>2, GoneStep
  <1>3. ASSUME state[h] \in Owning, UNCHANGED <<state, n_iteration, address, claimed>>,
               socket' \in [Host -> Seq(Packet)], defended' \in [Host -> BOOLEAN],
               lost' \in 0 .. MaxLost, lost' >= lost,
               \A x \in Host : x # h => (socket[x] # <<>> => socket'[x] # <<>>)
        PROVE  IInv'
    <2>1. TypeOK'
      BY <1>0, <1>t, <1>3 DEF TypeOK
    <2>2. Sent(h)' = Sent(h) /\ Bound(h) /\ Bound(h)' /\ ~Warned(h)
      BY <1>3 DEF Sent, Bound, Warned, Owning, Trying
    <2>3. claimed'[h] = IF state'[h] \in Owning THEN address[h] ELSE NoAddr
      BY <1>3 DEF IInv, Claims
    <2> QED
      BY <1>0, <1>3, <2>1, <2>2, <2>3, PlaceStep
  <1>4. Tail(socket[h]) \in Seq(Packet)
    BY <1>0, <1>t
  <1>5. CASE state[h] \in Owning /\ Ignore(h)
    <2>1. socket' \in [Host -> Seq(Packet)] /\ \A x \in Host : x # h => socket'[x] = socket[x]
      BY <1>5, <1>t, <1>4 DEF Ignore
    <2> QED
      BY <1>3, <1>5, <1>t, <2>1 DEF Ignore
  <1>6. ASSUME NEW miss \in SUBSET Host, state[h] \in Owning, Defend(h, miss)
        PROVE  IInv'
    <2>1. /\ lost' \in 0 .. MaxLost /\ lost' >= lost
          /\ defended' \in [Host -> BOOLEAN]
      BY <1>6, <1>t DEF Defend
    <2>2. socket' = [g \in Host |-> IF g = h THEN Tail(socket[h])
                                    ELSE IF Reads(g, h, address[h], miss)
                                    THEN Append(socket[g], "spa") ELSE socket[g]]
      BY <1>6 DEF Defend
    <2>3. \A x \in Host : x # h => socket'[x] \in {socket[x], Append(socket[x], "spa")}
      BY <2>2
    <2>4. \A x \in Host : Append(socket[x], "spa") \in Seq(Packet) /\ Append(socket[x], "spa") # <<>>
      <3>1. "spa" \in Packet
        BY DEF Packet
      <3>2. \A x \in Host : socket[x] \in Seq(Packet)
        BY <1>t
      <3>3. \A x \in Host : \A k \in Packet :
                Append(socket[x], k) \in Seq(Packet) /\ Append(socket[x], k) # <<>>
        BY <3>2
      <3> QED
        BY <3>1, <3>3
    <2>5. \A x \in Host : x # h => (socket[x] # <<>> => socket'[x] # <<>>)
      BY <2>3, <2>4
    <2>6. \A x \in Host : socket'[x] \in Seq(Packet)
      BY <1>t, <1>4, <2>2, <2>3, <2>4
    <2>7. socket' \in [Host -> Seq(Packet)]
      BY <2>2, <2>6
    <2> QED
      BY <1>3, <1>6, <2>1, <2>5, <2>7 DEF Defend
  <1> QED
    BY <1>1, <1>2, <1>5, <1>6 DEF ipv4acd_on_packet, Owning

\* The steps of no detection: a window ends, a host talks, the link is whole.
LEMMA OtherStep ==
  ASSUME IInv,
         \/ Rejoin
         \/ \E h \in Host : WindowEnds(h) \/ \E a \in Addr : Talk(h, a)
  PROVE  IInv'
  <1>t. TypeOK /\ link \in {"whole", "parted", "rejoined"} /\ defended \in [Host -> BOOLEAN]
    BY DEF IInv, TypeOK
  <1>1. UNCHANGED <<state, n_iteration, address, claimed, lost>>
    BY DEF Rejoin, WindowEnds, Talk
  <1>2. Claims'
    BY <1>1 DEF IInv, Claims, Bound
  <1>3. CASE Rejoin
    <2>1. TypeOK'
      BY <1>t, <1>1, <1>3 DEF Rejoin, TypeOK
    <2>2. Heard'
      BY <1>3 DEF Rejoin, Heard
    <2> QED
      BY <1>2, <2>1, <2>2 DEF IInv
  <1>4. ASSUME NEW h \in Host, WindowEnds(h) PROVE IInv'
    <2>1. defended' \in [Host -> BOOLEAN]
      BY <1>t, <1>4 DEF WindowEnds
    <2>2. TypeOK'
      BY <1>t, <1>1, <1>4, <2>1 DEF WindowEnds, TypeOK
    <2>3. UNCHANGED <<state, n_iteration, address, socket, link, lost>>
      BY <1>4 DEF WindowEnds
    <2>4. Heard'
      BY <2>3 DEF IInv, Heard, Rivals, Bound, Warned, Sent
    <2> QED
      BY <1>2, <2>2, <2>4 DEF IInv
  <1>5. ASSUME NEW h \in Host, NEW a \in Addr, Talk(h, a) PROVE IInv'
    <2>1. \A x \in Host : socket[x] = <<>>
      BY <1>5 DEF Talk, Quiet
    <2>2. socket' \in [Host -> Seq(Packet)]
      <3>1. <<>> \in Seq(Packet) /\ <<"spa">> \in Seq(Packet) /\ <<"tpa">> \in Seq(Packet)
        BY DEF Packet
      <3> QED
        BY <1>5, <3>1 DEF Talk
    <2>3. UNCHANGED <<defended, link>>
      BY <1>5 DEF Talk
    <2>4. TypeOK'
      BY <1>t, <1>1, <2>2, <2>3 DEF TypeOK
    <2>5. \A x \in Host : ~Warned(x) /\ Sent(x)' = Sent(x) /\ (Bound(x)' <=> Bound(x))
      BY <1>1, <2>1 DEF Warned, Sent, Bound
    <2>6. Heard'
      BY <1>1, <2>3, <2>5 DEF IInv, Heard, Rivals
    <2> QED
      BY <1>2, <2>4, <2>6 DEF IInv
  <1> QED
    BY <1>3, <1>4, <1>5

LEMMA StepIInv == IInv /\ [Next]_vars => IInv'
  <1> SUFFICES ASSUME IInv, [Next]_vars PROVE IInv'
    OBVIOUS
  <1>1. CASE UNCHANGED vars
    BY <1>1 DEF vars, IInv, TypeOK, Claims, Heard, Rivals, Bound, Warned, Sent
  <1>2. CASE Rejoin
    BY <1>2, OtherStep
  <1>3. ASSUME NEW h \in Host, Step(h) PROVE IInv'
    <2>1. ASSUME NEW a \in Addr, sd_ipv4ll_start(h, a) PROVE IInv'
      <3>1. state[h] = "INIT" /\ claimed \in [Host -> Addr \cup {NoAddr}]
        BY <2>1 DEF sd_ipv4ll_start, IInv, TypeOK
      <3>2. claimed[h] = NoAddr
        BY <3>1 DEF IInv, Claims, Owning
      <3>3. claimed = [claimed EXCEPT ![h] = NoAddr]
        BY <3>1, <3>2
      <3>4. /\ sd_ipv4acd_start(h, a) /\ claimed' = [claimed EXCEPT ![h] = NoAddr]
            /\ UNCHANGED <<link, lost>>
        BY <2>1, <3>3 DEF sd_ipv4ll_start
      <3> QED
        BY <3>4, StartStep
    <2>2. CASE sd_ipv4ll_stop(h)
      BY <2>2, GoneStep
    <2>3. CASE ipv4acd_on_timeout(h)
      BY <2>3, TimeoutStep
    <2>4. CASE ipv4acd_on_packet(h)
      BY <2>4, PacketStep
    <2>5. CASE WindowEnds(h) \/ \E a \in Addr : Talk(h, a)
      BY <2>5, OtherStep
    <2> QED
      BY <1>3, <2>1, <2>2, <2>3, <2>4, <2>5 DEF Step
  <1> QED
    BY <1>1, <1>2, <1>3 DEF Next

LEMMA Invariance == Spec => []IInv
  BY InitIInv, StepIInv, PTL DEF Spec

----------------------------------------------------------------------------
\* The fields of every sd_ipv4acd and sd_ipv4ll stay in their ranges, n_iteration
\* within what its state allows.
THEOREM TypeCorrect == Spec => []TypeOK
  <1>1. IInv => TypeOK
    BY DEF IInv
  <1> QED
    BY <1>1, Invariance, PTL

\* Fewer lost transmissions than probes never let two hosts claim the same
\* address, however many hosts and addresses there are.
THEOREM AddressesUnique ==
  ASSUME MaxLost < PROBE_NUM
  PROVE  Spec => []Unique
  <1>1. IInv => Unique
    <2> SUFFICES ASSUME IInv, link = "whole", NEW g \in Host, NEW h \in Host, Shared(g, h)
                 PROVE  FALSE
      BY DEF Unique
    <2>1. state[g] \in Owning /\ state[h] \in Owning /\ address[g] = address[h]
      BY DEF IInv, Claims, Shared
    <2>2. Rivals(g, h) /\ ~Warned(g) /\ ~Warned(h)
      BY <2>1 DEF Shared, Rivals, Bound, Warned, Owning, Trying
    <2>3. Sent(g) = PROBE_NUM /\ Sent(h) = PROBE_NUM
      BY <2>1 DEF Sent, Owning
    <2>4. lost \in Nat /\ lost <= MaxLost /\ MaxLost \in Nat /\ PROBE_NUM \in Nat
      BY Ipv4Assumption DEF IInv, TypeOK
    <2> QED
      BY <2>2, <2>3, <2>4 DEF IInv, Heard
  <1> QED
    BY <1>1, Invariance, PTL
=============================================================================
