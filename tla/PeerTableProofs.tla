-------------------------- MODULE PeerTableProofs --------------------------
(***************************************************************************)
(* Proofs of PeerTable, for every set of peers, every threshold, time-out, *)
(* delay and number of restarts that TimingAssumption and                  *)
(* SequenceAssumption allow.                                               *)
(*                                                                         *)
(* What makes the table safe is how old the packets in flight can be: all  *)
(* are of the sender's present run, because a process takes longer to      *)
(* start than a packet travels; a packet's number lags behind the sender's *)
(* by no more than its age; and one that was overtaken by the last         *)
(* accepted packet is at least as old as the peer has been silent.         *)
(***************************************************************************)
EXTENDS PeerTable, FiniteSetTheorems, TLAPS

NetInv ==
  \A m \in net :
    /\ m.run = run[m.from]
    /\ ~alive[m.from] => m.age >= down[m.from]
    /\ m.kind = "TELEMETRY" =>
         /\ m.seq \in 1 .. seq[m.from]
         /\ m.seq + m.age >= seq[m.from]

\* A telemetry packet that the last accepted one has overtaken.
Overtaken(m) ==
  /\ m.kind = "TELEMETRY"
  /\ accepted[m.from].run = run[m.from]
  /\ m.seq <= accepted[m.from].seq

AcceptedInv ==
  \A p \in Peers :
    /\ accepted[p].run <= run[p]
    /\ accepted[p].run = run[p] => accepted[p].seq <= seq[p]
    /\ p \notin known => accepted[p].run = 0

OvertakenInv ==
  \A m \in net : Overtaken(m) =>
    /\ m.age >= silence[m.from]
    /\ last_seen[m.from] = accepted[m.from].seq

BlackoutInv ==
  \A p \in Peers :
    \E k \in Nat : last_seen[p] \in {0, k} /\ blackout[p] \subseteq k - Threshold .. k

DownInv == \A p \in Peers : alive[p] => down[p] = 0

OnlineInv == \A p \in known : status[p] = "OFFLINE" => silence[p] >= Timeout

IInv == TypeOK /\ NetInv /\ AcceptedInv /\ OvertakenInv /\ BlackoutInv /\ OnlineInv /\ DownInv

USE TimingAssumption, SequenceAssumption DEF NoneSeen

-----------------------------------------------------------------------------
LEMMA AtMostBounds ==
  ASSUME NEW n \in Nat, NEW limit \in Nat
  PROVE  /\ AtMost(n, limit) \in 0 .. limit
         /\ AtMost(n, limit) <= n
         /\ AtMost(n, limit) = n \/ AtMost(n, limit) = limit
BY DEF AtMost

\* Sequence numbers stay far below the modulus, so the sum does not wrap.
LEMMA JumpDoesNotWrap ==
  ASSUME NEW n \in 0 .. MaxSeq, NEW last \in Nat
  PROVE  LargeBackwardJump(n, last) <=> n + Threshold < last
<1>1. n + Threshold \in 0 .. SeqModulus - 1
  OBVIOUS
<1>2. (n + Threshold) % SeqModulus = n + Threshold
  BY <1>1
<1> QED BY <1>2 DEF LargeBackwardJump

LEMMA InitIInv == Init => IInv
<1> SUFFICES ASSUME Init PROVE IInv
  OBVIOUS
<1> USE DEF Init
<1>1. TypeOK
  BY DEF TypeOK
<1>2. NetInv /\ AcceptedInv /\ OvertakenInv /\ OnlineInv /\ DownInv
  BY DEF NetInv, AcceptedInv, OvertakenInv, OnlineInv, DownInv
<1>3. BlackoutInv
  <2> SUFFICES ASSUME NEW p \in Peers
               PROVE  last_seen[p] \in {0, 0} /\ blackout[p] \subseteq 0 - Threshold .. 0
    BY DEF BlackoutInv
  <2> QED OBVIOUS
<1> QED BY <1>1, <1>2, <1>3 DEF IInv

\* What a packet in flight says about itself and its sender.
LEMMA PacketInFlight ==
  ASSUME IInv, NEW m \in net
  PROVE  /\ m.from \in Peers /\ m.kind \in {"HEARTBEAT", "TELEMETRY"}
         /\ m.seq \in 0 .. MaxSeq /\ m.age \in 0 .. MaxDelay
         /\ m.run = run[m.from] /\ m.run \in Nat /\ m.seq \in Nat
BY DEF IInv, TypeOK, NetInv, Packet

LEMMA StutterKeepsIInv ==
  ASSUME IInv, UNCHANGED <<tableVars, loop_pc, lag, peerVars, net, accepted, blackout>>
  PROVE  IInv'
<1>0. UNCHANGED <<known, status, last_seen, silence, loop_pc, lag, alive, run, seq, down, net,
                  accepted, blackout>>
  BY DEF tableVars, peerVars
<1>1. TypeOK'
  BY <1>0 DEF IInv, TypeOK
<1>2. NetInv' /\ AcceptedInv' /\ OvertakenInv' /\ BlackoutInv' /\ OnlineInv' /\ DownInv'
  BY <1>0 DEF IInv, NetInv, AcceptedInv, OvertakenInv, Overtaken, BlackoutInv, OnlineInv, DownInv
<1> QED BY <1>1, <1>2 DEF IInv

-----------------------------------------------------------------------------
(* Thread 1 *)

LEMMA ReadClockKeepsIInv == IInv /\ ReadClock => IInv'
<1> SUFFICES ASSUME IInv, ReadClock PROVE IInv'
  OBVIOUS
<1>0. /\ UNCHANGED <<known, status, last_seen, silence, alive, run, seq, down, net, accepted,
                     blackout>>
      /\ loop_pc' = "refresh" /\ lag' = 0
  BY DEF ReadClock, tableVars, peerVars
<1>1. TypeOK'
  BY <1>0 DEF IInv, TypeOK
<1>2. NetInv' /\ AcceptedInv' /\ OvertakenInv' /\ BlackoutInv' /\ OnlineInv' /\ DownInv'
  BY <1>0 DEF IInv, NetInv, AcceptedInv, OvertakenInv, Overtaken, BlackoutInv, OnlineInv, DownInv
<1> QED BY <1>1, <1>2 DEF IInv

\* Thread 1 judges by a clock that is `lag` ticks old, which errs on the side
\* of the peer.
LEMMA RefreshStatusKeepsIInv == IInv /\ RefreshStatus => IInv'
<1> SUFFICES ASSUME IInv, RefreshStatus PROVE IInv'
  OBVIOUS
<1>0. /\ UNCHANGED <<known, last_seen, silence, alive, run, seq, down, net, accepted, blackout>>
      /\ loop_pc' = "sleep" /\ lag' = 0
      /\ status' = [p \in Peers |-> IF Expired(p) THEN "OFFLINE" ELSE status[p]]
  BY DEF RefreshStatus, peerVars
<1>1. TypeOK'
  <2>1. status' \in [Peers -> {"ONLINE", "OFFLINE"}]
    BY <1>0 DEF IInv, TypeOK
  <2> QED BY <1>0, <2>1 DEF IInv, TypeOK
<1>2. NetInv' /\ AcceptedInv' /\ OvertakenInv' /\ BlackoutInv' /\ DownInv'
  BY <1>0 DEF IInv, NetInv, AcceptedInv, OvertakenInv, Overtaken, BlackoutInv, DownInv
<1>3. OnlineInv'
  <2> SUFFICES ASSUME NEW p \in known', status'[p] = "OFFLINE" PROVE silence'[p] >= Timeout
    BY DEF OnlineInv
  <2>1. p \in Peers /\ silence[p] \in Nat /\ lag \in Nat
    BY <1>0 DEF IInv, TypeOK
  <2>2. CASE Expired(p)
    BY <1>0, <2>1, <2>2 DEF Expired
  <2>3. CASE ~Expired(p)
    BY <1>0, <2>1, <2>3 DEF IInv, OnlineInv
  <2> QED BY <2>2, <2>3
<1> QED BY <1>1, <1>2, <1>3 DEF IInv

-----------------------------------------------------------------------------
(* The callbacks *)

\* A peer is only forgotten after a silence that no packet in flight survives.
LEMMA ReceiveHeartbeatKeepsIInv ==
  ASSUME IInv, NEW m \in net, ReceiveHeartbeat(m)
  PROVE  IInv'
<1> DEFINE p == m.from
           returned == p \notin known \/ status[p] = "OFFLINE"
<1>0. /\ UNCHANGED <<loop_pc, lag, alive, run, seq, down, net, accepted, blackout>>
      /\ known' = known \cup {p}
      /\ silence' = [silence EXCEPT ![p] = 0]
      /\ status' = [status EXCEPT ![p] = "ONLINE"]
      /\ last_seen' = IF returned THEN [last_seen EXCEPT ![p] = 0] ELSE last_seen
  BY DEF ReceiveHeartbeat, OnHeartbeat, peerVars
<1>1. /\ p \in Peers /\ known \subseteq Peers /\ silence \in [Peers -> Nat]
      /\ last_seen \in [Peers -> Nat] /\ status \in [Peers -> {"ONLINE", "OFFLINE"}]
  BY PacketInFlight DEF IInv, TypeOK
<1> HIDE DEF p
<1>2. TypeOK'
  <2>1. /\ known' \subseteq Peers /\ silence' \in [Peers -> Nat]
        /\ last_seen' \in [Peers -> Nat] /\ status' \in [Peers -> {"ONLINE", "OFFLINE"}]
    BY <1>0, <1>1
  <2> QED BY <1>0, <2>1 DEF IInv, TypeOK
<1>3. NetInv'
  BY <1>0 DEF IInv, NetInv
<1>4. AcceptedInv'
  BY <1>0, <1>1 DEF IInv, AcceptedInv
<1>5. OvertakenInv'
  <2> SUFFICES ASSUME NEW o \in net, Overtaken(o)
               PROVE  o.age >= silence'[o.from] /\ last_seen'[o.from] = accepted[o.from].seq
    BY <1>0 DEF OvertakenInv, Overtaken
  <2>1. /\ o.from \in Peers /\ o.age \in 0 .. MaxDelay /\ o.age >= silence[o.from]
        /\ last_seen[o.from] = accepted[o.from].seq
    BY PacketInFlight DEF IInv, OvertakenInv
  <2>2. CASE o.from # p
    BY <1>0, <1>1, <2>1, <2>2
  <2>3. CASE o.from = p
    <3>1. accepted[p].run = run[p] /\ run[p] \in Nat \ {0}
      BY <1>1, <2>3 DEF Overtaken, IInv, TypeOK
    <3>2. p \in known
      BY <1>1, <3>1 DEF IInv, AcceptedInv
    <3>3. status[p] # "OFFLINE"
      BY <1>1, <2>1, <2>3, <3>2 DEF IInv, OnlineInv
    <3> QED BY <1>0, <1>1, <2>1, <2>3, <3>2, <3>3
  <2> QED BY <2>2, <2>3
<1>6. BlackoutInv'
  <2> SUFFICES ASSUME NEW q \in Peers
               PROVE  \E k \in Nat : last_seen'[q] \in {0, k}
                                      /\ blackout'[q] \subseteq k - Threshold .. k
    BY DEF BlackoutInv
  <2>1. PICK k \in Nat : last_seen[q] \in {0, k} /\ blackout[q] \subseteq k - Threshold .. k
    BY DEF IInv, BlackoutInv
  <2>2. last_seen'[q] = last_seen[q] \/ last_seen'[q] = 0
    BY <1>0, <1>1
  <2> QED BY <1>0, <2>1, <2>2
<1>7. OnlineInv' /\ DownInv'
  BY <1>0, <1>1 DEF IInv, OnlineInv, DownInv
<1> QED BY <1>2, <1>3, <1>4, <1>5, <1>6, <1>7 DEF IInv

\* A packet that has been overtaken is rejected: its number is within the
\* threshold of the last one, so it is not taken for a restart.
LEMMA AcceptedIsNewest ==
  ASSUME IInv, NEW m \in net, m.kind = "TELEMETRY", m.seq > LastSeenFor(m.from, m.seq)
  PROVE  accepted[m.from].run = run[m.from] => m.seq > accepted[m.from].seq
<1> SUFFICES ASSUME Overtaken(m) PROVE FALSE
  BY PacketInFlight DEF Overtaken, IInv, TypeOK
<1>1. /\ m.from \in Peers /\ m.seq \in 0 .. MaxSeq /\ m.age \in 0 .. MaxDelay
  BY PacketInFlight
<1>2. /\ m.seq + m.age >= seq[m.from] /\ seq[m.from] \in Nat
      /\ last_seen[m.from] = accepted[m.from].seq /\ last_seen[m.from] \in Nat
      /\ accepted[m.from].seq <= seq[m.from] /\ m.seq <= accepted[m.from].seq
  BY <1>1 DEF IInv, NetInv, OvertakenInv, AcceptedInv, Overtaken, TypeOK
<1>3. ~LargeBackwardJump(m.seq, last_seen[m.from])
  BY <1>1, <1>2, JumpDoesNotWrap
<1> QED BY <1>1, <1>2, <1>3 DEF LastSeenFor

LEMMA AcceptTelemetryKeepsIInv ==
  ASSUME IInv, NEW m \in net, m.kind = "TELEMETRY", AcceptTelemetry(m.from, m.seq),
         accepted' = [accepted EXCEPT ![m.from] = [run |-> m.run, seq |-> m.seq]],
         blackout' = [blackout EXCEPT ![m.from] = {}],
         UNCHANGED <<loop_pc, lag, peerVars, net>>
  PROVE  IInv'
<1> DEFINE p == m.from
           n == m.seq
<1>0. /\ UNCHANGED <<known, loop_pc, lag, alive, run, seq, down, net>>
      /\ last_seen' = [last_seen EXCEPT ![p] = n]
      /\ silence' = [silence EXCEPT ![p] = 0]
      /\ status' = [status EXCEPT ![p] = "ONLINE"]
      /\ accepted' = [accepted EXCEPT ![p] = [run |-> m.run, seq |-> n]]
      /\ blackout' = [blackout EXCEPT ![p] = {}]
      /\ p \in known
  BY DEF AcceptTelemetry, peerVars
<1>1. /\ p \in Peers /\ n \in Nat /\ m.run = run[p] /\ m.run \in Nat /\ n \in 1 .. seq[p]
      /\ silence \in [Peers -> Nat] /\ last_seen \in [Peers -> Nat]
      /\ status \in [Peers -> {"ONLINE", "OFFLINE"}] /\ run \in [Peers -> 1 .. MaxRuns]
      /\ accepted \in [Peers -> [run : Nat, seq : Nat]] /\ blackout \in [Peers -> SUBSET Nat]
  BY PacketInFlight DEF IInv, TypeOK, NetInv
<1> HIDE DEF p, n
<1>2. TypeOK'
  <2>1. /\ silence' \in [Peers -> Nat] /\ last_seen' \in [Peers -> Nat]
        /\ status' \in [Peers -> {"ONLINE", "OFFLINE"}]
    BY <1>0, <1>1
  <2>2. accepted' \in [Peers -> [run : Nat, seq : Nat]]
    <3>1. [run |-> m.run, seq |-> n] \in [run : Nat, seq : Nat]
      BY <1>1
    <3> QED BY <3>1, <1>0, <1>1
  <2>3. blackout' \in [Peers -> SUBSET Nat]
    BY <1>0, <1>1
  <2> QED BY <1>0, <2>1, <2>2, <2>3 DEF IInv, TypeOK
<1>3. NetInv'
  BY <1>0 DEF IInv, NetInv
<1>4. AcceptedInv'
  <2> SUFFICES ASSUME NEW q \in Peers
               PROVE  /\ accepted'[q].run <= run[q]
                      /\ accepted'[q].run = run[q] => accepted'[q].seq <= seq[q]
                      /\ q \notin known => accepted'[q].run = 0
    BY <1>0 DEF AcceptedInv
  <2>1. CASE q = p
    BY <1>0, <1>1, <2>1
  <2>2. CASE q # p
    BY <1>0, <1>1, <2>2 DEF IInv, AcceptedInv
  <2> QED BY <2>1, <2>2
<1>5. OvertakenInv'
  <2> SUFFICES ASSUME NEW o \in net, o.kind = "TELEMETRY",
                      accepted'[o.from].run = run[o.from], o.seq <= accepted'[o.from].seq
               PROVE  o.age >= silence'[o.from] /\ last_seen'[o.from] = accepted'[o.from].seq
    BY <1>0 DEF OvertakenInv, Overtaken
  <2>1. o.from \in Peers /\ o.age \in Nat
    BY PacketInFlight
  <2>2. CASE o.from = p
    BY <1>0, <1>1, <2>1, <2>2
  <2>3. CASE o.from # p
    BY <1>0, <1>1, <2>1, <2>3 DEF IInv, OvertakenInv, Overtaken
  <2> QED BY <2>2, <2>3
<1>6. BlackoutInv'
  <2> SUFFICES ASSUME NEW q \in Peers
               PROVE  \E k \in Nat : last_seen'[q] \in {0, k}
                                      /\ blackout'[q] \subseteq k - Threshold .. k
    BY DEF BlackoutInv
  <2>1. CASE q = p
    <3>1. last_seen'[q] = n /\ blackout'[q] = {}
      BY <1>0, <1>1, <2>1
    <3> QED BY <1>1, <3>1
  <2>2. CASE q # p
    <3>1. last_seen'[q] = last_seen[q] /\ blackout'[q] = blackout[q]
      BY <1>0, <1>1, <2>2
    <3> QED BY <3>1 DEF IInv, BlackoutInv
  <2> QED BY <2>1, <2>2
<1>7. OnlineInv' /\ DownInv'
  BY <1>0, <1>1 DEF IInv, OnlineInv, DownInv, TypeOK
<1> QED BY <1>2, <1>3, <1>4, <1>5, <1>6, <1>7 DEF IInv

\* A rejected number is at most Threshold below the last one seen.
LEMMA RejectTelemetryKeepsIInv ==
  ASSUME IInv, NEW m \in net, m.kind = "TELEMETRY", RejectTelemetry(m.from, m.seq),
         blackout' = blackout \/ blackout' = [blackout EXCEPT ![m.from] = @ \cup {m.seq}],
         UNCHANGED <<loop_pc, lag, peerVars, net, accepted>>
  PROVE  IInv'
<1> DEFINE p == m.from
           n == m.seq
<1>1. /\ p \in Peers /\ n \in 1 .. seq[p] /\ n \in 0 .. MaxSeq
      /\ last_seen \in [Peers -> Nat] /\ blackout \in [Peers -> SUBSET Nat]
  BY PacketInFlight DEF IInv, TypeOK, NetInv
<1>2. n <= last_seen[p] /\ n + Threshold >= last_seen[p] /\ LastSeenFor(p, n) = last_seen[p]
  BY <1>1, JumpDoesNotWrap DEF RejectTelemetry, LastSeenFor
<1>0. /\ UNCHANGED <<known, status, silence, last_seen, loop_pc, lag, alive, run, seq, down, net,
                     accepted>>
      /\ blackout' = blackout \/ blackout' = [blackout EXCEPT ![p] = @ \cup {n}]
  BY <1>1, <1>2 DEF RejectTelemetry, peerVars
<1> HIDE DEF p, n
<1>3. TypeOK'
  <2>1. blackout' \in [Peers -> SUBSET Nat]
    BY <1>0, <1>1
  <2> QED BY <1>0, <2>1 DEF IInv, TypeOK
<1>4. NetInv' /\ AcceptedInv' /\ OvertakenInv' /\ OnlineInv' /\ DownInv'
  BY <1>0 DEF IInv, NetInv, AcceptedInv, OvertakenInv, Overtaken, OnlineInv, DownInv
<1>5. BlackoutInv'
  <2> SUFFICES ASSUME NEW q \in Peers
               PROVE  \E k \in Nat : last_seen[q] \in {0, k}
                                      /\ blackout'[q] \subseteq k - Threshold .. k
    BY <1>0 DEF BlackoutInv
  <2>1. PICK k \in Nat : last_seen[q] \in {0, k} /\ blackout[q] \subseteq k - Threshold .. k
    BY DEF IInv, BlackoutInv
  <2>2. CASE blackout'[q] = blackout[q]
    BY <2>1, <2>2
  <2>3. CASE q = p /\ blackout'[q] = blackout[q] \cup {n}
    <3>1. last_seen[p] = k
      BY <1>1, <1>2, <2>1, <2>3
    <3>2. n \in k - Threshold .. k
      BY <1>1, <1>2, <3>1
    <3> QED BY <2>1, <2>3, <3>2
  <2> QED BY <1>0, <1>1, <2>2, <2>3
<1> QED BY <1>3, <1>4, <1>5 DEF IInv

LEMMA ReceiveTelemetryKeepsIInv ==
  ASSUME IInv, NEW m \in net, ReceiveTelemetry(m)
  PROVE  IInv'
<1>1. CASE AcceptTelemetry(m.from, m.seq)
           /\ accepted' = [accepted EXCEPT ![m.from] = [run |-> m.run, seq |-> m.seq]]
           /\ blackout' = [blackout EXCEPT ![m.from] = {}]
  BY <1>1, AcceptTelemetryKeepsIInv DEF ReceiveTelemetry
<1>0. m.kind = "TELEMETRY" /\ UNCHANGED <<loop_pc, lag, peerVars, net>>
  BY DEF ReceiveTelemetry
<1>2. CASE RejectTelemetry(m.from, m.seq) /\ UNCHANGED accepted
  <2>1. blackout' = blackout \/ blackout' = [blackout EXCEPT ![m.from] = @ \cup {m.seq}]
    <3>1. blackout \in [Peers -> SUBSET Nat]
      BY DEF IInv, TypeOK
    <3>2. ~AcceptTelemetry(m.from, m.seq) /\ m.from \in known
      BY <1>2, PacketInFlight DEF RejectTelemetry, AcceptTelemetry, LastSeenFor, IInv, TypeOK
    <3>3. blackout' = [blackout EXCEPT ![m.from] =
                         IF Fresh(m) /\ accepted[m.from] # [run |-> m.run, seq |-> m.seq]
                           THEN @ \cup {m.seq} ELSE @]
      BY <3>2 DEF ReceiveTelemetry
    <3> QED BY <3>1, <3>3
  <2> QED BY <1>0, <1>2, <2>1, RejectTelemetryKeepsIInv
<1>3. CASE UNCHANGED <<tableVars, accepted, blackout>>
  BY <1>0, <1>3, StutterKeepsIInv DEF vars
<1> QED BY <1>1, <1>2, <1>3 DEF ReceiveTelemetry

-----------------------------------------------------------------------------
(* The peers *)

\* `down` is counted while a process is dead.
LEMMA LivingHaveNotBeenDown ==
  ASSUME IInv, NEW p \in Peers, alive[p]
  PROVE  down[p] = 0
BY DEF IInv, DownInv

LEMMA CrashKeepsIInv ==
  ASSUME IInv, NEW p \in Peers, Crash(p)
  PROVE  IInv'
<1>0. /\ UNCHANGED <<known, status, last_seen, silence, loop_pc, lag, run, seq, down, net, accepted,
                     blackout>>
      /\ alive[p] /\ alive' = [alive EXCEPT ![p] = FALSE] /\ alive \in [Peers -> BOOLEAN]
  BY DEF Crash, tableVars, IInv, TypeOK
<1>1. TypeOK'
  <2>1. alive' \in [Peers -> BOOLEAN]
    BY <1>0
  <2> QED BY <1>0, <2>1 DEF IInv, TypeOK
<1>2. NetInv'
  <2> SUFFICES ASSUME NEW m \in net, ~alive'[m.from] PROVE m.age >= down[m.from]
    BY <1>0 DEF IInv, NetInv
  <2>1. m.from \in Peers /\ m.age \in Nat
    BY PacketInFlight
  <2>2. CASE m.from = p
    BY <1>0, <2>1, <2>2, LivingHaveNotBeenDown
  <2>3. CASE m.from # p
    BY <1>0, <2>1, <2>3 DEF IInv, NetInv
  <2> QED BY <2>2, <2>3
<1>3. AcceptedInv' /\ OvertakenInv' /\ BlackoutInv' /\ OnlineInv' /\ DownInv'
  BY <1>0 DEF IInv, AcceptedInv, OvertakenInv, Overtaken, BlackoutInv, OnlineInv, DownInv
<1> QED BY <1>1, <1>2, <1>3 DEF IInv

\* A process is down for longer than any of its packets is in flight.
LEMMA StartAgainKeepsIInv ==
  ASSUME IInv, NEW p \in Peers, StartAgain(p)
  PROVE  IInv'
<1>0. /\ UNCHANGED <<known, status, last_seen, silence, loop_pc, lag, net, accepted, blackout>>
      /\ ~alive[p] /\ down[p] >= MinDown /\ run[p] < MaxRuns
      /\ alive' = [alive EXCEPT ![p] = TRUE] /\ run' = [run EXCEPT ![p] = @ + 1]
      /\ seq' = [seq EXCEPT ![p] = 0] /\ down' = [down EXCEPT ![p] = 0]
  BY DEF StartAgain, tableVars
<1>1. /\ alive \in [Peers -> BOOLEAN] /\ run \in [Peers -> 1 .. MaxRuns]
      /\ seq \in [Peers -> 0 .. MaxSeq] /\ down \in [Peers -> 0 .. MinDown]
      /\ accepted \in [Peers -> [run : Nat, seq : Nat]]
  BY DEF IInv, TypeOK
<1>2. \A m \in net : m.from \in Peers /\ m.from # p
  <2> SUFFICES ASSUME NEW m \in net, m.from = p PROVE FALSE
    BY PacketInFlight
  <2>1. m.age \in 0 .. MaxDelay
    BY PacketInFlight
  <2> QED BY <1>0, <1>1, <2>1 DEF IInv, NetInv
<1>3. TypeOK'
  <2>1. /\ alive' \in [Peers -> BOOLEAN] /\ run' \in [Peers -> 1 .. MaxRuns]
    BY <1>0, <1>1
  <2>2. /\ seq' \in [Peers -> 0 .. MaxSeq] /\ down' \in [Peers -> 0 .. MinDown]
    BY <1>0, <1>1
  <2> QED BY <1>0, <2>1, <2>2 DEF IInv, TypeOK
<1>4. \A q \in Peers : q # p => /\ alive'[q] = alive[q] /\ run'[q] = run[q]
                                /\ seq'[q] = seq[q] /\ down'[q] = down[q]
  BY <1>0, <1>1
<1>5. NetInv'
  BY <1>0, <1>2, <1>4 DEF IInv, NetInv
<1>6. AcceptedInv'
  <2> SUFFICES ASSUME NEW q \in Peers
               PROVE  /\ accepted[q].run <= run'[q]
                      /\ accepted[q].run = run'[q] => accepted[q].seq <= seq'[q]
                      /\ q \notin known => accepted[q].run = 0
    BY <1>0 DEF AcceptedInv
  <2>1. CASE q = p
    BY <1>0, <1>1, <2>1 DEF IInv, AcceptedInv
  <2>2. CASE q # p
    BY <1>4, <2>2 DEF IInv, AcceptedInv
  <2> QED BY <2>1, <2>2
<1>7. OvertakenInv'
  BY <1>0, <1>2, <1>4 DEF IInv, OvertakenInv, Overtaken
<1>8. BlackoutInv' /\ OnlineInv' /\ DownInv'
  BY <1>0, <1>1 DEF IInv, BlackoutInv, OnlineInv, DownInv
<1> QED BY <1>3, <1>5, <1>6, <1>7, <1>8 DEF IInv

\* After a tick a packet is one of before, a tick older, or new.
LEMMA PacketAfterTick ==
  ASSUME IInv, Tick, NEW m \in net'
  PROVE  /\ m \in Packet
         /\ \/ \E o \in net : /\ o.age < MaxDelay /\ m.age = o.age + 1 /\ m.kind = o.kind
                              /\ m.from = o.from /\ m.run = o.run /\ m.seq = o.seq
            \/ /\ m.age = 0 /\ alive[m.from] /\ m.run = run[m.from]
               /\ m.kind = "TELEMETRY" =>
                    m.seq = seq'[m.from] /\ seq'[m.from] = seq[m.from] + 1
<1>0. /\ run \in [Peers -> 1 .. MaxRuns] /\ seq \in [Peers -> 0 .. MaxSeq] /\ net \subseteq Packet
      /\ alive \in [Peers -> BOOLEAN]
      /\ seq' = [p \in Peers |-> IF alive[p] THEN AtMost(seq[p] + 1, MaxSeq) ELSE seq[p]]
  BY DEF IInv, TypeOK, Tick
<1>1. \/ \E o \in {o \in net : o.age < MaxDelay} : m = [o EXCEPT !.age = @ + 1]
      \/ \E p \in {p \in Peers : alive[p]} :
           m = [kind |-> "HEARTBEAT", from |-> p, run |-> run[p], age |-> 0, seq |-> 0]
      \/ \E p \in {p \in Peers : alive[p] /\ seq[p] < MaxSeq} :
           m = [kind |-> "TELEMETRY", from |-> p, run |-> run[p], age |-> 0, seq |-> seq'[p]]
  BY Zenon DEF Tick
<1>2. CASE \E o \in {o \in net : o.age < MaxDelay} : m = [o EXCEPT !.age = @ + 1]
  <2>1. PICK o \in net : o.age < MaxDelay /\ m = [o EXCEPT !.age = @ + 1]
    BY <1>2
  <2>2. /\ m.age = o.age + 1 /\ m.kind = o.kind /\ m.from = o.from /\ m.run = o.run
        /\ m.seq = o.seq /\ m \in Packet
    BY <1>0, <2>1 DEF Packet
  <2> QED BY <2>1, <2>2
<1>3. CASE \E p \in {p \in Peers : alive[p]} :
             m = [kind |-> "HEARTBEAT", from |-> p, run |-> run[p], age |-> 0, seq |-> 0]
  <2>1. PICK p \in Peers : alive[p] /\ m = [kind |-> "HEARTBEAT", from |-> p, run |-> run[p],
                                            age |-> 0, seq |-> 0]
    BY <1>3
  <2> QED BY <1>0, <2>1 DEF Packet
<1>4. CASE \E p \in {p \in Peers : alive[p] /\ seq[p] < MaxSeq} :
             m = [kind |-> "TELEMETRY", from |-> p, run |-> run[p], age |-> 0, seq |-> seq'[p]]
  <2>1. PICK p \in Peers : alive[p] /\ seq[p] < MaxSeq
                           /\ m = [kind |-> "TELEMETRY", from |-> p, run |-> run[p], age |-> 0,
                                   seq |-> seq'[p]]
    BY <1>4
  <2>2. seq'[p] = seq[p] + 1 /\ seq'[p] \in 0 .. MaxSeq
    BY <1>0, <2>1 DEF AtMost
  <2> QED BY <1>0, <2>1, <2>2 DEF Packet
<1> QED BY <1>1, <1>2, <1>3, <1>4

LEMMA TickKeepsIInv == IInv /\ Tick => IInv'
<1> SUFFICES ASSUME IInv, Tick PROVE IInv'
  OBVIOUS
<1>0. /\ UNCHANGED <<known, status, last_seen, loop_pc, alive, run, accepted, blackout>>
      /\ loop_pc = "refresh" => lag < MaxLag
      /\ lag' = IF loop_pc = "refresh" THEN lag + 1 ELSE lag
      /\ silence' = [p \in Peers |-> AtMost(silence[p] + 1, Timeout + MaxLag)]
      /\ down' = [p \in Peers |-> IF alive[p] THEN 0 ELSE AtMost(down[p] + 1, MinDown)]
      /\ seq' = [p \in Peers |-> IF alive[p] THEN AtMost(seq[p] + 1, MaxSeq) ELSE seq[p]]
  BY DEF Tick
<1>1. /\ alive \in [Peers -> BOOLEAN] /\ run \in [Peers -> 1 .. MaxRuns]
      /\ seq \in [Peers -> 0 .. MaxSeq] /\ down \in [Peers -> 0 .. MinDown]
      /\ accepted \in [Peers -> [run : Nat, seq : Nat]] /\ silence \in [Peers -> Nat]
      /\ known \subseteq Peers /\ lag \in 0 .. MaxLag
  BY DEF IInv, TypeOK
<1>2. \A p \in Peers :
        /\ silence'[p] \in Nat /\ silence'[p] <= silence[p] + 1
        /\ silence'[p] = silence[p] + 1 \/ silence'[p] >= Timeout
        /\ down'[p] \in 0 .. MinDown /\ down'[p] <= down[p] + 1 /\ (alive[p] => down'[p] = 0)
        /\ seq'[p] \in 0 .. MaxSeq /\ seq[p] <= seq'[p] /\ seq'[p] <= seq[p] + 1
        /\ ~alive[p] => seq'[p] = seq[p]
  BY <1>0, <1>1 DEF AtMost
<1>3. TypeOK'
  <2>1. silence' \in [Peers -> Nat] /\ down' \in [Peers -> 0 .. MinDown]
        /\ seq' \in [Peers -> 0 .. MaxSeq]
    BY <1>0, <1>2
  <2>2. net' \subseteq Packet
    BY PacketAfterTick
  <2>3. Packet' = Packet
    BY DEF Packet
  <2>4. lag' \in 0 .. MaxLag
    BY <1>0, <1>1
  <2> QED BY <1>0, <2>1, <2>2, <2>3, <2>4 DEF IInv, TypeOK
<1>4. NetInv'
  <2> SUFFICES ASSUME NEW m \in net'
               PROVE  /\ m.run = run[m.from]
                      /\ ~alive[m.from] => m.age >= down'[m.from]
                      /\ m.kind = "TELEMETRY" => /\ m.seq \in 1 .. seq'[m.from]
                                                 /\ m.seq + m.age >= seq'[m.from]
    BY <1>0 DEF NetInv
  <2>1. m.from \in Peers /\ m.seq \in 0 .. MaxSeq /\ m.age \in 0 .. MaxDelay
    BY PacketAfterTick DEF Packet
  <2>2. CASE \E o \in net : /\ o.age < MaxDelay /\ m.age = o.age + 1 /\ m.kind = o.kind
                            /\ m.from = o.from /\ m.run = o.run /\ m.seq = o.seq
    <3>1. PICK o \in net : /\ m.age = o.age + 1 /\ m.kind = o.kind
                           /\ m.from = o.from /\ m.run = o.run /\ m.seq = o.seq
      BY <2>2
    <3>2. /\ o.run = run[o.from] /\ (~alive[o.from] => o.age >= down[o.from]) /\ o.age \in Nat
          /\ o.kind = "TELEMETRY" => o.seq \in 1 .. seq[o.from] /\ o.seq + o.age >= seq[o.from]
      BY PacketInFlight DEF IInv, NetInv
    <3> QED BY <1>1, <1>2, <2>1, <3>1, <3>2
  <2>3. CASE /\ m.age = 0 /\ alive[m.from] /\ m.run = run[m.from]
             /\ m.kind = "TELEMETRY" => m.seq = seq'[m.from] /\ seq'[m.from] = seq[m.from] + 1
    BY <1>1, <1>2, <2>1, <2>3
  <2> QED BY <2>2, <2>3, PacketAfterTick
<1>5. AcceptedInv'
  <2> SUFFICES ASSUME NEW p \in Peers
               PROVE  /\ accepted[p].run <= run[p]
                      /\ accepted[p].run = run[p] => accepted[p].seq <= seq'[p]
                      /\ p \notin known => accepted[p].run = 0
    BY <1>0 DEF AcceptedInv
  <2> QED BY <1>1, <1>2 DEF IInv, AcceptedInv
<1>6. OvertakenInv'
  <2> SUFFICES ASSUME NEW m \in net', Overtaken(m)
               PROVE  m.age >= silence'[m.from] /\ last_seen[m.from] = accepted[m.from].seq
    BY <1>0 DEF OvertakenInv, Overtaken
  <2>1. m.from \in Peers /\ m.seq \in 0 .. MaxSeq /\ m.age \in 0 .. MaxDelay
    BY PacketAfterTick DEF Packet
  <2>2. CASE \E o \in net : /\ o.age < MaxDelay /\ m.age = o.age + 1 /\ m.kind = o.kind
                            /\ m.from = o.from /\ m.run = o.run /\ m.seq = o.seq
    <3>1. PICK o \in net : /\ m.age = o.age + 1 /\ m.kind = o.kind
                           /\ m.from = o.from /\ m.run = o.run /\ m.seq = o.seq
      BY <2>2
    <3>2. o.age >= silence[o.from] /\ last_seen[o.from] = accepted[o.from].seq /\ o.age \in Nat
      BY <3>1, PacketInFlight DEF IInv, OvertakenInv, Overtaken
    <3> QED BY <1>1, <1>2, <2>1, <3>1, <3>2
  <2>3. CASE /\ m.age = 0 /\ alive[m.from] /\ m.run = run[m.from]
             /\ m.kind = "TELEMETRY" => m.seq = seq'[m.from] /\ seq'[m.from] = seq[m.from] + 1
    <3>1. m.seq = seq[m.from] + 1 /\ accepted[m.from].seq <= seq[m.from]
      BY <2>1, <2>3 DEF Overtaken, IInv, AcceptedInv
    <3> QED BY <1>1, <2>1, <3>1 DEF Overtaken
  <2> QED BY <2>2, <2>3, PacketAfterTick
<1>7. BlackoutInv' /\ DownInv'
  BY <1>0, <1>2 DEF IInv, BlackoutInv, DownInv
<1>8. OnlineInv'
  <2> SUFFICES ASSUME NEW p \in known, status[p] = "OFFLINE" PROVE silence'[p] >= Timeout
    BY <1>0 DEF OnlineInv
  <2> QED BY <1>1, <1>2 DEF IInv, OnlineInv
<1> QED BY <1>3, <1>4, <1>5, <1>6, <1>7, <1>8 DEF IInv

-----------------------------------------------------------------------------
(* The theorems *)

LEMMA NextKeepsIInv == IInv /\ [Next]_vars => IInv'
<1> SUFFICES ASSUME IInv, [Next]_vars PROVE IInv'
  OBVIOUS
<1>1. CASE UNCHANGED vars
  BY <1>1, StutterKeepsIInv DEF vars
<1> QED BY <1>1, ReadClockKeepsIInv, RefreshStatusKeepsIInv, ReceiveHeartbeatKeepsIInv,
           ReceiveTelemetryKeepsIInv, TickKeepsIInv, CrashKeepsIInv, StartAgainKeepsIInv
        DEF Next, DroneListLoop

LEMMA SpecKeepsIInv == Spec => []IInv
BY InitIInv, NextKeepsIInv, PTL DEF Spec

\* Every variable keeps its type, whatever the number of peers and restarts.
THEOREM TypeCorrect == Spec => []TypeOK
<1>1. IInv => TypeOK
  BY DEF IInv
<1> QED BY <1>1, SpecKeepsIInv, PTL

\* A peer is only reported OFFLINE after a silence of the whole time-out.
THEOREM NoFalseAlarm == Spec => []OfflineMeansSilent
<1>1. IInv => OfflineMeansSilent
  BY DEF IInv, OnlineInv, OfflineMeansSilent, OfflineIds
<1> QED BY <1>1, SpecKeepsIInv, PTL

\* No telemetry is applied out of order, across restarts of the sender, resets
\* of the table and any loss, delay, repetition or reordering of packets.
THEOREM TelemetryInOrder == Spec => AcceptedInOrder
<1>1. IInv /\ [Next]_vars =>
        [\A p \in Peers : accepted'[p] # accepted[p] =>
           \/ accepted'[p].run > accepted[p].run
           \/ accepted'[p].run = accepted[p].run /\ accepted'[p].seq > accepted[p].seq]_vars
  <2> SUFFICES ASSUME IInv, Next, NEW p \in Peers, accepted'[p] # accepted[p]
               PROVE  \/ accepted'[p].run > accepted[p].run
                      \/ /\ accepted'[p].run = accepted[p].run
                         /\ accepted'[p].seq > accepted[p].seq
    OBVIOUS
  <2>0. accepted \in [Peers -> [run : Nat, seq : Nat]] /\ run \in [Peers -> 1 .. MaxRuns]
    BY DEF IInv, TypeOK
  <2>1. PICK m \in net : ReceiveTelemetry(m) /\ accepted' # accepted
    BY DEF Next, DroneListLoop, ReadClock, RefreshStatus, ReceiveHeartbeat, Tick, Crash, StartAgain
  <2>2. /\ m.kind = "TELEMETRY" /\ m.seq > LastSeenFor(m.from, m.seq)
        /\ accepted' = [accepted EXCEPT ![m.from] = [run |-> m.run, seq |-> m.seq]]
    BY <2>1 DEF ReceiveTelemetry, AcceptTelemetry
  <2>3. m.from = p /\ accepted'[p] = [run |-> m.run, seq |-> m.seq]
    BY <2>0, <2>2, PacketInFlight
  <2>4. m.run = run[p] /\ m.seq \in Nat /\ m.run \in Nat
    BY <2>3, PacketInFlight
  <2>5. accepted[p].run <= run[p] /\ (accepted[p].run = run[p] => m.seq > accepted[p].seq)
    BY <2>2, <2>3, AcceptedIsNewest DEF IInv, AcceptedInv
  <2> QED BY <2>0, <2>3, <2>4, <2>5
<1> QED BY <1>1, SpecKeepsIInv, PTL DEF Spec, AcceptedInOrder

\* Between two accepted packets at most Threshold + 1 fresh ones are refused.
THEOREM BlackoutIsBounded == Spec => []BlackoutBounded
<1>1. IInv => BlackoutBounded
  <2> SUFFICES ASSUME IInv, NEW p \in Peers PROVE Cardinality(blackout[p]) <= Threshold + 1
    BY DEF BlackoutBounded
  <2>1. PICK k \in Nat : blackout[p] \subseteq k - Threshold .. k
    BY DEF IInv, BlackoutInv
  <2>2. IsFiniteSet(k - Threshold .. k) /\ Cardinality(k - Threshold .. k) = Threshold + 1
    <3>1. k - Threshold \in Int /\ k \in Int /\ k - Threshold <= k
          /\ k - (k - Threshold) + 1 = Threshold + 1
      OBVIOUS
    <3> QED BY <3>1, FS_Interval
  <2>3. Cardinality(blackout[p]) <= Cardinality(k - Threshold .. k)
    BY <2>1, <2>2, FS_Subset
  <2> QED BY <2>2, <2>3
<1> QED BY <1>1, SpecKeepsIInv, PTL
=============================================================================
