------------------------------- MODULE Doctor -------------------------------
(***************************************************************************)
(* The diagnosis of src/src/admin/doctor.go, evaluateDoctor, and the exit  *)
(* code that uqdactl makes of it (src/cmd/uqdactl/doctor.go).              *)
(*                                                                         *)
(* The snapshot is a record of what evaluateDoctor tells apart; texts are  *)
(* left out.  A recommendation is named after the check it belongs to.     *)
(***************************************************************************)
EXTENDS Integers, Sequences, FiniteSetsExt, SequencesExt

\* A latency is a time.Duration; Microsecond is the number of its units (1000
\* nanoseconds) that time.Duration.Microseconds divides by.
CONSTANTS MaxPeers, MaxLatency, MaxRoutes, Microsecond

ASSUME DoctorAssumption ==
    /\ MaxPeers \in Nat /\ MaxLatency \in Nat /\ MaxRoutes \in Nat
    /\ Microsecond \in Nat \ {0}

\* doctorSnapshot.  The endpoint stands for adminListen with what parsing and
\* stat() say of it: "file" is a unix socket with a path, "public" a tcp
\* address that is not loopback.
Endpoints == {"malformed", "abstract", "nostat", "file0600", "fileOther",
              "loopback", "public", "unsupported"}
Peer == [up: BOOLEAN, latency: 0 .. MaxLatency]
Snapshots ==
    [address: BOOLEAN, endpoint: Endpoints, tunKnown: BOOLEAN, tunEnabled: BOOLEAN,
     peers: BoundedSeq(Peer, MaxPeers), routes: 0 .. MaxRoutes,
     multicastKnown: BOOLEAN, multicastCount: 0 .. 1]

Check(name, status) == [name |-> name, status |-> status]

\* doctorSeverity.
Severity(status) ==
    CASE status = "failure" -> 2
      [] status = "warning" -> 1
      [] OTHER -> 0

\* evaluateDoctorAdmin.
AdminCheck(s) ==
    Check("admin", IF s.endpoint \in {"abstract", "file0600", "loopback"}
                     THEN "pass" ELSE "failure")

TunCheck(s) == Check("tun", IF s.tunKnown /\ s.tunEnabled THEN "pass" ELSE "warning")

\* The sample of a peer, peer.Latency.Microseconds(): the division truncates, so
\* a latency below one microsecond is no sample.
Micros(p) == p.latency \div Microsecond

\* The loop over the peers: the smallest sample of the ones that are up, 0 if
\* there is none.
BestLatency(peers) ==
    FoldLeft(LAMBDA best, p :
                IF p.up /\ Micros(p) > 0 /\ (best = 0 \/ Micros(p) < best)
                  THEN Micros(p) ELSE best,
             0, peers)

Connected(s) == \E i \in DOMAIN s.peers : s.peers[i].up
PeersCheck(s) == Check("peers", IF Connected(s) THEN "pass" ELSE "warning")
RoutingCheck(s) == Check("routing", IF s.routes <= 1 THEN "warning" ELSE "pass")

\* The check that is made only when the handler of multicast is registered.
MulticastChecks(s) ==
    IF ~s.multicastKnown THEN <<>>
    ELSE <<Check("multicast", IF s.multicastCount = 0 /\ s.peers = <<>>
                                THEN "warning" ELSE "pass")>>

Checks(s) ==
    <<Check("daemon", "pass"),
      Check("identity", IF s.address THEN "pass" ELSE "failure"),
      AdminCheck(s), TunCheck(s), PeersCheck(s), RoutingCheck(s)>> \o MulticastChecks(s)

\* The checks whose failure comes with a recommendation.
Advised(s) ==
    {c \in Range(Checks(s)) : c.status # "pass" /\ c.name # "multicast"
                              /\ (c.name = "tun" => s.tunKnown)}

\* Mutant: the status of the last check that did not pass is kept.
Overall_Last(checks) ==
    FoldLeft(LAMBDA st, c : IF c.status # "pass" THEN c.status ELSE st, "pass", checks)

\* The closure add: the overall status rises and never falls.
Overall(checks) ==
    FoldLeft(LAMBDA st, c : IF Severity(c.status) > Severity(st) THEN c.status ELSE st,
             "pass", checks)

evaluateDoctor(s) ==
    [status |-> Overall(Checks(s)), checks |-> Checks(s),
     recommendations |-> {c.name : c \in Advised(s)},
     best |-> BestLatency(s.peers)]

\* doctorExitCode.
doctorExitCode(res) ==
    CASE res.status = "failure" -> 1
      [] res.status = "warning" -> 2
      [] OTHER -> 0

----------------------------------------------------------------------------
(* Properties.                                                             *)

\* The exit code is what the guide says of it (docs/PROJECT_GUIDE.md): 0 means
\* healthy, 2 that the node runs with warnings, and 1 reports a failure of
\* security or identity, whatever else there is to warn of.
ExitCodeMeans(s) ==
    LET res == evaluateDoctor(s)
        secure == s.address /\ s.endpoint \in {"abstract", "file0600", "loopback"}
        healthy == /\ s.tunKnown /\ s.tunEnabled
                   /\ Connected(s)
                   /\ s.routes > 1
    IN  doctorExitCode(res) = IF ~secure THEN 1 ELSE IF ~healthy THEN 2 ELSE 0

\* The round-trip time in the report is the best of the connected peers that
\* have one, and there is one whenever such a peer exists; a peer that is down
\* or has no sample of a whole microsecond is never reported as the fastest.
BestIsMinimum(s) ==
    LET samples == {Micros(s.peers[i]) : i \in {j \in DOMAIN s.peers : s.peers[j].up}} \ {0}
    IN  evaluateDoctor(s).best = IF samples = {} THEN 0 ELSE Min(samples)
=============================================================================
